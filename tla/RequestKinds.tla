----------------------------- MODULE RequestKinds -----------------------------
(***************************************************************************)
(* The request functions of the programs that use the DSA and IAA work     *)
(* queues, their argument allocators and their fillers, as descriptions    *)
(* that FiberRuns carries out.                                             *)
(*                                                                         *)
(* A request submits the descriptors of its stages one after the other and *)
(* waits for each.  A description says what it does around that:           *)
(*   stages      the descriptors, <<>> for a request on the core alone;    *)
(*   yields      it yields to the executor, or spins on its record;        *)
(*   on_failure  what it does with a record that says error;               *)
(*   counts      it increments requests_completed at its end;              *)
(*   uses        the buffers it reads or writes.                           *)
(* An allocator sets up buffers, a free function frees them; both are      *)
(* given as sets of them.  All requests of a run have the same.            *)
(***************************************************************************)
EXTENDS HwQueue

\* What a request makes of a failed offload: nothing; an error message; an
\* error message and a return from the fiber function, which ends the process.
Ignores == "ignores"
Reports == "reports"
GivesUp == "gives up"

Stage(prepare, submit) == [prepare |-> prepare, submit |-> submit]

Decompress ==
  Stage(prepare_iaa_decompress_desc_with_preallocated_comp,
        blocking_iaa_submit)
Compress ==
  Stage(prepare_iaa_compress_desc_and_aecs_with_preallocated_comp,
        blocking_iaa_submit)
Memcpy ==
  Stage(prepare_dsa_memcpy_desc_with_preallocated_comp, blocking_dsa_submit)
Memfill == Stage(prepare_dsa_memfill_desc_with_preallocated_comp, dsa_submit)

\* A request with one descriptor that counts itself at its end.
Blocking(stage, on_failure, uses) ==
  [stages |-> <<stage>>, yields |-> FALSE, on_failure |-> on_failure,
   counts |-> TRUE, uses |-> uses]

Yielding(stage, on_failure, uses) ==
  [Blocking(stage, on_failure, uses) EXCEPT !.yields = TRUE]

OnCore(uses) ==
  [stages |-> <<>>, yields |-> FALSE, on_failure |-> Ignores,
   counts |-> TRUE, uses |-> uses]

OffloadArgs == {"src_payload", "dst_payload", "desc"}

\* Buffers in global variables: a later run can use them.
Globals == {"glob_indir_arr", "glb_ll_head", "glob_dst_buf",
            "user_filler_buf", "item_buf"}

-----------------------------------------------------------------------------
(***************************************************************************)
(* src/src/decompress_and_hash_request.cpp                                 *)
(***************************************************************************)
cpu_decompress_and_hash_stamped == OnCore({"inputs"})
cpu_decompress_and_hash == OnCore({"inputs"})

blocking_decompress_and_hash_request_stamped ==
  Blocking(Decompress, Reports, OffloadArgs)
blocking_decompress_and_hash_request ==
  Blocking(Decompress, Reports, OffloadArgs)
yielding_decompress_and_hash_request_stamped ==
  Yielding(Decompress, Reports, OffloadArgs)
yielding_decompress_and_hash_request ==
  Yielding(Decompress, Reports, OffloadArgs)

compressed_mc_req_allocator == {"inputs"}
compressed_mc_req_free == {"inputs"}
alloc_decomp_and_hash_offload_args_stamped == OffloadArgs
free_decomp_and_hash_offload_args_stamped == OffloadArgs
alloc_decomp_and_hash_offload_args == OffloadArgs
free_decomp_and_hash_offload_args == OffloadArgs

-----------------------------------------------------------------------------
(***************************************************************************)
(* src/src/decompress_and_scatter_request.cpp.  The indirection array is   *)
(* global: an allocator generates it if there is none, and every free      *)
(* function frees it.                                                      *)
(***************************************************************************)
cpu_decomp_and_scatter_stamped == OnCore({"inputs", "glob_indir_arr"})
cpu_decomp_and_scatter == OnCore({"inputs", "glob_indir_arr"})

ScatterArgs == OffloadArgs \cup {"glob_indir_arr"}

blocking_decomp_and_scatter_request_stamped ==
  Blocking(Decompress, Reports, ScatterArgs)
blocking_decomp_and_scatter_request ==
  Blocking(Decompress, Reports, ScatterArgs)
yielding_decomp_and_scatter_stamped ==
  Yielding(Decompress, Reports, ScatterArgs)
yielding_decomp_and_scatter == Yielding(Decompress, Reports, ScatterArgs)

cpu_compressed_payload_allocator == {"inputs", "glob_indir_arr"}
free_cpu_compressed_payloads == {"inputs", "glob_indir_arr"}
alloc_offload_decomp_and_scatter_args_timed == ScatterArgs
free_offload_decomp_and_scatter_args_timed == ScatterArgs
Mut_NoIndirection == OffloadArgs
alloc_offload_decomp_and_scatter_args == ScatterArgs
free_offload_decomp_and_scatter_args == ScatterArgs

-----------------------------------------------------------------------------
(***************************************************************************)
(* src/src/memcpy_dp_request.cpp, with mlp's dot_product over the global   *)
(* item_buf as compute_on_input.  The timed arguments come with a fresh    *)
(* item_buf, the untimed ones (offered load) without.                      *)
(***************************************************************************)
cpu_memcpy_and_compute_stamped == OnCore({"inputs", "item_buf"})
cpu_memcpy_and_compute == OnCore({"inputs", "item_buf"})

MemcpyArgs == OffloadArgs \cup {"item_buf"}

blocking_memcpy_and_compute_stamped == Blocking(Memcpy, Ignores, MemcpyArgs)
blocking_memcpy_and_compute == Blocking(Memcpy, GivesUp, MemcpyArgs)
yielding_memcpy_and_compute_stamped == Yielding(Memcpy, Ignores, MemcpyArgs)
yielding_memcpy_and_compute == Yielding(Memcpy, Ignores, MemcpyArgs)

alloc_cpu_memcpy_and_compute_args == {"inputs", "item_buf"}
free_cpu_memcpy_and_compute_args == {"inputs", "item_buf"}
alloc_offload_memcpy_and_compute_args_timed == MemcpyArgs
free_offload_memcpy_and_compute_args_timed ==
  {"src_payload", "dst_payload", "item_buf"}
alloc_offload_memcpy_and_compute_args == OffloadArgs
free_offload_memcpy_and_compute_args == {"src_payload", "dst_payload"}

-----------------------------------------------------------------------------
(***************************************************************************)
(* src/src/memfill_gather.cpp.  Its functions have the names of those of   *)
(* memcpy_dp_request.cpp; dst_payload houses the indirection array.        *)
(***************************************************************************)
cpu_memfill_and_gather_stamped == OnCore({"inputs"})
cpu_memfill_and_gather == OnCore({"inputs"})

blocking_memfill_and_gather_stamped == Blocking(Memfill, GivesUp, OffloadArgs)
Mut_Yields == Yielding(Memfill, GivesUp, OffloadArgs)
blocking_memfill_and_gather == Blocking(Memfill, GivesUp, OffloadArgs)
yielding_memfill_and_gather == Yielding(Memfill, GivesUp, OffloadArgs)

alloc_cpu_memfill_and_gather_args == {"inputs"}
free_cpu_memfill_and_gather_args == {"inputs"}
alloc_offload_memfill_and_gather_args_timed == OffloadArgs
free_offload_memfill_and_gather_args_timed == OffloadArgs
alloc_offload_memfill_and_gather_args == OffloadArgs
free_offload_memfill_and_gather_args == OffloadArgs

-----------------------------------------------------------------------------
(***************************************************************************)
(* src/three_phase.cpp: work on the core, a copy, work on the core.  The   *)
(* serial access chases pointers in aux_payload, the source of the copy.   *)
(***************************************************************************)
SerialArgs == OffloadArgs \cup {"aux_payload"}

blocking_offload_and_serial_access_stamped ==
  Blocking(Memcpy, Ignores, SerialArgs)
yielding_offload_and_serial_access_stamped ==
  Yielding(Memcpy, Ignores, SerialArgs)
blocking_offload_and_linear_access_stamped ==
  Blocking(Memcpy, Ignores, OffloadArgs)
yielding_offload_and_linear_access_stamped ==
  Yielding(Memcpy, Ignores, OffloadArgs)

alloc_offload_serialized_access_args == SerialArgs
free_offload_serialized_access_args == {"src_payload", "dst_payload"}
alloc_offload_linear_access_args == OffloadArgs
Mut_FreesAux == {"src_payload", "dst_payload", "aux_payload"}
free_offload_linear_access_args == {"src_payload", "dst_payload"}

-----------------------------------------------------------------------------
(***************************************************************************)
(* src/traverse.cpp.  The linked list is global, built if there is none;   *)
(* a request leaves it to the filler in glb_node_ptr.                      *)
(***************************************************************************)
TraverseArgs == OffloadArgs \cup {"glb_ll_head"}

blocking_traverse_and_offload_stamped ==
  Blocking(Memcpy, Ignores, TraverseArgs)
yielding_traverse_and_offload_stamped ==
  Yielding(Memcpy, Ignores, TraverseArgs)

alloc_offload_traverse_and_offload_args == TraverseArgs
free_offload_traverse_and_offload_args ==
  {"src_payload", "dst_payload", "glb_ll_head"}

-----------------------------------------------------------------------------
(***************************************************************************)
(* src/inc/inline/three_phase_components.ipp and the two-phase templates   *)
(* of src/three_phase_composable.cpp: pre-processing, offload and          *)
(* post-processing.  None of them counts itself in requests_completed: the *)
(* executors of these requests count by index.  post says what the         *)
(* post-processing function uses besides its input and output.             *)
(***************************************************************************)
ThreePhaseArgs ==
  {"pre_proc_input", "pre_proc_output", "ax_func_output", "post_proc_output",
   "desc"}
TwoPhaseArgs == ThreePhaseArgs \ {"post_proc_output"}

Phases(stages, yields, uses) ==
  [stages |-> stages, yields |-> yields, on_failure |-> Reports,
   counts |-> FALSE, uses |-> uses]

generic_yielding_three_phase_timed(stage, post) ==
  Phases(<<stage>>, TRUE, ThreePhaseArgs \cup post)
generic_blocking_three_phase_timed(stage, post) ==
  Phases(<<stage>>, FALSE, ThreePhaseArgs \cup post)
generic_yielding_three_phase(stage, post) ==
  Phases(<<stage>>, TRUE, ThreePhaseArgs \cup post)
generic_blocking_three_phase(stage, post) ==
  Phases(<<stage>>, FALSE, ThreePhaseArgs \cup post)
generic_gpcore_three_phase(post) ==
  Phases(<<>>, FALSE, (ThreePhaseArgs \ {"desc"}) \cup post)
generic_gpcore_three_phase_timed(post) ==
  Phases(<<>>, FALSE, (ThreePhaseArgs \ {"desc"}) \cup post)

\* Both stages use the same descriptor and the same completion record.
axcore_axcore_two_phase_timed(stage1, stage2) ==
  Phases(<<stage1, stage2>>, FALSE, TwoPhaseArgs)
axcore_iaa_aecs_axcore_two_phase(stage1, stage2) ==
  Phases(<<stage1, stage2>>, FALSE, TwoPhaseArgs \cup {"aecs"})
gpcore_iaa_aecs_axcore_gpcore_three_phase(stage) ==
  Phases(<<stage>>, FALSE, ThreePhaseArgs \cup {"aecs"})

gather_access == {"glob_indir_arr"}
hash_buf == {}
null_fn == {}
gpcore_do_deflate_decompress == {}

decomp_gather_gpcore_stamped == generic_gpcore_three_phase_timed(gather_access)
decomp_gather_gpcore == generic_gpcore_three_phase(gather_access)
decomp_gather_blocking_stamped ==
  generic_blocking_three_phase_timed(Decompress, gather_access)
decomp_gather_blocking ==
  generic_blocking_three_phase(Decompress, gather_access)
decomp_gather_yielding_stamped ==
  generic_yielding_three_phase_timed(Decompress, gather_access)
decomp_gather_yielding ==
  generic_yielding_three_phase(Decompress, gather_access)

deser_decomp_hash_gpcore_stamped == generic_gpcore_three_phase_timed(hash_buf)
deser_decomp_hash_gpcore == generic_gpcore_three_phase(hash_buf)
deser_decomp_hash_blocking_stamped ==
  generic_blocking_three_phase_timed(Decompress, hash_buf)
deser_decomp_hash_blocking == generic_blocking_three_phase(Decompress, hash_buf)
deser_decomp_hash_yielding_stamped ==
  generic_yielding_three_phase_timed(Decompress, hash_buf)
deser_decomp_hash_yielding == generic_yielding_three_phase(Decompress, hash_buf)

memcpy_decomp_axcore_axcore_stamped ==
  axcore_axcore_two_phase_timed(Memcpy, Decompress)
memcpy_comp_axcore_axcore_stamped ==
  axcore_iaa_aecs_axcore_two_phase(Memcpy, Compress)
memcpy_decomp_axcore_gpcore_stamped ==
  generic_blocking_three_phase_timed(Memcpy, gpcore_do_deflate_decompress)
memcpy_decomp_gpcore_gpcore_stamped ==
  generic_gpcore_three_phase_timed(gpcore_do_deflate_decompress)
memcpy_decomp_gpcore_axcore_stamped ==
  generic_blocking_three_phase_timed(Decompress, null_fn)
memcpy_comp_gpcore_axcore_stamped ==
  gpcore_iaa_aecs_axcore_gpcore_three_phase(Compress)

\* The allocators of src/src/three_phase_components.cpp and of
\* src/three_phase_composable.cpp.  A free function frees every buffer it
\* names, whether or not the allocator it is paired with set it up.
three_func_allocator == ThreePhaseArgs
null_two_func_allocator == ThreePhaseArgs
free_three_phase_stamped_args == ThreePhaseArgs
free_null_two_phase == ThreePhaseArgs
axcore_axcore_allocator == TwoPhaseArgs
free_axcore_axcore == TwoPhaseArgs
axcore_axcore_compress_aecs_allocator == TwoPhaseArgs \cup {"aecs"}
free_axcore_axcore_compress_aecs == TwoPhaseArgs \cup {"aecs"}
memcpy_comp_gpcore_axcore_null_allocator == ThreePhaseArgs \cup {"aecs"}

-----------------------------------------------------------------------------
(***************************************************************************)
(* Fillers: they loop for ever, probing for the preemption signal; given   *)
(* here by the buffers they touch.                                         *)
(***************************************************************************)
antagonist_interleaved == {}
hash_interleaved == {}
dotproduct_interleaved == {"item_buf", "user_filler_buf"}
scatter_interleaved == {"glob_dst_buf", "glob_indir_arr"}
lltraverse_interleaved == {"glb_ll_head"}
=============================================================================
