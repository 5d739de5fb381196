----------------------------- MODULE MCAxProgram -----------------------------
(* The walker and router programs with a handful of requests. *)
EXTENDS AxProgram

const_Comps == UNION {0 .. t - 1 : t \in Totals}
BothPrograms == {Walker, SwitchToFill}
JustWalker == {Walker}
=============================================================================
