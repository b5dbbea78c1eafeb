------------------------------ MODULE MCModRun ------------------------------
(***************************************************************************)
(* A polling analyzer and a ring analyzer in one run of mod.               *)
(***************************************************************************)
EXTENDS ModRun

TwoWriters == {<<"f", "x">>}
=============================================================================
