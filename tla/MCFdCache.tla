------------------------------ MODULE MCFdCache ------------------------------
(***************************************************************************)
(* Two descriptors whose probe sequences begin at one slot.                *)
(***************************************************************************)
EXTENDS FdCache

MCHash == [x |-> 0, y |-> 0]
=============================================================================
