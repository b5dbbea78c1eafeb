---------------------------- MODULE MCSpanStack ----------------------------
(***************************************************************************)
(* Instances of SpanStack; the runs differ in the engine, in which probes  *)
(* each function has and in what may go wrong.                             *)
(***************************************************************************)
EXTENDS SpanStack
=============================================================================
