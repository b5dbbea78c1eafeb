----------------------------- MODULE MCTraceRun -----------------------------
(***************************************************************************)
(* Instances of TraceRun: all three engines, or syscalls alone.            *)
(***************************************************************************)
EXTENDS TraceRun

AllEngines == <<"syscalls", "funcs", "lib">>
OneEngine == <<"syscalls">>
=============================================================================
