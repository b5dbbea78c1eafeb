--------------------------- MODULE MCSyscallTrace ---------------------------
(***************************************************************************)
(* Instances of SyscallTrace: which system calls are wanted and probed is  *)
(* what the runs differ in.                                                *)
(***************************************************************************)
EXTENDS SyscallTrace

CONSTANTS t1, t2, openat, read, futex, s1
=============================================================================
