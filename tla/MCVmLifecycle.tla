----------------------------- MODULE MCVmLifecycle -----------------------------
(* VmLifecycle with its inductive invariant and its refinement mapping, for    *)
(* TLC: the constants need no definitions.                                     *)
EXTENDS VmQueue
================================================================================
