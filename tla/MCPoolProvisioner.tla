--------------------------- MODULE MCPoolProvisioner ---------------------------
(* PoolProvisioner for TLC: its constants need no definitions.                 *)
EXTENDS PoolProvisioner
================================================================================
