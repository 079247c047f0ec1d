------------------------------ MODULE MCProvision ------------------------------
(* Constants of Provision for TLC.                                             *)
EXTENDS Provision

MCAdopted ==
  {[node |-> TargetNode, disk |-> 1, storage |-> TPM, tpm |-> s, power |-> "running"] :
     s \in Storages \ {TPM}}
================================================================================
