------------------------------ MODULE MCAdmission ------------------------------
(* Constants of Admission for TLC.                                           *)
EXTENDS Admission, TLC

MCSizes  == {[cpu |-> 1, memory |-> 2, disk |-> 1], [cpu |-> 2, memory |-> 1, disk |-> 2]}
MCLimits == "few"  :> [number |-> 1, cpu |-> 3, memory |-> 4, storage |-> 3] @@
            "weak" :> [number |-> 2, cpu |-> 1, memory |-> 1, storage |-> 0]
MCFound  == {<<101, 1>>}
Symmetry == Permutations(Clients) \union Permutations(Users)
================================================================================
