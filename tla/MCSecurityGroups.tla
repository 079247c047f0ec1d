---------------------------- MODULE MCSecurityGroups ----------------------------
(* Constants of SecurityGroups for TLC.                                       *)
EXTENDS SecurityGroups

Writing == {"newGroup", "create", "adopt", "patch"}

\* One request of any kind; one that writes beside one that deletes a group.
MCAnyOp   == [c \in Clients |-> Writing \union {"delete"}]
MCRacing  == [c \in Clients |-> IF c = "deleter" THEN {"delete"} ELSE Writing]

MCContents  == {[rules |-> <<>>, policy |-> "ACCEPT"],
                [rules |-> <<"r1", "r2">>, policy |-> "DROP"]}
MCUsed      == {[rules |-> <<"r2", "uestc">>, policy |-> "DROP", ipset |-> {"x"}]}
MCUntouched == MCUsed \union {[rules |-> <<>>, policy |-> "ACCEPT", ipset |-> {}]}
================================================================================
