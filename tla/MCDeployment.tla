------------------------------ MODULE MCDeployment -----------------------------
EXTENDS Deployment

\* The kind "ensure" is left to the proofs, which are for every list of kinds.
MCKinds == <<"rewrite", "nothing", "add">>
================================================================================
