------------------------------ MODULE MCInventory -------------------------------
(* Constants of Inventory for TLC: the second address has a carry, and it is  *)
(* also the one that strangers have and that administrators choose.           *)
EXTENDS Inventory

MCStartIP == <<10, 0, 0, 255>>
MCChosen  == {<<10, 0, 1, 0>>}
================================================================================
