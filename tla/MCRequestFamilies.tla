--------------------------- MODULE MCRequestFamilies ---------------------------
(* ConfigSync with the two families of requests that its promises are about:   *)
(* patches of settings and password, and patches with power requests that      *)
(* leave the settings alone.  A power request writes back the settings its     *)
(* handler loaded, so that with both kinds Converged does not hold.            *)
EXTENDS MCConfigSync

VARIABLE family

MCvars == <<vars, family>>

OneConfig == CHOOSE x \in Configs : TRUE

InFamily ==
  IF family = "patches"
  THEN \A c \in Clients : req[c].op # "power"
  ELSE \A c \in Clients : req[c].op # "idle" => req[c].prefer.settings = OneConfig

MCInit ==
  /\ Init
  /\ family \in {"patches", "power"}
  /\ family = "power" => row.prefer.settings = OneConfig

MCNext == Next /\ UNCHANGED family /\ InFamily'

MCSpec == MCInit /\ [][MCNext]_MCvars
================================================================================
