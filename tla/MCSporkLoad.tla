---------------------------- MODULE MCSporkLoad -----------------------------
(* Three signers in the file: the message of the first fails its signature *)
(* check, the second is no longer a spork key.                             *)
EXTENDS SporkLoad

CONSTANTS damaged, former, k3

MCSigners == <<damaged, former, k3>>
=============================================================================
