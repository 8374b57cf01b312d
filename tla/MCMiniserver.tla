---------------------------- MODULE MCMiniserver ----------------------------
(* Small instances of Miniserver: an init() of two exchanges, whose first   *)
(* may fail without ending it, and no Homegear thread besides the main one; *)
(* or one Homegear thread and an init() of one exchange.                    *)
EXTENDS Miniserver

CONSTANT rpc1

(* Restarts that overlap are explored without Homegear threads only.         *)
NoOverlap == ~overlap

OneRpc == {rpc1}
FirstStep == {1}
=============================================================================
