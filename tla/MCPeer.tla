------------------------------- MODULE MCPeer -------------------------------
(* A Slider: its state sets VALUE and ACTIVE; NAME is only stored. *)
EXTENDS Peer, TLC

MCFrame == [s \in {"value"} |-> <<"ACTIVE", "VALUE">>]
MCStates == {"value"}
MCStored == {"NAME"}
MCSymmetry == Permutations(Threads) \cup Permutations(Values)
MCRequests == { <<"ACTIVE">>, <<"NAME", "VALUE">> }
=============================================================================
