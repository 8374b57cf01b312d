---------------------------- MODULE MCPeerParts ----------------------------
(***************************************************************************)
(* An instance of PeerParts for TLC.                                       *)
(***************************************************************************)
EXTENDS PeerParts, TLC

CONSTANTS u1, u2, u3, r1, r2, kitchen, hall, x, y

\* A daytimer whose states and details come and go, as a control of its own
\* and as a sub control, ...
Entry(room, parent, states, details) ==
  [type |-> "Daytimer", room |-> room, parent |-> parent,
   states |-> states, details |-> details]
MCEntries ==
  { Entry(r1, None, u1 :> "value" @@ u2 :> "mode", "format" :> x),
    Entry(r2, None, u3 :> "value" @@ u2 :> "mode", "format" :> y),
    Entry(None, hall, u2 :> "value", "min" :> x @@ "format" :> x),
    Entry(r1, hall, u1 :> "mode" @@ u2 :> "value" @@ u3 :> "extra", <<>>) }

\* ... and one control of every type, and of one that the code does not know.
MCKindEntries ==
  { [type |-> type, room |-> None, parent |-> None,
     states |-> u1 :> "value", details |-> <<>>] :
      type \in Rows!Types \cup {"Remote"} }

MCRooms == r1 :> kitchen
=============================================================================
