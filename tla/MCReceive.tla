----------------------------- MODULE MCReceive -----------------------------
(***************************************************************************)
(* How what the Miniserver sends reaches a peer: Framing, EventTables,     *)
(* Central and Peer, each of which is checked here by itself, the last two *)
(* for what they do in the end.  They share no state, so a behavior runs   *)
(* one of them, and what the others have is Unused.  A variable that two   *)
(* of them declare is the one of that which runs.                          *)
(***************************************************************************)
EXTENDS Naturals, Sequences, TLC

CONSTANTS
  a, b, t, Unused,
  Tables, Signals, Handshake, MaxRead, MaxMessages, MaxConnections,  \* of Framing
  MaxEntries, MaxCount                                           \* of EventTables

VARIABLES
  runs,  \* the module that runs
  sent, unread, buffer, processed, lpc, http, websocket, identifier, stopped,
  connections, out, pieces,                                      \* Framing
  kind, table, data, packets,                                    \* EventTables
  phase, created, peer, byId, bySerial, route, rows, search, delete, listen,
  heard, removed, crashes, deletes, torn,                        \* Central
  db,                                                  \* of Central or Peer
  mem, seen, todo, plan, packet, at, changed, state, connected, down, up,
  calls, changes, unheeded, crossed, stale                       \* Peer

Framing == INSTANCE Framing
EventTables == INSTANCE EventTables

\* One control with one state, whose peer can be deleted and created again.
Central == INSTANCE Central WITH
  Actions <- {a}, Uuids <- {a}, StateOf <- a :> {a},
  Described <- {a}, Rooms <- {"room"}, Absent <- Unused, Serials <- {1, 2},
  MaxPeers <- 2, MaxCrashes <- 0, MaxDeletes <- 1, QuickHolders <- TRUE

\* A Slider, whose state sets VALUE and ACTIVE.
Peer == INSTANCE Peer WITH
  Threads <- {t}, States <- {"value"},
  Frame <- [s \in {"value"} |-> <<"ACTIVE", "VALUE">>], Stored <- {"NAME"},
  Requests <- { <<"VALUE">> }, Values <- {a, b}, MaxCalls <- 2, MaxChanges <- 1

ASSUME ConstantsAssumption ==
  Framing!BoundsAssumption /\ EventTables!BoundsAssumption

framing == <<sent, unread, buffer, http, websocket, identifier, stopped,
             connections, out, pieces>>
tables == <<kind, table, data, packets>>
central == <<phase, created, peer, byId, bySerial, route, rows, search, delete,
             listen, heard, removed, crashes, deletes, torn>>
values == <<mem, seen, todo, plan, packet, at, changed, state, connected,
          down, up, calls, changes, unheeded, crossed, stale>>

NoFraming ==
  /\ sent = Unused /\ unread = Unused /\ buffer = Unused /\ http = Unused
  /\ websocket = Unused /\ identifier = Unused /\ stopped = Unused
  /\ connections = Unused /\ out = Unused /\ pieces = Unused
NoTables == kind = Unused /\ table = Unused /\ data = Unused /\ packets = Unused
NoCentral ==
  /\ phase = Unused /\ created = Unused /\ peer = Unused /\ byId = Unused
  /\ bySerial = Unused /\ route = Unused /\ rows = Unused /\ search = Unused
  /\ delete = Unused /\ listen = Unused /\ heard = Unused /\ removed = Unused
  /\ crashes = Unused /\ deletes = Unused /\ torn = Unused
NoPeer ==
  /\ mem = Unused /\ seen = Unused /\ todo = Unused
  /\ plan = Unused /\ packet = Unused /\ at = Unused /\ changed = Unused
  /\ state = Unused /\ connected = Unused /\ down = Unused /\ up = Unused
  /\ calls = Unused /\ changes = Unused /\ unheeded = Unused
  /\ crossed = Unused /\ stale = Unused

Init ==
  \/ /\ runs = "Framing" /\ Framing!Init
     /\ NoTables /\ NoCentral /\ NoPeer /\ db = Unused
  \/ /\ runs = "EventTables" /\ EventTables!Init
     /\ NoFraming /\ NoCentral /\ NoPeer /\ lpc = Unused /\ db = Unused
  \/ /\ runs = "Central" /\ Central!Init
     /\ NoFraming /\ NoTables /\ NoPeer /\ lpc = Unused /\ processed = Unused
  \/ /\ runs = "Peer" /\ Peer!Init
     /\ NoFraming /\ NoTables /\ NoCentral /\ processed = Unused

\* A step of the module that runs.
InFraming(A) ==
  runs = "Framing" /\ A /\ UNCHANGED <<runs, tables, central, db, values>>
InTables(A) ==
  runs = "EventTables" /\ A /\ UNCHANGED <<runs, framing, central, db, values, lpc>>
InCentral(A) ==
  runs = "Central" /\ A /\ UNCHANGED <<runs, framing, tables, values, lpc, processed>>
InPeer(A) ==
  runs = "Peer" /\ A /\ UNCHANGED <<runs, framing, tables, central, processed>>

Next ==
  \/ InFraming(Framing!Next)
  \/ InTables(EventTables!Next)
  \/ InCentral(Central!Next)
  \/ InPeer(Peer!Next)

vars == <<runs, processed, lpc, framing, tables, central, db, values>>

\* The fairness of the module that runs.
Fairness ==
  /\ WF_vars(\/ InFraming(Framing!Listen)
             \/ InCentral(Central!SearchStep)
             \/ InPeer(Peer!PacketReceived))
  /\ WF_vars(InCentral(Central!DeleteStep) \/ InPeer(Peer!Command))
  /\ WF_vars(InCentral(Central!ListenStep) \/ InPeer(Peer!Reconnect))
  /\ WF_vars(InPeer(Peer!SetValue(t)))

Spec == Init /\ [][Next]_vars /\ Fairness

-----------------------------------------------------------------------------
(* Properties, each that of its module *)

\* Messages are processed whole, once and in their order, however the reads of
\* listen() cut the bytes, a table is taken for what its own header says it is,
\* and what was read is processed before the next read.
MessagesIntact ==
  runs = "Framing" =>
    Framing!OneByOne /\ Framing!TablesMatch /\ Framing!NothingWithheld

\* The loop of listen() over the buffer ends.
LoopEnds == (runs = "Framing" /\ lpc = "loop") ~> lpc = "read"

\* Every entry of an event table is raised once, with its own bytes, and what
\* the constructors of the packets read lies inside of what the loops cut.
EntriesIntact ==
  runs = "EventTables" => EventTables!EntriesIntact /\ EventTables!FieldsFit

\* A deletion ends.
DeletionEnds ==
  (runs = "Central" /\ delete.pc # "idle")
    ~> (runs = "Central" => delete.pc = "idle")

\* The peer shows in the end what the Miniserver has.
Converges == \A s \in {"value"} : <>[](runs = "Peer" => Peer!Shown(s))
=============================================================================
