------------------------------- MODULE Central -------------------------------
(***************************************************************************)
(* The central of LoxoneCentral.cpp: the registry of the peers, the map    *)
(* that routes state uuids to them, and their rows in the database.        *)
(*                                                                         *)
(* Three threads use it at the same time.  The listen thread hands over    *)
(* packets (onPacketReceived), one RPC thread searches for devices and     *)
(* another one, or the command line, deletes a peer.  _peersMutex covers   *)
(* single accesses to _peersById and _peersBySerial only; _uuidPeerIdMap   *)
(* has no lock.  One action is the work of a thread between two points at  *)
(* which another thread can come in between with an effect.                *)
(***************************************************************************)
EXTENDS Integers, FiniteSets

CONSTANTS
  Actions,      \* uuidAction: the controls a structure file can list
  Uuids,        \* the state uuids packets carry
  StateOf,      \* StateOf[a]: the state uuids of control a
  Described,    \* the controls whose type has a device description
  Rooms,        \* what a structure file says of a control, beside its uuids
  Absent,       \* what it says of a control it does not list
  Serials,      \* the serial numbers a peer can get
  MaxPeers,     \* bound: peers created
  MaxCrashes,   \* bound: crashes of the process
  MaxDeletes,   \* bound: calls of deletePeer
  QuickHolders  \* TRUE: no thread uses a peer for the 60 s deletePeer waits

ASSUME StatesAssumption ==
  /\ StateOf \in [Actions -> SUBSET Uuids]
  /\ \A a, b \in Actions : a # b => StateOf[a] \cap StateOf[b] = {}

ASSUME AbsentAssumption == Absent \notin Rooms \cup Actions \cup Serials

ASSUME BoundsAssumption ==
  /\ MaxPeers \in Nat /\ MaxCrashes \in Nat /\ MaxDeletes \in Nat
  /\ Described \subseteq Actions
  /\ QuickHolders \in BOOLEAN

Ids == 1 .. MaxPeers

\* No peer, no serial's owner, no uuid's owner.
NoId == 0

VARIABLES
  phase,     \* the process: "down", "loaded" or "up"
  created,   \* the last peer id the database has given out
  peer,      \* peer[id]: the LoxonePeer object
  byId,      \* the keys of _peersById
  bySerial,  \* _peersBySerial, as ids
  route,     \* _uuidPeerIdMap
  db,        \* the ids in the table of peers
  rows,      \* the ids with rows in the tables of variables and parameters
  search,    \* the thread in searchDevices
  delete,    \* the thread in deletePeer
  listen,    \* the thread in onPacketReceived
  heard,     \* history: peers heard of since the start
  removed,   \* history: peers unregistered since the search took its copy
  crashes,   \* bounded by MaxCrashes
  deletes,   \* bounded by MaxDeletes
  torn       \* history: a crash hit a deletion between registry and database

registry == <<peer, byId, bySerial, route>>
stored == <<created, db, rows>>
history == <<heard, removed>>
counts == <<crashes, deletes, torn>>
vars == <<phase, registry, stored, search, delete, listen, history, counts>>

NoPeer == [action |-> Absent, room |-> Absent, serial |-> Absent,
           unreach |-> FALSE]
Searching == [pc |-> "idle", file |-> [a \in Actions |-> Absent],
              todo |-> {}, known |-> {}, made |-> {}, new |-> NoId]
Deleting == [pc |-> "idle", id |-> NoId, rpc |-> FALSE]
Listening == [pc |-> "idle", uuid |-> Absent, id |-> NoId]

Init ==
  /\ phase = "up" /\ created = 0
  /\ peer = [id \in Ids |-> NoPeer]
  /\ byId = {} /\ bySerial = [s \in Serials |-> NoId]
  /\ route = [u \in Uuids |-> NoId]
  /\ db = {} /\ rows = {}
  /\ search = Searching /\ delete = Deleting /\ listen = Listening
  /\ heard = {} /\ removed = {}
  /\ crashes = 0 /\ deletes = 0 /\ torn = FALSE

-----------------------------------------------------------------------------
(* Helper formulae *)

States(id) == StateOf[peer[id].action]

(* Mutant of Emplaced: the map is only looked up. *)
EmplacedNot(map, id, states) == [u \in Uuids |-> map[u]]

\* emplace(): a uuid that has an owner keeps it.
Emplaced(map, id, states) ==
  [u \in Uuids |-> IF u \in states /\ map[u] = NoId THEN id ELSE map[u]]

\* The lowest and the highest of the ids: _peersById is an ordered map.
First(ids) == CHOOSE i \in ids : \A j \in ids : i <= j

Last(ids) == CHOOSE i \in ids : \A j \in ids : j <= i

\* Other threads that hold a shared_ptr to the peer.
HeldByOthers(id) ==
  \/ id \in search.known \cup search.made \cup {search.new}
  \/ listen.pc = "handle" /\ listen.id = id

-----------------------------------------------------------------------------
(* searchDevices *)

\* The interface is connected; otherwise the call returns an error.
SearchBegins ==
  /\ phase = "up" /\ search.pc = "idle"
  /\ search' = [search EXCEPT !.pc = "version"]
  /\ UNCHANGED <<phase, registry, stored, delete, listen, history, counts>>

\* Row 0 of the device's variables is never written (647), so no version
\* equals the cached one.
VersionArrives ==
  /\ search.pc = "version"
  /\ search' = [search EXCEPT !.pc = "file"]
  /\ UNCHANGED <<phase, registry, stored, delete, listen, history, counts>>

(* Mutant of Snapshot: only peers that are not marked are known. *)
SnapshotReachable == {id \in byId : ~ peer[id].unreach}

\* knownPeers
Snapshot == byId

\* The structure file is parsed and the peers of the moment are copied.
FileArrives ==
  /\ search.pc = "file"
  /\ \E file \in [Actions -> Rooms \cup {Absent}] :
       search' = [search EXCEPT
         !.pc = "controls", !.file = file, !.known = Snapshot,
         !.todo = {a \in Actions : file[a] # Absent}]
  /\ removed' = {}
  /\ UNCHANGED <<phase, registry, stored, delete, listen, heard, counts>>

Matching(a) == {id \in search.known : peer[id].action = a}

(* Mutant of Refreshed: the unreach mark stays. *)
RefreshedMarked(id, a) == [peer[id] EXCEPT !.room = search.file[a]]

\* updatePeer(control) and endUnreach() of a known peer.
Refreshed(id, a) ==
  [peer[id] EXCEPT !.room = search.file[a], !.unreach = FALSE]

KnownControl ==
  /\ search.pc = "controls"
  /\ \E a \in search.todo :
       /\ Matching(a) # {}
       /\ LET id == First(Matching(a)) IN
            /\ peer' = [peer EXCEPT ![id] = Refreshed(id, a)]
            /\ rows' = rows \cup {id}
            /\ heard' = heard \cup {id}
            /\ search' = [search EXCEPT !.todo = @ \ {a},
                                        !.known = @ \ {id}]
  /\ UNCHANGED <<phase, byId, bySerial, route, created, db, delete, listen,
                 removed, counts>>

\* createPeer() returns null before anything is saved.
UndescribedControl ==
  /\ search.pc = "controls"
  /\ \E a \in search.todo \ Described :
       /\ Matching(a) = {}
       /\ search' = [search EXCEPT !.todo = @ \ {a}]
  /\ UNCHANGED <<phase, registry, stored, delete, listen, history, counts>>

FreeSerials == {s \in Serials : bySerial[s] = NoId}

\* createPeer(): the peer is saved, which gives it its id, and its uuids are
\* routed to it; it is not registered yet.
CreatePeer ==
  /\ search.pc = "controls" /\ created < MaxPeers
  /\ \E a \in search.todo \cap Described, s \in FreeSerials :
       /\ Matching(a) = {}
       /\ LET id == created + 1 IN
            /\ created' = id
            /\ peer' = [peer EXCEPT ![id] =
                 [action |-> a, room |-> search.file[a], serial |-> s,
                  unreach |-> FALSE]]
            /\ db' = db \cup {id} /\ rows' = rows \cup {id}
            /\ route' = Emplaced(route, id, StateOf[a])
            /\ search' = [search EXCEPT !.pc = "register", !.new = id,
                                        !.todo = @ \ {a}]
  /\ UNCHANGED <<phase, byId, bySerial, delete, listen, history, counts>>

\* Under _peersMutex, with the uuids once more.
RegisterPeer ==
  /\ search.pc = "register"
  /\ LET id == search.new IN
       /\ byId' = byId \cup {id}
       /\ bySerial' = [bySerial EXCEPT ![peer[id].serial] = id]
       /\ route' = Emplaced(route, id, States(id))
       /\ heard' = heard \cup {id}
       /\ search' = [search EXCEPT !.pc = "controls", !.new = NoId,
                                   !.made = @ \cup {id}]
  /\ UNCHANGED <<phase, peer, stored, delete, listen, removed, counts>>

\* Peers the file does not list are marked; the call returns.
SearchEnds ==
  /\ search.pc = "controls" /\ search.todo = {}
  /\ peer' = [id \in Ids |->
       IF id \in search.known THEN [peer[id] EXCEPT !.unreach = TRUE]
                              ELSE peer[id]]
  /\ search' = Searching
  /\ UNCHANGED <<phase, byId, bySerial, route, stored, delete, listen,
                 history, counts>>

SearchStep ==
  \/ VersionArrives \/ FileArrives \/ KnownControl \/ UndescribedControl
  \/ CreatePeer \/ RegisterPeer \/ SearchEnds

-----------------------------------------------------------------------------
(* deletePeer, called by deleteDevice (rpc) or by the command line.        *)

DeleteBegins ==
  /\ phase = "up" /\ delete.pc = "idle" /\ deletes < MaxDeletes
  /\ \E id \in byId, rpc \in BOOLEAN :
       delete' = [pc |-> "routes", id |-> id, rpc |-> rpc]
  /\ deletes' = deletes + 1
  /\ UNCHANGED <<phase, registry, stored, search, listen, history, crashes,
                 torn>>

\* The loop increments an iterator it has just erased: whatever is read
\* from the freed node, the loop can end before it has seen every entry.
EraseRoutes ==
  /\ delete.pc = "routes"
  /\ LET owned == {u \in Uuids : route[u] = delete.id} IN
     \E gone \in SUBSET owned :
       /\ owned # {} => gone # {}
       /\ route' = [u \in Uuids |-> IF u \in gone THEN NoId ELSE route[u]]
  /\ delete' = [delete EXCEPT !.pc = "registry"]
  /\ UNCHANGED <<phase, peer, byId, bySerial, stored, search, listen,
                 history, counts>>

(* Mutant of Unregister: the serial number stays. *)
UnregisterById ==
  /\ delete.pc = "registry"
  /\ byId' = byId \ {delete.id}
  /\ bySerial' = bySerial
  /\ removed' = removed \cup {delete.id}
  /\ delete' = [delete EXCEPT !.pc = "wait"]
  /\ UNCHANGED <<phase, peer, route, stored, search, listen, heard, counts>>

Unregister ==
  /\ delete.pc = "registry"
  /\ byId' = byId \ {delete.id}
  /\ bySerial' = [bySerial EXCEPT ![peer[delete.id].serial] = NoId]
  /\ removed' = removed \cup {delete.id}
  /\ delete' = [delete EXCEPT !.pc = "wait"]
  /\ UNCHANGED <<phase, peer, route, stored, search, listen, heard, counts>>

\* deleteFromDatabase()
DeleteRows ==
  /\ db' = db \ {delete.id} /\ rows' = rows \ {delete.id}
  /\ delete' = Deleting
  /\ UNCHANGED <<phase, registry, created, search, listen, history, counts>>

(* Mutant of PeerReleased: nobody is waited for. *)
PeerNotAwaited == delete.pc = "wait" /\ DeleteRows

\* use_count() is 1: deleteDevice() holds a reference of its own.
PeerReleased ==
  /\ delete.pc = "wait"
  /\ ~ delete.rpc /\ ~ HeldByOthers(delete.id)
  /\ DeleteRows

(* Mutant of WaitGivesUp: the wait has no bound. *)
WaitGoesOn == FALSE /\ DeleteRows

\* 600 times 100 ms are over.
WaitGivesUp ==
  /\ delete.pc = "wait"
  /\ delete.rpc \/ HeldByOthers(delete.id)
  /\ QuickHolders => ~ HeldByOthers(delete.id)
  /\ DeleteRows

DeleteStep == EraseRoutes \/ Unregister \/ PeerReleased \/ WaitGivesUp

-----------------------------------------------------------------------------
(* onPacketReceived, and packetReceived of the peer. *)

\* find(): an unknown uuid is dropped at once.
PacketArrives ==
  /\ phase # "down" /\ listen.pc = "idle"
  /\ \E u \in Uuids :
       /\ route[u] # NoId
       /\ listen' = [pc |-> "at", uuid |-> u, id |-> NoId]
  /\ UNCHANGED <<phase, registry, stored, search, delete, history, counts>>

\* at(), which throws if the entry has been erased since.
ReadRoute ==
  /\ listen.pc = "at"
  /\ listen' = IF route[listen.uuid] = NoId THEN Listening
               ELSE [listen EXCEPT !.pc = "get", !.id = route[listen.uuid]]
  /\ UNCHANGED <<phase, registry, stored, search, delete, history, counts>>

GetPeer ==
  /\ listen.pc = "get"
  /\ listen' = IF listen.id \in byId THEN [listen EXCEPT !.pc = "handle"]
               ELSE Listening
  /\ UNCHANGED <<phase, registry, stored, search, delete, history, counts>>

\* processPacket() refuses a uuid its control does not have; else the mark
\* ends and the values are saved.
HandlePacket ==
  /\ listen.pc = "handle"
  /\ IF listen.uuid \in States(listen.id)
     THEN /\ peer' = [peer EXCEPT ![listen.id].unreach = FALSE]
          /\ rows' = rows \cup {listen.id}
          /\ heard' = heard \cup {listen.id}
     ELSE UNCHANGED <<peer, rows, heard>>
  /\ listen' = Listening
  /\ UNCHANGED <<phase, byId, bySerial, route, created, db, search, delete,
                 removed, counts>>

ListenStep == ReadRoute \/ GetPeer \/ HandlePacket

-----------------------------------------------------------------------------
(* The process ends, loads its peers and is told that Homegear has started *)

Volatile ==
  /\ byId' = {} /\ bySerial' = [s \in Serials |-> NoId]
  /\ route' = [u \in Uuids |-> NoId]
  /\ search' = Searching /\ delete' = Deleting /\ listen' = Listening
  /\ heard' = {} /\ removed' = {}

\* Also what a null answer to getLoxApp3Version() or getNewStructfile()
\* does, which is dereferenced.
Crash ==
  /\ phase # "down" /\ crashes < MaxCrashes
  /\ phase' = "down" /\ crashes' = crashes + 1
  /\ torn' = (torn \/ delete.pc = "wait")
  /\ Volatile
  /\ UNCHANGED <<peer, stored, deletes>>

(* Mutant of Mapped: a peer's uuids are not routed to it. *)
MappedNot(ids) == [u \in Uuids |-> NoId]

\* The uuids of the loaded peers; with emplace() the first peer wins.
Mapped(ids) ==
  [u \in Uuids |->
     LET owners == {id \in ids : u \in States(id)} IN
     IF owners = {} THEN NoId ELSE First(owners)]

\* The serial numbers of the loaded peers; the last peer wins.
Indexed(ids) ==
  [s \in Serials |->
     LET owners == {id \in ids : peer[id].serial = s} IN
     IF owners = {} THEN NoId ELSE Last(owners)]

\* Any mark may have been saved (ServiceMessages::load).
LoadPeers ==
  /\ phase = "down"
  /\ phase' = "loaded"
  /\ byId' = db
  /\ bySerial' = Indexed(db)
  /\ route' = Mapped(db)
  /\ \E marks \in SUBSET db :
       peer' = [id \in Ids |->
                  IF id \in db THEN [peer[id] EXCEPT !.unreach = id \in marks]
                               ELSE peer[id]]
  /\ UNCHANGED <<stored, search, delete, listen, history, counts>>

(* Mutant of HomegearStarted: the marks stay as they were saved. *)
HomegearStartedQuietly ==
  /\ phase = "loaded" /\ phase' = "up"
  /\ heard' = {}
  /\ UNCHANGED <<registry, stored, search, delete, listen, removed, counts>>

HomegearStarted ==
  /\ phase = "loaded" /\ phase' = "up"
  /\ peer' = [id \in Ids |->
       IF id \in byId THEN [peer[id] EXCEPT !.unreach = TRUE] ELSE peer[id]]
  /\ heard' = {}
  /\ UNCHANGED <<byId, bySerial, route, stored, search, delete, listen,
                 removed, counts>>

-----------------------------------------------------------------------------
Next ==
  \/ SearchBegins \/ SearchStep
  \/ DeleteBegins \/ DeleteStep
  \/ PacketArrives \/ ListenStep
  \/ Crash \/ LoadPeers \/ HomegearStarted

\* Threads that are in a call go on; an exchange with the Miniserver ends.
Fairness == WF_vars(SearchStep) /\ WF_vars(DeleteStep) /\ WF_vars(ListenStep)

Spec == Init /\ [][Next]_vars
FairSpec == Spec /\ Fairness

-----------------------------------------------------------------------------
(* Properties *)

Peers ==
  [action : Actions \cup {Absent}, room : Rooms \cup {Absent},
   serial : Serials \cup {Absent}, unreach : BOOLEAN]

Searches ==
  [pc : {"idle", "version", "file", "controls", "register"},
   file : [Actions -> Rooms \cup {Absent}], todo : SUBSET Actions,
   known : SUBSET Ids, made : SUBSET Ids, new : Ids \cup {NoId}]

Deletions ==
  [pc : {"idle", "routes", "registry", "wait"}, id : Ids \cup {NoId},
   rpc : BOOLEAN]

Packets ==
  [pc : {"idle", "at", "get", "handle"}, uuid : Uuids \cup {Absent},
   id : Ids \cup {NoId}]

\* Every variable keeps its type, and no id is registered, stored or routed
\* to before it is given out.
TypeOK ==
  /\ phase \in {"down", "loaded", "up"} /\ created \in 0 .. MaxPeers
  /\ peer \in [Ids -> Peers]
  /\ byId \subseteq 1 .. created /\ removed \subseteq 1 .. created
  /\ db \subseteq 1 .. created /\ rows \subseteq 1 .. created
  /\ bySerial \in [Serials -> 0 .. created]
  /\ route \in [Uuids -> 0 .. created]
  /\ search \in Searches /\ delete \in Deletions /\ listen \in Packets
  /\ heard \subseteq Ids
  /\ crashes \in 0 .. MaxCrashes /\ deletes \in 0 .. MaxDeletes
  /\ torn \in BOOLEAN

\* _peersById and _peersBySerial hold the same peers: the serial number a
\* search picks without the lock is still free when the peer is registered,
\* and a deleted peer leaves both, whenever the process crashes; unless the
\* crash brings back a peer that deletePeer had already unregistered.
IndexesAgree ==
  ~torn =>
    /\ \A id \in byId : bySerial[peer[id].serial] = id
    /\ \A s \in Serials : bySerial[s] # NoId => bySerial[s] \in byId

\* A control of the Miniserver is never represented by two registered peers,
\* whatever searches, deletions and crashes interleave, unless a crash brings
\* back a peer that deletePeer had already unregistered.
OnePeerPerControl ==
  ~torn => \A i, j \in byId : peer[i].action = peer[j].action => i = j

\* As long as no peer is deleted a packet for a state of a registered peer
\* is routed to this peer, also after a crash at any step of a search.
\* With deletions a state uuid of a registered peer can be lost to a peer
\* that is gone (the erasing loop of deletePeer ends early and emplace()
\* keeps the old owner), but unless the peer itself is being deleted it is
\* never unknown and never taken by another registered peer.
PacketsRouted ==
  ~torn =>
    \A id \in byId \ {delete.id} : \A u \in States(id) :
      \/ route[u] = id
      \/ route[u] \notin byId \cup {NoId} /\ deletes # 0

\* A peer that is not marked unreachable has been heard of since Homegear
\* started: by a packet for one of its own states, or in a structure file.
HeardSinceStart ==
  phase = "up" => \A id \in byId : peer[id].unreach \/ id \in heard

\* No thread that still uses a peer while it is deleted (a search, a packet)
\* leaves rows behind for a peer that is no longer in the database, if none
\* uses it for longer than deletePeer waits.
NoOrphanRows == QuickHolders => rows \subseteq db

\* A search that ends has marked exactly the registered peers whose control
\* the file does not list, and every control with a description has a peer,
\* unless this was deleted meanwhile; packets and deletions go on during the
\* search.
Settles ==
  SearchEnds /\ ~torn =>
    /\ \A id \in byId :
         peer'[id].unreach <=> search.file[peer[id].action] = Absent
    /\ \A a \in Described :
         search.file[a] # Absent =>
           \E id \in byId \cup removed : peer[id].action = a
SearchesSettle == [][Settles]_vars

\* A deletion ends, although deleteDevice() itself holds a reference to the
\* peer it waits for.
DeletionEnds == delete.pc # "idle" ~> delete.pc = "idle"
=============================================================================
