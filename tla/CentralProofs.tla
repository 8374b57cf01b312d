---------------------------- MODULE CentralProofs ----------------------------
(***************************************************************************)
(* Proofs about Central: its inductive invariant, in layers, each of them  *)
(* inductive relative to the ones before it; the safety properties of the  *)
(* registry and of a search follow from them.                              *)
(***************************************************************************)
EXTENDS Central, WellFoundedInduction, TLAPS

-----------------------------------------------------------------------------
(* The inductive invariant *)

\* The peer createPeer() has saved and not registered yet.
Unregistered == {search.new} \ {NoId}

\* The peer deletePeer has unregistered and not deleted yet.
Leaving == IF delete.pc = "wait" THEN {delete.id} ELSE {}

\* Between the structure file and the end of the search.
InSearch == search.pc \in {"controls", "register"}

(* Layer 1, control: what the threads are about, and when there are none. *)

\* A process that is down has nothing in memory, one that loads its peers
\* neither searches nor deletes.
PhaseInv ==
  /\ phase = "down" => byId = {} /\ listen = Listening
                       /\ bySerial = [s \in Serials |-> NoId]
                       /\ route = [u \in Uuids |-> NoId]
  /\ phase # "up" => search = Searching /\ delete = Deleting

\* A peer that exists has the control and the serial number it was made with.
PeerInv ==
  \A id \in 1 .. created : peer[id].action \in Actions /\ peer[id].serial \in Serials

\* A search knows registered peers, or such that were deleted meanwhile, and
\* has one unregistered peer at most.
SearchInv ==
  /\ search.new \in 0 .. created
  /\ search.pc = "register" <=> search.new # NoId
  /\ ~InSearch => search.known = {} /\ search.made = {} /\ search.todo = {}
  /\ search.new \notin byId \cup search.known
  /\ search.known \subseteq byId \cup removed
  /\ \A a \in search.todo : search.file[a] # Absent

DeleteInv ==
  /\ delete.id \in 0 .. created
  /\ delete.pc = "idle" <=> delete.id = NoId
  /\ delete.pc \in {"routes", "registry"} => delete.id \in byId
  /\ delete.pc = "wait" => delete.id \notin byId
  /\ delete.id # NoId => delete.id # search.new /\ deletes # 0

ListenInv ==
  /\ listen.pc \in {"get", "handle"} => listen.id \in 1 .. created
  /\ listen.pc # "idle" => listen.uuid \in Uuids

ControlInv ==
  TypeOK /\ PhaseInv /\ PeerInv /\ SearchInv /\ DeleteInv /\ ListenInv

(* Layer 2, indexes: a serial number has one live peer, the table of peers
   holds what is live, and a control has one live peer. *)

Live == byId \cup Unregistered

SerialInv ==
  /\ \A s \in Serials : bySerial[s] # NoId => peer[bySerial[s]].serial = s
  /\ \A id \in Unregistered : bySerial[peer[id].serial] = NoId

\* The next process loads peers of different controls and serial numbers.
StoredInv ==
  ~torn =>
    /\ phase # "down" => db \ Leaving = Live
    /\ \A i, j \in db \ Leaving :
         peer[i].action = peer[j].action \/ peer[i].serial = peer[j].serial => i = j

\* What the search has handled is no longer to do, so that it creates no
\* peer for a control that has one.
HandledInv ==
  InSearch =>
    \A id \in (byId \ search.known) \cup Unregistered :
      /\ peer[id].action \notin search.todo
      /\ search.file[peer[id].action] # Absent
      /\ ~peer[id].unreach

IndexInv == SerialInv /\ IndexesAgree /\ StoredInv /\ HandledInv

(* Layer 3, settling: every known peer has a control of its own, which is
   still to do or not in the file; every control has a peer or is to do. *)

KnownInv ==
  ~torn =>
    /\ \A i, j \in search.known : peer[i].action = peer[j].action => i = j
    /\ InSearch => \A id \in search.known \cap byId :
         peer[id].action \in search.todo \/ search.file[peer[id].action] = Absent

ServedInv ==
  InSearch =>
    \A a \in Described \ search.todo : search.file[a] # Absent =>
      \E id \in Live \cup removed : peer[id].action = a

SettleInv == KnownInv /\ ServedInv

(* Layer 4, routes: a uuid is routed to a peer that has it; as long as none
   is deleted, to a live one. *)

OwnerInv ==
  /\ \A u \in Uuids : route[u] # NoId => u \in States(route[u])
  /\ ~torn /\ deletes = 0 => \A u \in Uuids : route[u] \in Live \cup {NoId}

RouteInv == OwnerInv /\ PacketsRouted

(* Layer 5, rows: who may still write rows of a peer has one in the table. *)

RowsInv ==
  /\ byId \cup Unregistered \subseteq db
  /\ QuickHolders =>
       /\ search.known \cup search.made \subseteq db
       /\ listen.pc = "handle" => listen.id \in db
       /\ rows \subseteq db

IInv ==
  /\ ControlInv /\ IndexInv /\ SettleInv /\ RouteInv /\ RowsInv
  /\ HeardSinceStart

USE BoundsAssumption DEF Ids, NoId

-----------------------------------------------------------------------------
(* The operators *)

(* First chooses one of the ids, if there are any. *)
LEMMA FirstIn ==
  ASSUME NEW ids, ids \subseteq Nat, ids # {}
  PROVE  First(ids) \in ids /\ \A j \in ids : First(ids) <= j
<1>1. PICK i \in ids : \A j \in ids : ~ (<<j, i>> \in OpToRel(<, Nat))
  BY WFMin, NatLessThanWellFounded
<1>2. \A j \in ids : ~ (j < i)
  BY <1>1, Zenon DEF OpToRel
<1>3. \A j \in ids : i <= j
  BY <1>2
<1>4. QED
  BY <1>3, Zenon DEF First

(* A set of ids has a highest one: the peer whose serial number is kept when
   the peers are loaded. *)
LEMMA LastIn ==
  ASSUME NEW n \in Nat, NEW ids, ids \subseteq 1 .. n, ids # {}
  PROVE  Last(ids) \in ids
<1> DEFINE mirrored == {n - i : i \in ids}
<1>1. mirrored \subseteq Nat /\ mirrored # {}
  <2>1. \A i \in ids : n - i \in Nat
    OBVIOUS
  <2>2. PICK i \in ids : TRUE
    OBVIOUS
  <2>3. n - i \in mirrored
    OBVIOUS
  <2>4. QED
    BY <2>1, <2>3
<1>2. PICK m \in mirrored : \A k \in mirrored : m <= k
  <2> HIDE DEF mirrored
  <2> QED
    BY <1>1, FirstIn
<1>3. PICK i \in ids : m = n - i
  OBVIOUS
<1>4. \A j \in ids : j <= i
  <2>1. ASSUME NEW j \in ids PROVE j <= i
    <3>1. n - j \in mirrored
      OBVIOUS
    <3>2. m <= n - j
      BY <1>2, <3>1
    <3>3. QED
      BY <1>3, <3>2
  <2>2. QED
    BY <2>1
<1>5. QED
  BY <1>4, Zenon DEF Last

(* emplace() gives a uuid without an owner to the peer and changes no other. *)
LEMMA EmplacedType ==
  ASSUME NEW S, NEW map \in [Uuids -> S], NEW id \in S, NEW states
  PROVE  /\ Emplaced(map, id, states) \in [Uuids -> S]
         /\ \A u \in Uuids : Emplaced(map, id, states)[u] =
              IF u \in states /\ map[u] = NoId THEN id ELSE map[u]
  BY DEF Emplaced

(* A loaded uuid is routed to a loaded peer that has it. *)
LEMMA MappedOwner ==
  ASSUME NEW n \in Nat, NEW ids, ids \subseteq 1 .. n
  PROVE  /\ Mapped(ids) \in [Uuids -> 0 .. n]
         /\ \A u \in Uuids :
              \/ Mapped(ids)[u] = NoId /\ \A id \in ids : u \notin States(id)
              \/ Mapped(ids)[u] \in ids /\ u \in States(Mapped(ids)[u])
<1> DEFINE Owners(u) == {id \in ids : u \in States(id)}
           Route(u) == IF Owners(u) = {} THEN NoId ELSE First(Owners(u))
<1>1. Mapped(ids) = [u \in Uuids |-> Route(u)]
  BY Zenon DEF Mapped
<1>2. ASSUME NEW u \in Uuids
      PROVE  \/ Route(u) = NoId /\ \A id \in ids : u \notin States(id)
             \/ Route(u) \in ids /\ u \in States(Route(u))
  <2>1. ids \subseteq Nat
    OBVIOUS
  <2>2. Owners(u) \subseteq Nat
    BY <2>1, Zenon
  <2>3. Owners(u) # {} => First(Owners(u)) \in Owners(u)
    <3> HIDE DEF Owners
    <3> QED
      BY <2>2, FirstIn
  <2>4. QED
    BY <2>3
<1>3. ASSUME NEW u \in Uuids PROVE Route(u) \in 0 .. n
  <2>1. Route(u) = NoId \/ Route(u) \in ids
    BY <1>2, Zenon
  <2>2. NoId \in 0 .. n /\ ids \subseteq 0 .. n
    OBVIOUS
  <2>3. QED
    BY <2>1, <2>2, Zenon
<1>4. QED
  <2> HIDE DEF Route
  <2> QED
    BY <1>1, <1>2, <1>3

(* A loaded serial number is that of a loaded peer. *)
LEMMA IndexedOwner ==
  ASSUME NEW n \in Nat, NEW ids, ids \subseteq 1 .. n
  PROVE  /\ Indexed(ids) \in [Serials -> 0 .. n]
         /\ \A s \in Serials :
              \/ Indexed(ids)[s] = NoId /\ \A id \in ids : peer[id].serial # s
              \/ Indexed(ids)[s] \in ids /\ peer[Indexed(ids)[s]].serial = s
<1> DEFINE Owners(s) == {id \in ids : peer[id].serial = s}
           Owner(s) == IF Owners(s) = {} THEN NoId ELSE Last(Owners(s))
<1>1. Indexed(ids) = [s \in Serials |-> Owner(s)]
  BY Zenon DEF Indexed
<1>2. ASSUME NEW s \in Serials
      PROVE  \/ Owner(s) = NoId /\ \A id \in ids : peer[id].serial # s
             \/ Owner(s) \in ids /\ peer[Owner(s)].serial = s
  <2>1. Owners(s) \subseteq 1 .. n
    BY Zenon
  <2>2. Owners(s) # {} => Last(Owners(s)) \in Owners(s)
    <3> HIDE DEF Owners
    <3> QED
      BY <2>1, LastIn
  <2>3. QED
    BY <2>2
<1>3. ASSUME NEW s \in Serials PROVE Owner(s) \in 0 .. n
  <2>1. Owner(s) = NoId \/ Owner(s) \in ids
    BY <1>2, Zenon
  <2>2. NoId \in 0 .. n /\ ids \subseteq 0 .. n
    OBVIOUS
  <2>3. QED
    BY <2>1, <2>2, Zenon
<1>4. QED
  <2> HIDE DEF Owner
  <2> QED
    BY <1>1, <1>2, <1>3

-----------------------------------------------------------------------------
(* Layer 1 *)

(* A known control is refreshed in one of the peers the search knows. *)
LEMMA KnownControlEffect ==
  ASSUME ControlInv, KnownControl
  PROVE  \E a \in search.todo, id \in search.known :
           /\ id \in 1 .. created /\ peer[id].action = a
           /\ search.pc = "controls"
           /\ peer' = [peer EXCEPT ![id] = Refreshed(id, a)]
           /\ rows' = rows \cup {id} /\ heard' = heard \cup {id}
           /\ search' = [search EXCEPT !.todo = @ \ {a}, !.known = @ \ {id}]
<1>1. PICK a \in search.todo :
        /\ Matching(a) # {}
        /\ peer' = [peer EXCEPT ![First(Matching(a))] = Refreshed(First(Matching(a)), a)]
        /\ rows' = rows \cup {First(Matching(a))}
        /\ heard' = heard \cup {First(Matching(a))}
        /\ search' = [search EXCEPT !.todo = @ \ {a},
                                    !.known = @ \ {First(Matching(a))}]
  BY DEF KnownControl
<1>2. search.known \subseteq 1 .. created /\ created \in Nat
  <2>1. search.known \subseteq byId \cup removed
    BY DEF ControlInv, SearchInv
  <2>2. byId \subseteq 1 .. created /\ removed \subseteq 1 .. created
    BY DEF ControlInv, TypeOK
  <2>3. created \in Nat
    BY DEF ControlInv, TypeOK
  <2>4. QED
    BY <2>1, <2>2, <2>3
<1>3. Matching(a) \subseteq Nat
  BY <1>2 DEF Matching
<1>4. First(Matching(a)) \in Matching(a)
  BY <1>1, <1>3, FirstIn
<1>5. search.pc = "controls"
  BY DEF KnownControl
<1>6. QED
  BY <1>1, <1>2, <1>4, <1>5 DEF Matching

(* Every step of the three threads, a crash and a start keep the types. *)
LEMMA TypeStep == ControlInv /\ [Next]_vars => TypeOK'
<1> SUFFICES ASSUME ControlInv, [Next]_vars PROVE TypeOK'
  OBVIOUS
<1>0. TypeOK /\ PhaseInv /\ PeerInv /\ SearchInv /\ DeleteInv /\ ListenInv
  BY DEF ControlInv
<1>a. 1 .. created \subseteq Ids
  BY <1>0 DEF TypeOK
<1> USE <1>0, <1>a DEF TypeOK, registry, stored, history, counts
<1>1. CASE SearchBegins
  <2>1. search' \in Searches
    BY <1>1 DEF SearchBegins, Searches, Searching
  <2>2. QED
    BY <1>1, <2>1 DEF SearchBegins
<1>2. CASE VersionArrives
  <2>1. search' \in Searches
    BY <1>2 DEF VersionArrives, Searches, Searching
  <2>2. QED
    BY <1>2, <2>1 DEF VersionArrives
<1>3. CASE FileArrives
  <2>1. search' \in Searches
    <3>1. PICK file \in [Actions -> Rooms \cup {Absent}] :
            search' = [search EXCEPT
              !.pc = "controls", !.file = file, !.known = byId,
              !.todo = {a \in Actions : file[a] # Absent}]
      BY <1>3 DEF FileArrives, Snapshot
    <3>2. byId \in SUBSET Ids
      OBVIOUS
    <3>3. QED
      BY <3>1, <3>2 DEF Searches
  <2>2. QED
    BY <1>3, <2>1 DEF FileArrives
<1>4. CASE KnownControl
  <2>0. PICK a \in search.todo, id \in search.known :
           /\ id \in 1 .. created
           /\ peer' = [peer EXCEPT ![id] = Refreshed(id, a)]
           /\ rows' = rows \cup {id} /\ heard' = heard \cup {id}
           /\ search' = [search EXCEPT !.todo = @ \ {a}, !.known = @ \ {id}]
    BY <1>4, KnownControlEffect
  <2>1. search' \in Searches
    BY <2>0 DEF Searches
  <2>2. Refreshed(id, a) \in Peers
    <3>1. peer[id] \in Peers /\ search.file[a] \in Rooms \cup {Absent}
      BY <2>0 DEF Searches
    <3>2. QED
      BY <3>1 DEF Peers, Refreshed
  <2>3. peer' \in [Ids -> Peers] /\ rows' \subseteq 1 .. created /\ heard' \subseteq Ids
    BY <2>0, <2>2
  <2>4. QED
    BY <1>4, <2>1, <2>3 DEF KnownControl
<1>5. CASE UndescribedControl
  <2>1. search' \in Searches
    <3>1. PICK a \in search.todo : search' = [search EXCEPT !.todo = @ \ {a}]
      BY <1>5 DEF UndescribedControl
    <3>2. QED
      BY <3>1 DEF Searches
  <2>2. QED
    BY <1>5, <2>1 DEF UndescribedControl
<1>6. CASE CreatePeer
  <2>1. search' \in Searches
    <3>1. created + 1 \in Ids
      BY <1>6 DEF CreatePeer
    <3>2. PICK a \in search.todo :
            search' = [search EXCEPT !.pc = "register", !.new = created + 1,
                                     !.todo = @ \ {a}]
      BY <1>6 DEF CreatePeer
    <3>3. QED
      BY <3>1, <3>2 DEF Searches
  <2>2. created + 1 \in Ids /\ created' = created + 1
    BY <1>6 DEF CreatePeer
  <2>3. peer' \in [Ids -> Peers]
    BY <1>6, <2>2 DEF CreatePeer, FreeSerials, Peers, Searches
  <2>4. route' \in [Uuids -> 0 .. created']
    <3>1. route \in [Uuids -> 0 .. created'] /\ created' \in 0 .. created'
      BY <2>2
    <3>2. PICK a \in Actions : route' = Emplaced(route, created', StateOf[a])
      BY <1>6 DEF CreatePeer, Searches
    <3>3. QED
      BY <3>1, <3>2, EmplacedType
  <2>5. QED
    BY <1>6, <2>1, <2>2, <2>3, <2>4 DEF CreatePeer
<1>7. CASE RegisterPeer
  <2>1. search' \in Searches
    <3>1. search' = [search EXCEPT !.pc = "controls", !.new = NoId,
                                   !.made = @ \cup {search.new}]
      BY <1>7 DEF RegisterPeer
    <3>2. search.new \in Ids
      BY <1>7 DEF RegisterPeer, SearchInv, Searches
    <3>3. QED
      BY <3>1, <3>2 DEF Searches
  <2>2. search.new \in 1 .. created
    BY <1>7 DEF RegisterPeer, SearchInv
  <2>3. bySerial' \in [Serials -> 0 .. created]
    BY <1>7, <2>2 DEF RegisterPeer, PeerInv
  <2>4. route' \in [Uuids -> 0 .. created]
    <3>1. route' = Emplaced(route, search.new, States(search.new))
      BY <1>7 DEF RegisterPeer
    <3>2. search.new \in 0 .. created
      BY <2>2
    <3>3. QED
      BY <3>1, <3>2, EmplacedType
  <2>5. QED
    BY <1>7, <2>1, <2>2, <2>3, <2>4 DEF RegisterPeer
<1>8. CASE SearchEnds
  <2>1. search' \in Searches
    BY <1>8 DEF SearchEnds, Searches, Searching
  <2>2. peer' \in [Ids -> Peers]
    BY <1>8 DEF SearchEnds, Peers
  <2>3. QED
    BY <1>8, <2>1, <2>2 DEF SearchEnds
<1>9. CASE DeleteBegins
  <2>1. delete' \in Deletions
    BY <1>9 DEF DeleteBegins, Deletions
  <2>2. QED
    BY <1>9, <2>1 DEF DeleteBegins
<1>10. CASE EraseRoutes
  <2>1. delete' \in Deletions
    BY <1>10 DEF EraseRoutes, Deletions
  <2>2. QED
    <3>1. route' \in [Uuids -> 0 .. created]
      BY <1>10 DEF EraseRoutes
    <3>2. QED
      BY <1>10, <2>1, <3>1 DEF EraseRoutes
<1>11. CASE Unregister
  <2>1. delete' \in Deletions
    BY <1>11 DEF Unregister, Deletions
  <2>2. QED
    <3>1. delete.id \in 1 .. created
      BY <1>11 DEF Unregister, DeleteInv
    <3>2. bySerial' \in [Serials -> 0 .. created]
      <4>1. bySerial' = [bySerial EXCEPT ![peer[delete.id].serial] = NoId]
        BY <1>11 DEF Unregister
      <4>2. NoId \in 0 .. created
        OBVIOUS
      <4>3. QED
        BY <4>1, <4>2
    <3>3. QED
      BY <1>11, <2>1, <3>1, <3>2 DEF Unregister
<1>12. CASE PeerReleased
  <2>1. delete' \in Deletions
    BY <1>12 DEF PeerReleased, DeleteRows, Deleting, Deletions
  <2>2. QED
    BY <1>12, <2>1 DEF PeerReleased, DeleteRows, Deleting
<1>13. CASE WaitGivesUp
  <2>1. delete' \in Deletions
    BY <1>13 DEF WaitGivesUp, DeleteRows, Deleting, Deletions
  <2>2. QED
    BY <1>13, <2>1 DEF WaitGivesUp, DeleteRows, Deleting
<1>14. CASE PacketArrives
  <2>1. listen' \in Packets
    BY <1>14 DEF PacketArrives, Packets, Listening
  <2>2. QED
    BY <1>14, <2>1 DEF PacketArrives
<1>15. CASE ReadRoute
  <2>1. listen' \in Packets
    <3>1. CASE route[listen.uuid] = NoId
      BY <1>15, <3>1 DEF ReadRoute, Packets, Listening
    <3>2. CASE route[listen.uuid] # NoId
      <4>1. route[listen.uuid] \in Ids
        BY <1>15, <3>2 DEF ReadRoute, ListenInv
      <4>2. listen' = [listen EXCEPT !.pc = "get", !.id = route[listen.uuid]]
        BY <1>15, <3>2 DEF ReadRoute
      <4>3. QED
        BY <4>1, <4>2 DEF Packets
    <3>3. QED
      BY <3>1, <3>2
  <2>2. QED
    BY <1>15, <2>1 DEF ReadRoute
<1>16. CASE GetPeer
  <2>1. listen' \in Packets
    BY <1>16 DEF GetPeer, Packets, Listening
  <2>2. QED
    BY <1>16, <2>1 DEF GetPeer
<1>17. CASE HandlePacket
  <2>1. listen' \in Packets
    BY <1>17 DEF HandlePacket, Packets, Listening
  <2>2. QED
    <3>1. CASE listen.uuid \notin States(listen.id)
      BY <1>17, <2>1, <3>1 DEF HandlePacket
    <3>2. CASE listen.uuid \in States(listen.id)
      <4>1. listen.id \in 1 .. created
        BY <1>17 DEF HandlePacket, ListenInv
      <4>2. peer' = [peer EXCEPT ![listen.id].unreach = FALSE]
        BY <1>17, <3>2 DEF HandlePacket
      <4>3. peer' \in [Ids -> Peers]
        BY <4>1, <4>2 DEF Peers
      <4>4. QED
        BY <1>17, <2>1, <3>2, <4>1, <4>3 DEF HandlePacket
    <3>3. QED
      BY <3>1, <3>2
<1>18. CASE Crash
  <2>1. search' \in Searches /\ delete' \in Deletions /\ listen' \in Packets
    BY <1>18 DEF Crash, Volatile, Searches, Deletions, Packets, Searching,
       Deleting, Listening
  <2>2. QED
    BY <1>18, <2>1 DEF Crash, Volatile
<1>19. CASE LoadPeers
  <2>1. bySerial' \in [Serials -> 0 .. created] /\ route' \in [Uuids -> 0 .. created]
    BY <1>19, MappedOwner, IndexedOwner DEF LoadPeers
  <2>2. PICK marks \in SUBSET db :
          peer' = [id \in Ids |->
                     IF id \in db THEN [peer[id] EXCEPT !.unreach = id \in marks]
                                  ELSE peer[id]]
    BY <1>19 DEF LoadPeers
  <2>3. peer' \in [Ids -> Peers]
    <3>1. ASSUME NEW id \in Ids PROVE peer'[id] \in Peers
      <4>1. peer[id] \in Peers
        OBVIOUS
      <4>2. peer'[id] = peer[id] \/ peer'[id] = [peer[id] EXCEPT !.unreach = id \in marks]
        BY <2>2
      <4>3. (id \in marks) \in BOOLEAN
        OBVIOUS
      <4>4. QED
        BY <4>1, <4>2, <4>3 DEF Peers
    <3>2. QED
      BY <2>2, <3>1
  <2>4. QED
    BY <1>19, <2>1, <2>3 DEF LoadPeers
<1>20. CASE HomegearStarted
  BY <1>20 DEF HomegearStarted, Peers
<1>21. CASE UNCHANGED vars
  BY <1>21 DEF vars
<1>22. QED
  BY <1>1, <1>2, <1>3, <1>4, <1>5, <1>6, <1>7, <1>8, <1>9, <1>10, <1>11, <1>12,
     <1>13, <1>14, <1>15, <1>16, <1>17, <1>18, <1>19, <1>20, <1>21
  DEF Next, SearchStep, DeleteStep, ListenStep
(* A peer keeps its control and its serial number; ids are given out once. *)
LEMMA PeersKept ==
  ASSUME ControlInv, [Next]_vars
  PROVE  /\ created' \in Nat /\ created <= created'
         /\ \A id \in 1 .. created : /\ peer'[id].action = peer[id].action
                                     /\ peer'[id].serial = peer[id].serial
<1>0. TypeOK /\ ListenInv
  BY DEF ControlInv
<1>a. 1 .. created \subseteq Ids /\ created \in Nat
  BY <1>0 DEF TypeOK
<1>b. peer \in [Ids -> Peers]
  BY <1>0 DEF TypeOK
<1> USE <1>a, <1>b DEF registry, stored, history, counts
<1>1. CASE SearchBegins
  BY <1>1 DEF SearchBegins, Peers
<1>2. CASE VersionArrives
  BY <1>2 DEF VersionArrives, Peers
<1>3. CASE FileArrives
  BY <1>3 DEF FileArrives, Peers
<1>4. CASE KnownControl
  <2>1. PICK a \in search.todo, id \in search.known :
           id \in 1 .. created /\ peer' = [peer EXCEPT ![id] = Refreshed(id, a)]
    BY <1>4, KnownControlEffect
  <2>2. /\ Refreshed(id, a).action = peer[id].action
        /\ Refreshed(id, a).serial = peer[id].serial
    BY <2>1 DEF Refreshed, Peers
  <2>3. QED
    BY <1>4, <2>1, <2>2 DEF KnownControl
<1>5. CASE UndescribedControl
  BY <1>5 DEF UndescribedControl, Peers
<1>6. CASE CreatePeer
  BY <1>6 DEF CreatePeer, Peers
<1>7. CASE RegisterPeer
  BY <1>7 DEF RegisterPeer, Peers
<1>8. CASE SearchEnds
  BY <1>8 DEF SearchEnds, Searching, Peers
<1>9. CASE DeleteBegins
  BY <1>9 DEF DeleteBegins, Peers
<1>10. CASE EraseRoutes
  BY <1>10 DEF EraseRoutes, Peers
<1>11. CASE Unregister
  BY <1>11 DEF Unregister, Peers
<1>12. CASE PeerReleased
  BY <1>12 DEF PeerReleased, DeleteRows, Deleting, Peers
<1>13. CASE WaitGivesUp
  BY <1>13 DEF WaitGivesUp, DeleteRows, Deleting, Peers
<1>14. CASE PacketArrives
  BY <1>14 DEF PacketArrives, Peers
<1>15. CASE ReadRoute
  BY <1>15 DEF ReadRoute, Listening, Peers
<1>16. CASE GetPeer
  BY <1>16 DEF GetPeer, Listening, Peers
<1>17. CASE HandlePacket
  BY <1>17 DEF HandlePacket, Listening, Peers
<1>18. CASE Crash
  BY <1>18 DEF Crash, Volatile, Searching, Deleting, Listening, Peers
<1>19. CASE LoadPeers
  BY <1>19 DEF LoadPeers, Peers
<1>20. CASE HomegearStarted
  BY <1>20 DEF HomegearStarted, Peers
<1>21. CASE UNCHANGED vars
  BY <1>21 DEF vars
<1>22. QED
  BY <1>1, <1>2, <1>3, <1>4, <1>5, <1>6, <1>7, <1>8, <1>9, <1>10, <1>11,
     <1>12, <1>13, <1>14, <1>15, <1>16, <1>17, <1>18, <1>19, <1>20, <1>21
  DEF Next, SearchStep, DeleteStep, ListenStep
(* Peers that exist have a control and a serial number. *)
LEMMA PeerStep == ControlInv /\ [Next]_vars => PeerInv'
<1> SUFFICES ASSUME ControlInv, [Next]_vars PROVE PeerInv'
  OBVIOUS
<1>1. TypeOK /\ PeerInv
  BY DEF ControlInv
<1>2. ASSUME NEW id \in 1 .. created
      PROVE  peer'[id].action \in Actions /\ peer'[id].serial \in Serials
  BY <1>1, PeersKept DEF PeerInv
<1>3. CASE created' = created
  BY <1>2, <1>3 DEF PeerInv
<1>4. CASE CreatePeer
  <2>1. created + 1 \in Ids /\ created' = created + 1 /\ created \in Nat
    BY <1>1, <1>4 DEF CreatePeer, TypeOK
  <2>2. peer'[created + 1].action \in Actions /\ peer'[created + 1].serial \in Serials
    BY <1>1, <1>4, <2>1 DEF CreatePeer, TypeOK, Searches, FreeSerials
  <2>3. QED
    BY <1>2, <2>1, <2>2 DEF PeerInv
<1>5. created' = created \/ CreatePeer
  BY DEF Next, SearchStep, DeleteStep, ListenStep, SearchBegins, VersionArrives,
     FileArrives, KnownControl, UndescribedControl, RegisterPeer, SearchEnds,
     DeleteBegins, EraseRoutes, Unregister, PeerReleased, WaitGivesUp, DeleteRows,
     PacketArrives, ReadRoute, GetPeer, HandlePacket, Crash, LoadPeers,
     HomegearStarted, vars, registry, stored
<1>6. QED
  BY <1>3, <1>4, <1>5

(* Every step keeps what the threads are about. *)
LEMMA ControlStep == ControlInv /\ [Next]_vars => ControlInv'
<1> SUFFICES ASSUME ControlInv, [Next]_vars PROVE ControlInv'
  OBVIOUS
<1>0. TypeOK /\ PhaseInv /\ PeerInv /\ SearchInv /\ DeleteInv /\ ListenInv
  BY DEF ControlInv
<1>a. TypeOK' /\ PeerInv'
  BY TypeStep, PeerStep
<1>b. /\ created \in Nat /\ byId \subseteq 1 .. created /\ removed \subseteq 1 .. created
      /\ db \subseteq 1 .. created
      /\ search \in Searches /\ delete \in Deletions /\ listen \in Packets
      /\ route \in [Uuids -> 0 .. created]
  BY <1>0 DEF TypeOK
<1> SUFFICES (PhaseInv /\ SearchInv /\ DeleteInv /\ ListenInv)'
  BY <1>a DEF ControlInv
<1> USE <1>0, <1>b DEF registry, stored, history, counts
<1>1. CASE SearchBegins
  <2>1. PhaseInv'
    BY <1>1 DEF SearchBegins, PhaseInv, Searching, Deleting, Listening
  <2>2. SearchInv'
    BY <1>1 DEF SearchBegins, SearchInv, InSearch, Searches, Searching
  <2>3. DeleteInv'
    BY <1>1 DEF SearchBegins, DeleteInv, Deletions, Deleting
  <2>4. ListenInv'
    BY <1>1 DEF SearchBegins, ListenInv, Packets, Listening
  <2>5. QED
    BY <2>1, <2>2, <2>3, <2>4
<1>2. CASE VersionArrives
  <2>1. PhaseInv'
    BY <1>2 DEF VersionArrives, PhaseInv, Searching, Deleting, Listening
  <2>2. SearchInv'
    BY <1>2 DEF VersionArrives, SearchInv, InSearch, Searches, Searching
  <2>3. DeleteInv'
    BY <1>2 DEF VersionArrives, DeleteInv, Deletions, Deleting
  <2>4. ListenInv'
    BY <1>2 DEF VersionArrives, ListenInv, Packets, Listening
  <2>5. QED
    BY <2>1, <2>2, <2>3, <2>4
<1>3. CASE FileArrives
  <2>1. PhaseInv'
    BY <1>3 DEF FileArrives, PhaseInv, Searching, Deleting, Listening
  <2>2. SearchInv'
    <3>1. PICK file \in [Actions -> Rooms \cup {Absent}] :
            search' = [search EXCEPT
              !.pc = "controls", !.file = file, !.known = byId,
              !.todo = {a \in Actions : file[a] # Absent}]
      BY <1>3 DEF FileArrives, Snapshot
    <3>2. search.new = NoId /\ NoId \notin byId
      BY <1>3 DEF FileArrives, SearchInv
    <3>3. /\ search'.pc = "controls" /\ search'.new = NoId
          /\ search'.known = byId /\ search'.file = file
          /\ search'.todo = {a \in Actions : file[a] # Absent}
      BY <3>1, <3>2 DEF Searches
    <3>4. UNCHANGED <<byId, created>>
      BY <1>3 DEF FileArrives
    <3>5. QED
      BY <3>2, <3>3, <3>4 DEF SearchInv, InSearch
  <2>3. DeleteInv'
    BY <1>3 DEF FileArrives, DeleteInv, Deletions, Deleting
  <2>4. ListenInv'
    BY <1>3 DEF FileArrives, ListenInv, Packets, Listening
  <2>5. QED
    BY <2>1, <2>2, <2>3, <2>4
<1>4. CASE KnownControl
  <2>1. PhaseInv'
    BY <1>4 DEF KnownControl, PhaseInv, Searching, Deleting, Listening
  <2>2. SearchInv'
    BY <1>4 DEF KnownControl, SearchInv, InSearch, Searches, Searching
  <2>3. DeleteInv'
    BY <1>4 DEF KnownControl, DeleteInv, Deletions, Deleting
  <2>4. ListenInv'
    BY <1>4 DEF KnownControl, ListenInv, Packets, Listening
  <2>5. QED
    BY <2>1, <2>2, <2>3, <2>4
<1>5. CASE UndescribedControl
  <2>1. PhaseInv'
    BY <1>5 DEF UndescribedControl, PhaseInv, Searching, Deleting, Listening
  <2>2. SearchInv'
    BY <1>5 DEF UndescribedControl, SearchInv, InSearch, Searches, Searching
  <2>3. DeleteInv'
    BY <1>5 DEF UndescribedControl, DeleteInv, Deletions, Deleting
  <2>4. ListenInv'
    BY <1>5 DEF UndescribedControl, ListenInv, Packets, Listening
  <2>5. QED
    BY <2>1, <2>2, <2>3, <2>4
<1>6. CASE CreatePeer
  <2>1. PhaseInv'
    BY <1>6 DEF CreatePeer, PhaseInv, Searching, Deleting, Listening
  <2>2. SearchInv'
    BY <1>6 DEF CreatePeer, SearchInv, InSearch, Searches, Searching
  <2>3. DeleteInv'
    BY <1>6 DEF CreatePeer, DeleteInv, Deletions, Deleting
  <2>4. ListenInv'
    BY <1>6 DEF CreatePeer, ListenInv, Packets, Listening
  <2>5. QED
    BY <2>1, <2>2, <2>3, <2>4
<1>7. CASE RegisterPeer
  <2>1. PhaseInv'
    BY <1>7 DEF RegisterPeer, PhaseInv, Searching, Deleting, Listening
  <2>2. SearchInv'
    BY <1>7 DEF RegisterPeer, SearchInv, InSearch, Searches, Searching
  <2>3. DeleteInv'
    BY <1>7 DEF RegisterPeer, DeleteInv, Deletions, Deleting
  <2>4. ListenInv'
    BY <1>7 DEF RegisterPeer, ListenInv, Packets, Listening
  <2>5. QED
    BY <2>1, <2>2, <2>3, <2>4
<1>8. CASE SearchEnds
  <2>1. PhaseInv'
    BY <1>8 DEF SearchEnds, Searching, PhaseInv, Deleting, Listening
  <2>2. SearchInv'
    BY <1>8 DEF SearchEnds, Searching, SearchInv, InSearch, Searches
  <2>3. DeleteInv'
    BY <1>8 DEF SearchEnds, Searching, DeleteInv, Deletions, Deleting
  <2>4. ListenInv'
    BY <1>8 DEF SearchEnds, Searching, ListenInv, Packets, Listening
  <2>5. QED
    BY <2>1, <2>2, <2>3, <2>4
<1>9. CASE DeleteBegins
  <2>1. PhaseInv'
    BY <1>9 DEF DeleteBegins, PhaseInv, Searching, Deleting, Listening
  <2>2. SearchInv'
    BY <1>9 DEF DeleteBegins, SearchInv, InSearch, Searches, Searching
  <2>3. DeleteInv'
    <3>1. PICK id \in byId, rpc \in BOOLEAN :
            delete' = [pc |-> "routes", id |-> id, rpc |-> rpc]
      BY <1>9 DEF DeleteBegins
    <3>2. id # NoId /\ id # search.new /\ id \in 0 .. created
      <4>1. id \in 1 .. created
        OBVIOUS
      <4>2. id # search.new
        BY DEF SearchInv
      <4>3. QED
        BY <4>1, <4>2
    <3>3. UNCHANGED <<byId, created, search>> /\ deletes' # 0
      BY <1>9 DEF DeleteBegins, TypeOK
    <3>4. QED
      BY <3>1, <3>2, <3>3 DEF DeleteInv
  <2>4. ListenInv'
    BY <1>9 DEF DeleteBegins, ListenInv, Packets, Listening
  <2>5. QED
    BY <2>1, <2>2, <2>3, <2>4
<1>10. CASE EraseRoutes
  <2>1. PhaseInv'
    BY <1>10 DEF EraseRoutes, PhaseInv, Searching, Deleting, Listening
  <2>2. SearchInv'
    BY <1>10 DEF EraseRoutes, SearchInv, InSearch, Searches, Searching
  <2>3. DeleteInv'
    BY <1>10 DEF EraseRoutes, DeleteInv, Deletions, Deleting
  <2>4. ListenInv'
    BY <1>10 DEF EraseRoutes, ListenInv, Packets, Listening
  <2>5. QED
    BY <2>1, <2>2, <2>3, <2>4
<1>11. CASE Unregister
  <2>1. PhaseInv'
    BY <1>11 DEF Unregister, PhaseInv, Searching, Deleting, Listening
  <2>2. SearchInv'
    BY <1>11 DEF Unregister, SearchInv, InSearch, Searches, Searching
  <2>3. DeleteInv'
    BY <1>11 DEF Unregister, DeleteInv, Deletions, Deleting
  <2>4. ListenInv'
    BY <1>11 DEF Unregister, ListenInv, Packets, Listening
  <2>5. QED
    BY <2>1, <2>2, <2>3, <2>4
<1>12. CASE PeerReleased
  <2>1. PhaseInv'
    BY <1>12 DEF PeerReleased, DeleteRows, Deleting, PhaseInv, Searching,
       Listening
  <2>2. SearchInv'
    BY <1>12 DEF PeerReleased, DeleteRows, Deleting, SearchInv, InSearch,
       Searches, Searching
  <2>3. DeleteInv'
    BY <1>12 DEF PeerReleased, DeleteRows, Deleting, DeleteInv, Deletions
  <2>4. ListenInv'
    BY <1>12 DEF PeerReleased, DeleteRows, Deleting, ListenInv, Packets,
       Listening
  <2>5. QED
    BY <2>1, <2>2, <2>3, <2>4
<1>13. CASE WaitGivesUp
  <2>1. PhaseInv'
    BY <1>13 DEF WaitGivesUp, DeleteRows, Deleting, PhaseInv, Searching,
       Listening
  <2>2. SearchInv'
    BY <1>13 DEF WaitGivesUp, DeleteRows, Deleting, SearchInv, InSearch,
       Searches, Searching
  <2>3. DeleteInv'
    BY <1>13 DEF WaitGivesUp, DeleteRows, Deleting, DeleteInv, Deletions
  <2>4. ListenInv'
    BY <1>13 DEF WaitGivesUp, DeleteRows, Deleting, ListenInv, Packets,
       Listening
  <2>5. QED
    BY <2>1, <2>2, <2>3, <2>4
<1>14. CASE PacketArrives
  <2>1. PhaseInv'
    BY <1>14 DEF PacketArrives, PhaseInv, Searching, Deleting, Listening
  <2>2. SearchInv'
    BY <1>14 DEF PacketArrives, SearchInv, InSearch, Searches, Searching
  <2>3. DeleteInv'
    BY <1>14 DEF PacketArrives, DeleteInv, Deletions, Deleting
  <2>4. ListenInv'
    BY <1>14 DEF PacketArrives, ListenInv, Packets, Listening
  <2>5. QED
    BY <2>1, <2>2, <2>3, <2>4
<1>15. CASE ReadRoute
  <2>1. PhaseInv'
    BY <1>15 DEF ReadRoute, Listening, PhaseInv, Searching, Deleting
  <2>2. SearchInv'
    BY <1>15 DEF ReadRoute, Listening, SearchInv, InSearch, Searches, Searching
  <2>3. DeleteInv'
    BY <1>15 DEF ReadRoute, Listening, DeleteInv, Deletions, Deleting
  <2>4. ListenInv'
    BY <1>15 DEF ReadRoute, Listening, ListenInv, Packets
  <2>5. QED
    BY <2>1, <2>2, <2>3, <2>4
<1>16. CASE GetPeer
  <2>1. PhaseInv'
    BY <1>16 DEF GetPeer, Listening, PhaseInv, Searching, Deleting
  <2>2. SearchInv'
    BY <1>16 DEF GetPeer, Listening, SearchInv, InSearch, Searches, Searching
  <2>3. DeleteInv'
    BY <1>16 DEF GetPeer, Listening, DeleteInv, Deletions, Deleting
  <2>4. ListenInv'
    BY <1>16 DEF GetPeer, Listening, ListenInv, Packets
  <2>5. QED
    BY <2>1, <2>2, <2>3, <2>4
<1>17. CASE HandlePacket
  <2>1. PhaseInv'
    BY <1>17 DEF HandlePacket, Listening, PhaseInv, Searching, Deleting
  <2>2. SearchInv'
    BY <1>17 DEF HandlePacket, Listening, SearchInv, InSearch, Searches,
       Searching
  <2>3. DeleteInv'
    BY <1>17 DEF HandlePacket, Listening, DeleteInv, Deletions, Deleting
  <2>4. ListenInv'
    BY <1>17 DEF HandlePacket, Listening, ListenInv, Packets
  <2>5. QED
    BY <2>1, <2>2, <2>3, <2>4
<1>18. CASE Crash
  <2>1. PhaseInv'
    BY <1>18 DEF Crash, Volatile, Searching, Deleting, Listening, PhaseInv
  <2>2. SearchInv'
    BY <1>18 DEF Crash, Volatile, Searching, Deleting, Listening, SearchInv,
       InSearch, Searches
  <2>3. DeleteInv'
    BY <1>18 DEF Crash, Volatile, Searching, Deleting, Listening, DeleteInv,
       Deletions
  <2>4. ListenInv'
    BY <1>18 DEF Crash, Volatile, Searching, Deleting, Listening, ListenInv,
       Packets
  <2>5. QED
    BY <2>1, <2>2, <2>3, <2>4
<1>19. CASE LoadPeers
  <2>1. PhaseInv'
    BY <1>19 DEF LoadPeers, PhaseInv, Searching, Deleting, Listening
  <2>0. /\ search' = Searching /\ delete' = Deleting
        /\ byId' = db /\ created' = created
    BY <1>19 DEF LoadPeers, PhaseInv
  <2>2. SearchInv'
    BY <2>0 DEF SearchInv, InSearch, Searching
  <2>3. DeleteInv'
    BY <2>0 DEF DeleteInv, Deleting
  <2>4. ListenInv'
    BY <1>19 DEF LoadPeers, ListenInv, Packets, Listening
  <2>5. QED
    BY <2>1, <2>2, <2>3, <2>4
<1>20. CASE HomegearStarted
  <2>1. PhaseInv'
    BY <1>20 DEF HomegearStarted, PhaseInv, Searching, Deleting, Listening
  <2>2. SearchInv'
    BY <1>20 DEF HomegearStarted, SearchInv, InSearch, Searches, Searching
  <2>3. DeleteInv'
    BY <1>20 DEF HomegearStarted, DeleteInv, Deletions, Deleting
  <2>4. ListenInv'
    BY <1>20 DEF HomegearStarted, ListenInv, Packets, Listening
  <2>5. QED
    BY <2>1, <2>2, <2>3, <2>4
<1>21. CASE UNCHANGED vars
  <2>1. PhaseInv'
    BY <1>21 DEF vars, PhaseInv, Searching, Deleting, Listening
  <2>2. SearchInv'
    BY <1>21 DEF vars, SearchInv, InSearch, Searches, Searching
  <2>3. DeleteInv'
    BY <1>21 DEF vars, DeleteInv, Deletions, Deleting
  <2>4. ListenInv'
    BY <1>21 DEF vars, ListenInv, Packets, Listening
  <2>5. QED
    BY <2>1, <2>2, <2>3, <2>4
<1>22. QED
  BY <1>1, <1>2, <1>3, <1>4, <1>5, <1>6, <1>7, <1>8, <1>9, <1>10, <1>11,
     <1>12, <1>13, <1>14, <1>15, <1>16, <1>17, <1>18, <1>19, <1>20, <1>21
  DEF Next, SearchStep, DeleteStep, ListenStep
-----------------------------------------------------------------------------
(* Layer 2 *)

(* What is live or stored has an id that has been given out. *)
LEMMA LiveIds ==
  ASSUME ControlInv
  PROVE  /\ Unregistered \subseteq 1 .. created /\ Live \subseteq 1 .. created
         /\ db \subseteq 1 .. created /\ byId \subseteq 1 .. created
         /\ created \in Nat /\ 1 .. created \subseteq Ids
<1>1. TypeOK /\ SearchInv
  BY DEF ControlInv
<1>2. Unregistered \subseteq 1 .. created
  BY <1>1 DEF SearchInv, Unregistered, TypeOK
<1>3. QED
  BY <1>1, <1>2 DEF Live, TypeOK

(* The search starts to know the registered peers. *)
LEMMA FileArrivesEffect ==
  ASSUME ControlInv, FileArrives
  PROVE  /\ search'.pc = "controls" /\ search'.new = NoId /\ search.new = NoId
         /\ search'.known = byId /\ search'.made = {}
         /\ search'.todo = {a \in Actions : search'.file[a] # Absent}
<1>1. search \in Searches /\ SearchInv
  BY DEF ControlInv, TypeOK
<1>2. search.pc = "file"
  BY DEF FileArrives
<1>3. search.new = NoId /\ search.made = {}
  BY <1>1, <1>2 DEF SearchInv, InSearch
<1>4. PICK file \in [Actions -> Rooms \cup {Absent}] :
        search' = [search EXCEPT
          !.pc = "controls", !.file = file, !.known = byId,
          !.todo = {a \in Actions : file[a] # Absent}]
  BY DEF FileArrives, Snapshot
<1>5. QED
  BY <1>1, <1>3, <1>4 DEF Searches

(* The control and the peer a search has found are handled. *)
LEMMA KnownControlSearch ==
  ASSUME ControlInv, KnownControl
  PROVE  \E a \in search.todo, id \in search.known :
           /\ id \in 1 .. created /\ peer[id].action = a
           /\ peer'[id].unreach = FALSE
           /\ \A j \in 1 .. created : j # id => peer'[j] = peer[j]
           /\ search.pc = "controls" /\ search'.pc = "controls"
           /\ search'.new = search.new /\ search'.file = search.file
           /\ search'.known = search.known \ {id} /\ search'.made = search.made
           /\ search'.todo = search.todo \ {a}
           /\ rows' = rows \cup {id}
<1>1. search \in Searches /\ peer \in [Ids -> Peers]
  BY DEF ControlInv, TypeOK
<1>2. PICK a \in search.todo, id \in search.known :
        /\ id \in 1 .. created /\ peer[id].action = a
        /\ search.pc = "controls"
        /\ peer' = [peer EXCEPT ![id] = Refreshed(id, a)]
        /\ rows' = rows \cup {id}
        /\ search' = [search EXCEPT !.todo = @ \ {a}, !.known = @ \ {id}]
  BY KnownControlEffect
<1>3. /\ search'.pc = "controls"
      /\ search'.new = search.new /\ search'.file = search.file
      /\ search'.known = search.known \ {id} /\ search'.made = search.made
      /\ search'.todo = search.todo \ {a}
  BY <1>1, <1>2 DEF Searches
<1>4. 1 .. created \subseteq Ids
  BY LiveIds
<1>5. peer[id] \in Peers
  BY <1>1, <1>2, <1>4
<1>6. Refreshed(id, a).unreach = FALSE
  BY <1>5 DEF Refreshed, Peers
<1>7. peer'[id].unreach = FALSE /\ \A j \in 1 .. created : j # id => peer'[j] = peer[j]
  BY <1>1, <1>2, <1>4, <1>6
<1>8. QED
  BY <1>2, <1>3, <1>7

(* createPeer() stores a new peer for a control no known peer is left for. *)
LEMMA CreatePeerEffect ==
  ASSUME ControlInv, CreatePeer
  PROVE  \E a \in search.todo \cap Described, s \in FreeSerials :
           LET id == created + 1 IN
           /\ \A j \in search.known : peer[j].action # a
           /\ search.pc = "controls" /\ search.new = NoId
           /\ id \in Ids /\ created' = id
           /\ peer'[id].action = a /\ peer'[id].serial = s /\ ~peer'[id].unreach
           /\ \A j \in 1 .. created : peer'[j] = peer[j]
           /\ db' = db \cup {id} /\ rows' = rows \cup {id}
           /\ route' = Emplaced(route, id, StateOf[a])
           /\ search'.pc = "register" /\ search'.new = id
           /\ search'.todo = search.todo \ {a} /\ search'.file = search.file
           /\ search'.known = search.known /\ search'.made = search.made
<1>1. /\ search \in Searches /\ peer \in [Ids -> Peers] /\ created \in Nat
      /\ 1 .. created \subseteq Ids /\ SearchInv
  BY LiveIds DEF ControlInv, TypeOK
<1>2. PICK a \in search.todo \cap Described, s \in FreeSerials :
        /\ Matching(a) = {}
        /\ peer' = [peer EXCEPT ![created + 1] =
             [action |-> a, room |-> search.file[a], serial |-> s,
              unreach |-> FALSE]]
        /\ route' = Emplaced(route, created + 1, StateOf[a])
        /\ search' = [search EXCEPT !.pc = "register", !.new = created + 1,
                                    !.todo = @ \ {a}]
  BY DEF CreatePeer
<1>3. /\ search.pc = "controls" /\ created' = created + 1
      /\ db' = db \cup {created + 1} /\ rows' = rows \cup {created + 1}
  BY DEF CreatePeer
<1>4. created + 1 \in Ids /\ search.new = NoId
  BY <1>1, <1>3 DEF CreatePeer, SearchInv
<1>5. \A j \in search.known : peer[j].action # a
  BY <1>2 DEF Matching
<1>6. /\ search'.pc = "register" /\ search'.new = created + 1
      /\ search'.todo = search.todo \ {a} /\ search'.file = search.file
      /\ search'.known = search.known /\ search'.made = search.made
  BY <1>1, <1>2 DEF Searches
<1>7. /\ peer'[created + 1].action = a /\ peer'[created + 1].serial = s
      /\ ~peer'[created + 1].unreach
      /\ \A j \in 1 .. created : peer'[j] = peer[j]
  BY <1>1, <1>2, <1>4
<1>8. QED
  BY <1>2, <1>3, <1>4, <1>5, <1>6, <1>7

(* The new peer enters both indexes. *)
LEMMA RegisterPeerEffect ==
  ASSUME ControlInv, RegisterPeer
  PROVE  /\ search.pc = "register" /\ search'.pc = "controls"
         /\ search.new \in 1 .. created /\ search'.new = NoId
         /\ search'.todo = search.todo /\ search'.file = search.file
         /\ search'.known = search.known
         /\ search'.made = search.made \cup {search.new}
         /\ peer[search.new].serial \in Serials
         /\ byId' = byId \cup {search.new}
         /\ bySerial' = [bySerial EXCEPT ![peer[search.new].serial] = search.new]
<1>1. search \in Searches /\ SearchInv /\ PeerInv
  BY DEF ControlInv, TypeOK
<1>2. /\ search.pc = "register" /\ byId' = byId \cup {search.new}
      /\ bySerial' = [bySerial EXCEPT ![peer[search.new].serial] = search.new]
      /\ search' = [search EXCEPT !.pc = "controls", !.new = NoId,
                                  !.made = @ \cup {search.new}]
  BY DEF RegisterPeer
<1>3. search.new \in 1 .. created
  BY <1>1, <1>2 DEF SearchInv
<1>4. /\ search'.pc = "controls" /\ search'.new = NoId
      /\ search'.todo = search.todo /\ search'.file = search.file
      /\ search'.known = search.known
      /\ search'.made = search.made \cup {search.new}
  BY <1>1, <1>2 DEF Searches
<1>5. QED
  BY <1>1, <1>2, <1>3, <1>4 DEF PeerInv

(* Every step keeps the indexes and the table of peers in line. *)
LEMMA IndexStep == ControlInv /\ IndexInv /\ [Next]_vars => IndexInv'
<1> SUFFICES ASSUME ControlInv, IndexInv, [Next]_vars PROVE IndexInv'
  OBVIOUS
<1>0. /\ TypeOK /\ PhaseInv /\ PeerInv /\ SearchInv /\ DeleteInv
      /\ SerialInv /\ IndexesAgree /\ StoredInv /\ HandledInv
  BY DEF ControlInv, IndexInv
<1>a. /\ peer \in [Ids -> Peers] /\ bySerial \in [Serials -> 0 .. created]
      /\ search \in Searches /\ delete \in Deletions
  BY <1>0 DEF TypeOK
<1>b. \A id \in 1 .. created : /\ peer'[id].action = peer[id].action
                               /\ peer'[id].serial = peer[id].serial
  BY PeersKept
<1>c. /\ Unregistered \subseteq 1 .. created /\ Live \subseteq 1 .. created
      /\ db \subseteq 1 .. created /\ byId \subseteq 1 .. created
      /\ created \in Nat /\ 1 .. created \subseteq Ids
  BY LiveIds
<1> USE <1>0, <1>a, <1>b, <1>c DEF registry, stored, history, counts
<1>1. CASE SearchBegins
  <2>1. SerialInv'
    BY <1>1 DEF SearchBegins, SerialInv, Unregistered
  <2>2. IndexesAgree'
    BY <1>1 DEF SearchBegins, IndexesAgree
  <2>3. StoredInv'
    BY <1>1 DEF SearchBegins, StoredInv, Live, Leaving, Unregistered, Deletions
  <2>4. HandledInv'
    BY <1>1 DEF SearchBegins, HandledInv, InSearch, Unregistered, Searches,
       Peers
  <2>5. QED
    BY <2>1, <2>2, <2>3, <2>4 DEF IndexInv
<1>2. CASE VersionArrives
  <2>1. SerialInv'
    BY <1>2 DEF VersionArrives, SerialInv, Unregistered
  <2>2. IndexesAgree'
    BY <1>2 DEF VersionArrives, IndexesAgree
  <2>3. StoredInv'
    BY <1>2 DEF VersionArrives, StoredInv, Live, Leaving, Unregistered,
       Deletions
  <2>4. HandledInv'
    BY <1>2 DEF VersionArrives, HandledInv, InSearch, Unregistered, Searches,
       Peers
  <2>5. QED
    BY <2>1, <2>2, <2>3, <2>4 DEF IndexInv
<1>3. CASE FileArrives
  <2>1. SerialInv'
    BY <1>3 DEF FileArrives, SerialInv, Unregistered
  <2>2. IndexesAgree'
    BY <1>3 DEF FileArrives, IndexesAgree
  <2>3. StoredInv'
    BY <1>3 DEF FileArrives, StoredInv, Live, Leaving, Unregistered, Deletions
  <2>4. HandledInv'
    BY <1>3, FileArrivesEffect DEF FileArrives, HandledInv, Unregistered
  <2>5. QED
    BY <2>1, <2>2, <2>3, <2>4 DEF IndexInv
<1>4. CASE KnownControl
  <2>1. SerialInv'
    BY <1>4 DEF KnownControl, SerialInv, Unregistered
  <2>2. IndexesAgree'
    BY <1>4 DEF KnownControl, IndexesAgree
  <2>3. StoredInv'
    BY <1>4 DEF KnownControl, StoredInv, Live, Leaving, Unregistered, Deletions
  <2>4. HandledInv'
    <3>1. PICK a \in search.todo, id \in search.known :
           /\ id \in 1 .. created /\ peer[id].action = a
           /\ peer'[id].unreach = FALSE
           /\ \A j \in 1 .. created : j # id => peer'[j] = peer[j]
           /\ search.pc = "controls" /\ search'.pc = "controls"
           /\ search'.new = search.new /\ search'.file = search.file
           /\ search'.known = search.known \ {id}
           /\ search'.todo = search.todo \ {a}
      BY <1>4, KnownControlSearch
    <3>2. byId' = byId /\ Unregistered' = Unregistered
      BY <1>4, <3>1 DEF KnownControl, Unregistered
    <3>3. search.file[a] # Absent
      BY DEF SearchInv
    <3>4. ASSUME NEW j \in (byId \ search'.known) \cup Unregistered
          PROVE  /\ peer'[j].action \notin search'.todo
                 /\ search'.file[peer'[j].action] # Absent
                 /\ ~peer'[j].unreach
      <4>1. j \in 1 .. created
        OBVIOUS
      <4>2. CASE j = id
        BY <3>1, <3>3, <4>1, <4>2
      <4>3. CASE j # id
        BY <3>1, <4>1, <4>3 DEF HandledInv, InSearch
      <4>4. QED
        BY <4>2, <4>3
    <3>5. QED
      BY <3>2, <3>4 DEF HandledInv
  <2>5. QED
    BY <2>1, <2>2, <2>3, <2>4 DEF IndexInv
<1>5. CASE UndescribedControl
  <2>1. SerialInv'
    BY <1>5 DEF UndescribedControl, SerialInv, Unregistered
  <2>2. IndexesAgree'
    BY <1>5 DEF UndescribedControl, IndexesAgree
  <2>3. StoredInv'
    BY <1>5 DEF UndescribedControl, StoredInv, Live, Leaving, Unregistered,
       Deletions
  <2>4. HandledInv'
    BY <1>5 DEF UndescribedControl, HandledInv, InSearch, Unregistered,
       Searches, Peers
  <2>5. QED
    BY <2>1, <2>2, <2>3, <2>4 DEF IndexInv
<1>6. CASE CreatePeer
  <2> DEFINE new == created + 1
  <2>0. PICK a \in search.todo \cap Described, s \in FreeSerials :
           /\ \A j \in search.known : peer[j].action # a
           /\ search.pc = "controls" /\ search.new = NoId
           /\ new \in Ids
           /\ peer'[new].action = a /\ peer'[new].serial = s /\ ~peer'[new].unreach
           /\ \A j \in 1 .. created : peer'[j] = peer[j]
           /\ db' = db \cup {new}
           /\ search'.pc = "register" /\ search'.new = new
           /\ search'.todo = search.todo \ {a} /\ search'.file = search.file
           /\ search'.known = search.known
    BY <1>6, CreatePeerEffect
  <2>a. UNCHANGED <<phase, byId, bySerial, delete, torn>>
    BY <1>6 DEF CreatePeer
  <2>b. /\ Unregistered = {} /\ Unregistered' = {new} /\ new \notin 1 .. created
        /\ Leaving' = Leaving
    BY <2>0, <2>a DEF Unregistered, Leaving
  <2>c. \A j \in byId : peer[j].action # a
    BY <2>0 DEF HandledInv, InSearch
  <2>d. s \in Serials /\ bySerial[s] = NoId /\ search.file[a] # Absent
    BY <2>0 DEF FreeSerials, SearchInv
  <2>1. SerialInv'
    BY <2>0, <2>a, <2>b, <2>d DEF SerialInv
  <2>2. IndexesAgree'
    BY <1>6 DEF CreatePeer, IndexesAgree
  <2>3. StoredInv'
    <3>1. SUFFICES ASSUME ~torn PROVE StoredInv'
      BY <2>a DEF StoredInv
    <3>2. phase # "down"
      BY <2>0 DEF PhaseInv, Searching
    <3>3. db \ Leaving = byId
      BY <2>b, <3>1, <3>2 DEF StoredInv, Live
    <3>4. new \notin Leaving
      BY <2>b DEF Leaving, DeleteInv
    <3>5. db' \ Leaving' = byId \cup {new}
      BY <2>0, <2>b, <3>3, <3>4
    <3>6. Live' = byId \cup {new}
      BY <2>a, <2>b DEF Live
    <3>7. \A j \in byId : peer[j].serial # s
      <4>1. SUFFICES ASSUME NEW j \in byId, peer[j].serial = s PROVE FALSE
        OBVIOUS
      <4>2. bySerial[s] = j
        BY <3>1, <4>1, Zenon DEF IndexesAgree
      <4>3. j # NoId
        OBVIOUS
      <4>4. QED
        BY <2>d, <4>2, <4>3
    <3>8. \A i, j \in byId :
            peer[i].action = peer[j].action \/ peer[i].serial = peer[j].serial => i = j
      BY <3>1, <3>3 DEF StoredInv
    <3>9. \A j \in byId : peer'[j] = peer[j]
      BY <2>0
    <3>10. ASSUME NEW i \in db' \ Leaving', NEW j \in db' \ Leaving',
                  \/ peer'[i].action = peer'[j].action
                  \/ peer'[i].serial = peer'[j].serial
           PROVE  i = j
      <4>1. CASE i \in byId /\ j \in byId
        BY <3>8, <3>9, <3>10, <4>1
      <4>2. \A k \in byId : peer'[k].action # a /\ peer'[k].serial # s
        BY <2>c, <3>7, <3>9
      <4>3. CASE i = new /\ j \in byId
        BY <2>0, <3>10, <4>2, <4>3
      <4>4. CASE j = new /\ i \in byId
        BY <2>0, <3>10, <4>2, <4>4
      <4>5. QED
        BY <3>5, <4>1, <4>3, <4>4
    <3>11. QED
      BY <2>a, <3>5, <3>6, <3>10 DEF StoredInv
  <2>4. HandledInv'
    <3>1. \A j \in byId \ search.known : /\ peer[j].action \notin search.todo
                                         /\ search.file[peer[j].action] # Absent
                                         /\ ~peer[j].unreach
      BY <2>0 DEF HandledInv, InSearch
    <3>2. \A j \in byId : peer'[j] = peer[j]
      BY <2>0
    <3>3. QED
      BY <2>0, <2>a, <2>b, <2>d, <3>1, <3>2 DEF HandledInv
  <2>5. QED
    BY <2>1, <2>2, <2>3, <2>4 DEF IndexInv
<1>7. CASE RegisterPeer
  <2>1. SerialInv'
    BY <1>7 DEF RegisterPeer, SerialInv, Unregistered
  <2>a. UNCHANGED <<phase, peer, db, delete, torn>>
    BY <1>7 DEF RegisterPeer
  <2>b. /\ search.pc = "register" /\ search'.new = NoId
        /\ search.new \in 1 .. created
        /\ search'.todo = search.todo /\ search'.file = search.file
        /\ search'.known = search.known
        /\ peer[search.new].serial \in Serials
        /\ byId' = byId \cup {search.new}
        /\ bySerial' = [bySerial EXCEPT ![peer[search.new].serial] = search.new]
    BY <1>7, RegisterPeerEffect
  <2>c. Unregistered = {search.new} /\ Unregistered' = {} /\ Leaving' = Leaving
    BY <2>a, <2>b DEF Unregistered, Leaving
  <2>2. IndexesAgree'
    <3>1. bySerial[peer[search.new].serial] = NoId
      BY <2>c DEF SerialInv
    <3>2. QED
      BY <2>a, <2>b, <3>1 DEF IndexesAgree
  <2>3. StoredInv'
    <3>1. Live' = Live
      BY <2>b, <2>c DEF Live
    <3>2. QED
      BY <2>a, <2>c, <3>1 DEF StoredInv
  <2>4. HandledInv'
    BY <2>a, <2>b, <2>c DEF HandledInv, InSearch
  <2>5. QED
    BY <2>1, <2>2, <2>3, <2>4 DEF IndexInv
<1>8. CASE SearchEnds
  <2>1. SerialInv'
    BY <1>8 DEF SearchEnds, Searching, SerialInv, Unregistered
  <2>2. IndexesAgree'
    BY <1>8 DEF SearchEnds, Searching, IndexesAgree
  <2>3. StoredInv'
    <3>1. UNCHANGED <<phase, byId, db, delete, torn>>
      BY <1>8 DEF SearchEnds
    <3>2. Unregistered' = {} /\ Unregistered = {}
      BY <1>8 DEF SearchEnds, Unregistered, Searching, SearchInv
    <3>3. Live' = Live /\ Leaving' = Leaving
      BY <3>1, <3>2 DEF Live, Leaving
    <3>4. \A i \in db : /\ peer'[i].action = peer[i].action
                        /\ peer'[i].serial = peer[i].serial
      OBVIOUS
    <3>5. ~torn =>
            /\ phase # "down" => db \ Leaving = Live
            /\ \A i, j \in db \ Leaving :
                 peer[i].action = peer[j].action \/ peer[i].serial = peer[j].serial
                   => i = j
      BY DEF StoredInv
    <3>6. ~torn => \A i, j \in db \ Leaving :
            peer'[i].action = peer'[j].action \/ peer'[i].serial = peer'[j].serial
              => i = j
      BY <3>4, <3>5
    <3>7. QED
      BY <3>1, <3>3, <3>5, <3>6 DEF StoredInv
  <2>4. HandledInv'
    BY <1>8 DEF SearchEnds, Searching, HandledInv, InSearch, Unregistered,
       Searches, Peers
  <2>5. QED
    BY <2>1, <2>2, <2>3, <2>4 DEF IndexInv
<1>9. CASE DeleteBegins
  <2>1. SerialInv'
    BY <1>9 DEF DeleteBegins, SerialInv, Unregistered
  <2>2. IndexesAgree'
    BY <1>9 DEF DeleteBegins, IndexesAgree
  <2>3. StoredInv'
    BY <1>9 DEF DeleteBegins, StoredInv, Live, Leaving, Unregistered, Deletions
  <2>4. HandledInv'
    BY <1>9 DEF DeleteBegins, HandledInv, InSearch, Unregistered, Searches,
       Peers
  <2>5. QED
    BY <2>1, <2>2, <2>3, <2>4 DEF IndexInv
<1>10. CASE EraseRoutes
  <2>1. SerialInv'
    BY <1>10 DEF EraseRoutes, SerialInv, Unregistered
  <2>2. IndexesAgree'
    BY <1>10 DEF EraseRoutes, IndexesAgree
  <2>3. StoredInv'
    BY <1>10 DEF EraseRoutes, StoredInv, Live, Leaving, Unregistered, Deletions
  <2>4. HandledInv'
    BY <1>10 DEF EraseRoutes, HandledInv, InSearch, Unregistered, Searches,
       Peers
  <2>5. QED
    BY <2>1, <2>2, <2>3, <2>4 DEF IndexInv
<1>11. CASE Unregister
  <2>1. SerialInv'
    BY <1>11 DEF Unregister, SerialInv, Unregistered
  <2>a. UNCHANGED <<phase, peer, db, search, torn>>
    BY <1>11 DEF Unregister
  <2>b. /\ delete.id \in byId /\ byId' = byId \ {delete.id}
        /\ bySerial' = [bySerial EXCEPT ![peer[delete.id].serial] = NoId]
    BY <1>11 DEF Unregister, DeleteInv
  <2>2. IndexesAgree'
    <3>1. peer[delete.id].serial \in Serials
      BY <2>b DEF PeerInv
    <3>2. SUFFICES ASSUME ~torn PROVE IndexesAgree'
      BY <2>a DEF IndexesAgree
    <3>3. bySerial[peer[delete.id].serial] = delete.id
      BY <2>b, <3>2 DEF IndexesAgree
    <3>4. ASSUME NEW id \in byId' PROVE bySerial'[peer[id].serial] = id
      <4>1. id \in byId /\ id # delete.id /\ bySerial[peer[id].serial] = id
        BY <2>b, <3>2, <3>4 DEF IndexesAgree
      <4>2. QED
        BY <2>b, <3>1, <3>3, <4>1 DEF PeerInv
    <3>5. ASSUME NEW s \in Serials, bySerial'[s] # NoId PROVE bySerial'[s] \in byId'
      <4>1. bySerial'[s] = bySerial[s] /\ s # peer[delete.id].serial
        BY <2>b, <3>1, <3>5
      <4>2. bySerial[s] \in byId /\ peer[bySerial[s]].serial = s
        BY <3>2, <3>5, <4>1 DEF IndexesAgree, SerialInv
      <4>3. QED
        BY <2>b, <4>1, <4>2
    <3>6. QED
      BY <2>a, <3>4, <3>5 DEF IndexesAgree
  <2>3. StoredInv'
    <3>1. delete'.pc = "wait" /\ delete'.id = delete.id /\ delete.pc = "registry"
      BY <1>11 DEF Unregister, Deletions
    <3>2. Leaving = {} /\ Leaving' = {delete.id}
      BY <3>1 DEF Leaving
    <3>3. Unregistered' = Unregistered /\ delete.id \notin Unregistered
      BY <2>a, <2>b DEF Unregistered, SearchInv
    <3>4. Live' = Live \ {delete.id}
      BY <2>b, <3>3 DEF Live
    <3>5. QED
      BY <2>a, <3>2, <3>4 DEF StoredInv
  <2>4. HandledInv'
    BY <1>11 DEF Unregister, HandledInv, InSearch, Unregistered, Searches, Peers
  <2>5. QED
    BY <2>1, <2>2, <2>3, <2>4 DEF IndexInv
<1>12. CASE PeerReleased
  <2>1. SerialInv'
    BY <1>12 DEF PeerReleased, DeleteRows, Deleting, SerialInv, Unregistered
  <2>2. IndexesAgree'
    BY <1>12 DEF PeerReleased, DeleteRows, Deleting, IndexesAgree
  <2>3. StoredInv'
    BY <1>12 DEF PeerReleased, DeleteRows, Deleting, StoredInv, Live, Leaving,
       Unregistered, Deletions
  <2>4. HandledInv'
    BY <1>12 DEF PeerReleased, DeleteRows, Deleting, HandledInv, InSearch,
       Unregistered, Searches, Peers
  <2>5. QED
    BY <2>1, <2>2, <2>3, <2>4 DEF IndexInv
<1>13. CASE WaitGivesUp
  <2>1. SerialInv'
    BY <1>13 DEF WaitGivesUp, DeleteRows, Deleting, SerialInv, Unregistered
  <2>2. IndexesAgree'
    BY <1>13 DEF WaitGivesUp, DeleteRows, Deleting, IndexesAgree
  <2>3. StoredInv'
    BY <1>13 DEF WaitGivesUp, DeleteRows, Deleting, StoredInv, Live, Leaving,
       Unregistered, Deletions
  <2>4. HandledInv'
    BY <1>13 DEF WaitGivesUp, DeleteRows, Deleting, HandledInv, InSearch,
       Unregistered, Searches, Peers
  <2>5. QED
    BY <2>1, <2>2, <2>3, <2>4 DEF IndexInv
<1>14. CASE PacketArrives
  <2>1. SerialInv'
    BY <1>14 DEF PacketArrives, SerialInv, Unregistered
  <2>2. IndexesAgree'
    BY <1>14 DEF PacketArrives, IndexesAgree
  <2>3. StoredInv'
    BY <1>14 DEF PacketArrives, StoredInv, Live, Leaving, Unregistered,
       Deletions
  <2>4. HandledInv'
    BY <1>14 DEF PacketArrives, HandledInv, InSearch, Unregistered, Searches,
       Peers
  <2>5. QED
    BY <2>1, <2>2, <2>3, <2>4 DEF IndexInv
<1>15. CASE ReadRoute
  <2>1. SerialInv'
    BY <1>15 DEF ReadRoute, Listening, SerialInv, Unregistered
  <2>2. IndexesAgree'
    BY <1>15 DEF ReadRoute, Listening, IndexesAgree
  <2>3. StoredInv'
    BY <1>15 DEF ReadRoute, Listening, StoredInv, Live, Leaving, Unregistered,
       Deletions
  <2>4. HandledInv'
    BY <1>15 DEF ReadRoute, Listening, HandledInv, InSearch, Unregistered,
       Searches, Peers
  <2>5. QED
    BY <2>1, <2>2, <2>3, <2>4 DEF IndexInv
<1>16. CASE GetPeer
  <2>1. SerialInv'
    BY <1>16 DEF GetPeer, Listening, SerialInv, Unregistered
  <2>2. IndexesAgree'
    BY <1>16 DEF GetPeer, Listening, IndexesAgree
  <2>3. StoredInv'
    BY <1>16 DEF GetPeer, Listening, StoredInv, Live, Leaving, Unregistered,
       Deletions
  <2>4. HandledInv'
    BY <1>16 DEF GetPeer, Listening, HandledInv, InSearch, Unregistered,
       Searches, Peers
  <2>5. QED
    BY <2>1, <2>2, <2>3, <2>4 DEF IndexInv
<1>17. CASE HandlePacket
  <2>1. SerialInv'
    BY <1>17 DEF HandlePacket, Listening, SerialInv, Unregistered
  <2>2. IndexesAgree'
    BY <1>17 DEF HandlePacket, Listening, IndexesAgree
  <2>3. StoredInv'
    BY <1>17 DEF HandlePacket, Listening, StoredInv, Live, Leaving,
       Unregistered, Deletions
  <2>4. HandledInv'
    BY <1>17 DEF HandlePacket, Listening, HandledInv, InSearch, Unregistered,
       Searches, Peers
  <2>5. QED
    BY <2>1, <2>2, <2>3, <2>4 DEF IndexInv
<1>18. CASE Crash
  <2>1. SerialInv'
    BY <1>18 DEF Crash, Volatile, Searching, Deleting, Listening, SerialInv,
       Unregistered
  <2>2. IndexesAgree'
    BY <1>18 DEF Crash, Volatile, Searching, Deleting, Listening, IndexesAgree
  <2>3. StoredInv'
    BY <1>18 DEF Crash, Volatile, Searching, Deleting, Listening, StoredInv,
       Live, Leaving, Unregistered, Deletions
  <2>4. HandledInv'
    BY <1>18 DEF Crash, Volatile, Searching, Deleting, Listening, HandledInv,
       InSearch, Unregistered, Searches, Peers
  <2>5. QED
    BY <2>1, <2>2, <2>3, <2>4 DEF IndexInv
<1>19. CASE LoadPeers
  <2>a. /\ search' = Searching /\ search = Searching
        /\ delete' = Deleting /\ delete = Deleting
        /\ byId' = db /\ db' = db /\ torn' = torn /\ bySerial' = Indexed(db)
    BY <1>19 DEF LoadPeers, PhaseInv
  <2>b. Unregistered' = {} /\ Leaving' = {} /\ Leaving = {}
    BY <2>a DEF Unregistered, Leaving, Searching, Deleting
  <2>c. \A s \in Serials :
          \/ bySerial'[s] = NoId /\ \A id \in db : peer[id].serial # s
          \/ bySerial'[s] \in db /\ peer[bySerial'[s]].serial = s
    <3>1. \A s \in Serials :
            \/ Indexed(db)[s] = NoId /\ \A id \in db : peer[id].serial # s
            \/ Indexed(db)[s] \in db /\ peer[Indexed(db)[s]].serial = s
      <4>1. created \in Nat /\ db \subseteq 1 .. created
        OBVIOUS
      <4>2. QED
        BY ONLY <4>1, IndexedOwner
    <3>2. QED
      BY <2>a, <3>1, Zenon
  <2>1. SerialInv'
    BY <2>b, <2>c DEF SerialInv
  <2>2. IndexesAgree'
    <3>1. ASSUME ~torn, NEW id \in db PROVE bySerial'[peer[id].serial] = id
      <4>1. peer[id].serial \in Serials
        BY DEF PeerInv
      <4>2. /\ bySerial'[peer[id].serial] \in db
            /\ peer[bySerial'[peer[id].serial]].serial = peer[id].serial
        BY <2>c, <4>1
      <4>3. QED
        BY <2>b, <3>1, <4>2 DEF StoredInv
    <3>2. QED
      BY <2>a, <2>c, <3>1 DEF IndexesAgree
  <2>3. StoredInv'
    <3>1. Live' = db
      BY <2>a, <2>b DEF Live
    <3>2. \A id \in db : /\ peer'[id].action = peer[id].action
                         /\ peer'[id].serial = peer[id].serial
      OBVIOUS
    <3>3. ~torn => \A i, j \in db :
            peer[i].action = peer[j].action \/ peer[i].serial = peer[j].serial => i = j
      BY <2>b DEF StoredInv
    <3>4. QED
      BY <2>a, <2>b, <3>1, <3>2, <3>3 DEF StoredInv
  <2>4. HandledInv'
    BY <2>a DEF HandledInv, InSearch, Searching
  <2>5. QED
    BY <2>1, <2>2, <2>3, <2>4 DEF IndexInv
<1>20. CASE HomegearStarted
  <2>1. SerialInv'
    BY <1>20 DEF HomegearStarted, SerialInv, Unregistered
  <2>2. IndexesAgree'
    BY <1>20 DEF HomegearStarted, IndexesAgree
  <2>3. StoredInv'
    BY <1>20 DEF HomegearStarted, StoredInv, Live, Leaving, Unregistered,
       Deletions
  <2>4. HandledInv'
    BY <1>20 DEF HomegearStarted, PhaseInv, HandledInv, InSearch, Searching
  <2>5. QED
    BY <2>1, <2>2, <2>3, <2>4 DEF IndexInv
<1>21. CASE UNCHANGED vars
  <2>1. SerialInv'
    BY <1>21 DEF vars, SerialInv, Unregistered
  <2>2. IndexesAgree'
    BY <1>21 DEF vars, IndexesAgree
  <2>3. StoredInv'
    BY <1>21 DEF vars, StoredInv, Live, Leaving, Unregistered, Deletions
  <2>4. HandledInv'
    BY <1>21 DEF vars, HandledInv, InSearch, Unregistered, Searches, Peers
  <2>5. QED
    BY <2>1, <2>2, <2>3, <2>4 DEF IndexInv
<1>22. QED
  BY <1>1, <1>2, <1>3, <1>4, <1>5, <1>6, <1>7, <1>8, <1>9, <1>10, <1>11,
     <1>12, <1>13, <1>14, <1>15, <1>16, <1>17, <1>18, <1>19, <1>20, <1>21
  DEF Next, SearchStep, DeleteStep, ListenStep
-----------------------------------------------------------------------------
(* Layer 3 *)

(* Every step keeps account of the controls of the file. *)
LEMMA SettleStep == ControlInv /\ IndexInv /\ SettleInv /\ [Next]_vars => SettleInv'
<1> SUFFICES ASSUME ControlInv, IndexInv, SettleInv, [Next]_vars PROVE SettleInv'
  OBVIOUS
<1>0. /\ TypeOK /\ PhaseInv /\ PeerInv /\ SearchInv /\ DeleteInv
      /\ StoredInv /\ KnownInv /\ ServedInv
  BY DEF ControlInv, IndexInv, SettleInv
<1>a. search \in Searches /\ delete \in Deletions
  BY <1>0 DEF TypeOK
<1>b. \A id \in 1 .. created : peer'[id].action = peer[id].action
  BY PeersKept
<1>c. /\ Unregistered \subseteq 1 .. created /\ Live \subseteq 1 .. created
      /\ byId \subseteq 1 .. created /\ removed \subseteq 1 .. created
      /\ search.known \subseteq 1 .. created /\ created \in Nat
  <2>1. Unregistered \subseteq 1 .. created /\ Live \subseteq 1 .. created
        /\ byId \subseteq 1 .. created /\ created \in Nat
    BY LiveIds
  <2>2. removed \subseteq 1 .. created
    BY <1>0 DEF TypeOK
  <2>3. search.known \subseteq byId \cup removed
    BY <1>0 DEF SearchInv
  <2>4. QED
    BY <2>1, <2>2, <2>3
<1>d. search.known \subseteq byId \cup removed
  BY <1>0 DEF SearchInv
<1> USE <1>0, <1>a, <1>b, <1>c, <1>d DEF registry, stored, history, counts
<1>1. CASE SearchBegins
  <2>1. KnownInv'
    BY <1>1 DEF SearchBegins, KnownInv, InSearch, PhaseInv, SearchInv, Searching
  <2>2. ServedInv'
    BY <1>1 DEF SearchBegins, ServedInv, Live, Unregistered, InSearch, PhaseInv,
       Searching
  <2>3. QED
    BY <2>1, <2>2 DEF SettleInv
<1>2. CASE VersionArrives
  <2>1. KnownInv'
    BY <1>2 DEF VersionArrives, KnownInv, InSearch, PhaseInv, SearchInv,
       Searching
  <2>2. ServedInv'
    BY <1>2 DEF VersionArrives, ServedInv, Live, Unregistered, InSearch,
       PhaseInv, Searching
  <2>3. QED
    BY <2>1, <2>2 DEF SettleInv
<1>3. CASE FileArrives
  <2>0. /\ search'.known = byId /\ search'.new = NoId
        /\ search'.todo = {a \in Actions : search'.file[a] # Absent}
    BY <1>3, FileArrivesEffect
  <2>a. byId' = byId /\ torn' = torn /\ phase # "down"
    BY <1>3 DEF FileArrives, PhaseInv, Searching
  <2>1. KnownInv'
    <3>1. ~torn => \A i, j \in byId : peer[i].action = peer[j].action => i = j
      BY <2>a DEF StoredInv, Live
    <3>2. \A i \in byId : peer'[i].action = peer[i].action /\ peer[i].action \in Actions
      BY DEF PeerInv
    <3>3. QED
      BY <2>0, <2>a, <3>1, <3>2 DEF KnownInv
  <2>2. ServedInv'
    BY <2>0 DEF ServedInv
  <2>3. QED
    BY <2>1, <2>2 DEF SettleInv
<1>4. CASE KnownControl
  <2>0. PICK a \in search.todo, id \in search.known :
           /\ id \in 1 .. created /\ peer[id].action = a
           /\ search.pc = "controls"
           /\ search'.new = search.new /\ search'.file = search.file
           /\ search'.known = search.known \ {id}
           /\ search'.todo = search.todo \ {a}
    BY <1>4, KnownControlSearch
  <2>a. byId' = byId /\ torn' = torn /\ removed' = removed /\ created' = created
    BY <1>4 DEF KnownControl
  <2>1. KnownInv'
    BY <2>0, <2>a DEF KnownInv, InSearch
  <2>2. ServedInv'
    <3>1. id \in Live \cup removed
      BY DEF Live
    <3>2. Live' = Live
      BY <2>0, <2>a DEF Live, Unregistered
    <3>3. QED
      BY <2>0, <2>a, <3>1, <3>2 DEF ServedInv, InSearch
  <2>3. QED
    BY <2>1, <2>2 DEF SettleInv
<1>5. CASE UndescribedControl
  <2>0. PICK a \in search.todo \ Described :
           /\ \A j \in search.known : peer[j].action # a
           /\ search' = [search EXCEPT !.todo = @ \ {a}]
    BY <1>5 DEF UndescribedControl, Matching
  <2>a. /\ search'.pc = search.pc /\ search'.new = search.new
        /\ search'.file = search.file /\ search'.known = search.known
        /\ search'.todo = search.todo \ {a}
    BY <2>0 DEF Searches
  <2>b. UNCHANGED <<peer, byId, removed, torn>>
    BY <1>5 DEF UndescribedControl
  <2>1. KnownInv'
    BY <2>0, <2>a, <2>b DEF KnownInv, InSearch
  <2>2. ServedInv'
    BY <2>0, <2>a, <2>b DEF ServedInv, InSearch, Live, Unregistered
  <2>3. QED
    BY <2>1, <2>2 DEF SettleInv
<1>6. CASE CreatePeer
  <2>0. PICK a \in search.todo \cap Described :
           /\ \A j \in search.known : peer[j].action # a
           /\ search.pc = "controls" /\ search.new = NoId
           /\ peer'[created + 1].action = a
           /\ search'.new = created + 1
           /\ search'.todo = search.todo \ {a} /\ search'.file = search.file
           /\ search'.known = search.known
    BY <1>6, CreatePeerEffect
  <2>a. UNCHANGED <<byId, removed, torn>>
    BY <1>6 DEF CreatePeer
  <2>b. Live = byId /\ Live' = byId \cup {created + 1}
    BY <2>0, <2>a DEF Live, Unregistered
  <2>1. KnownInv'
    BY <2>0, <2>a DEF KnownInv, InSearch
  <2>2. ServedInv'
    BY <2>0, <2>a, <2>b DEF ServedInv, InSearch
  <2>3. QED
    BY <2>1, <2>2 DEF SettleInv
<1>7. CASE RegisterPeer
  <2>0. /\ search.pc = "register"
        /\ search.new \in 1 .. created /\ search'.new = NoId
        /\ search'.todo = search.todo /\ search'.file = search.file
        /\ search'.known = search.known
        /\ byId' = byId \cup {search.new}
    BY <1>7, RegisterPeerEffect
  <2>a. UNCHANGED <<peer, removed, torn>> /\ search.new \notin search.known
    BY <1>7 DEF RegisterPeer, SearchInv
  <2>b. Live' = Live
    BY <2>0 DEF Live, Unregistered
  <2>1. KnownInv'
    BY <2>0, <2>a DEF KnownInv, InSearch
  <2>2. ServedInv'
    BY <2>0, <2>a, <2>b DEF ServedInv, InSearch
  <2>3. QED
    BY <2>1, <2>2 DEF SettleInv
<1>8. CASE SearchEnds
  <2>1. KnownInv'
    BY <1>8 DEF SearchEnds, Searching, KnownInv, InSearch, PhaseInv, SearchInv
  <2>2. ServedInv'
    BY <1>8 DEF SearchEnds, Searching, ServedInv, Live, Unregistered, InSearch,
       PhaseInv
  <2>3. QED
    BY <2>1, <2>2 DEF SettleInv
<1>9. CASE DeleteBegins
  <2>1. KnownInv'
    BY <1>9 DEF DeleteBegins, KnownInv, InSearch, PhaseInv, SearchInv, Searching
  <2>2. ServedInv'
    BY <1>9 DEF DeleteBegins, ServedInv, Live, Unregistered, InSearch, PhaseInv,
       Searching
  <2>3. QED
    BY <2>1, <2>2 DEF SettleInv
<1>10. CASE EraseRoutes
  <2>1. KnownInv'
    BY <1>10 DEF EraseRoutes, KnownInv, InSearch, PhaseInv, SearchInv, Searching
  <2>2. ServedInv'
    BY <1>10 DEF EraseRoutes, ServedInv, Live, Unregistered, InSearch, PhaseInv,
       Searching
  <2>3. QED
    BY <2>1, <2>2 DEF SettleInv
<1>11. CASE Unregister
  <2>1. KnownInv'
    BY <1>11 DEF Unregister, KnownInv, InSearch, PhaseInv, SearchInv, Searching
  <2>2. ServedInv'
    BY <1>11 DEF Unregister, ServedInv, Live, Unregistered, InSearch, PhaseInv,
       Searching
  <2>3. QED
    BY <2>1, <2>2 DEF SettleInv
<1>12. CASE PeerReleased
  <2>1. KnownInv'
    BY <1>12 DEF PeerReleased, DeleteRows, Deleting, KnownInv, InSearch,
       PhaseInv, SearchInv, Searching
  <2>2. ServedInv'
    BY <1>12 DEF PeerReleased, DeleteRows, Deleting, ServedInv, Live,
       Unregistered, InSearch, PhaseInv, Searching
  <2>3. QED
    BY <2>1, <2>2 DEF SettleInv
<1>13. CASE WaitGivesUp
  <2>1. KnownInv'
    BY <1>13 DEF WaitGivesUp, DeleteRows, Deleting, KnownInv, InSearch,
       PhaseInv, SearchInv, Searching
  <2>2. ServedInv'
    BY <1>13 DEF WaitGivesUp, DeleteRows, Deleting, ServedInv, Live,
       Unregistered, InSearch, PhaseInv, Searching
  <2>3. QED
    BY <2>1, <2>2 DEF SettleInv
<1>14. CASE PacketArrives
  <2>1. KnownInv'
    BY <1>14 DEF PacketArrives, KnownInv, InSearch, PhaseInv, SearchInv,
       Searching
  <2>2. ServedInv'
    BY <1>14 DEF PacketArrives, ServedInv, Live, Unregistered, InSearch,
       PhaseInv, Searching
  <2>3. QED
    BY <2>1, <2>2 DEF SettleInv
<1>15. CASE ReadRoute
  <2>1. KnownInv'
    BY <1>15 DEF ReadRoute, Listening, KnownInv, InSearch, PhaseInv, SearchInv,
       Searching
  <2>2. ServedInv'
    BY <1>15 DEF ReadRoute, Listening, ServedInv, Live, Unregistered, InSearch,
       PhaseInv, Searching
  <2>3. QED
    BY <2>1, <2>2 DEF SettleInv
<1>16. CASE GetPeer
  <2>1. KnownInv'
    BY <1>16 DEF GetPeer, Listening, KnownInv, InSearch, PhaseInv, SearchInv,
       Searching
  <2>2. ServedInv'
    BY <1>16 DEF GetPeer, Listening, ServedInv, Live, Unregistered, InSearch,
       PhaseInv, Searching
  <2>3. QED
    BY <2>1, <2>2 DEF SettleInv
<1>17. CASE HandlePacket
  <2>1. KnownInv'
    BY <1>17 DEF HandlePacket, Listening, KnownInv, InSearch, PhaseInv,
       SearchInv, Searching
  <2>2. ServedInv'
    BY <1>17 DEF HandlePacket, Listening, ServedInv, Live, Unregistered,
       InSearch, PhaseInv, Searching
  <2>3. QED
    BY <2>1, <2>2 DEF SettleInv
<1>18. CASE Crash
  <2>1. KnownInv'
    BY <1>18 DEF Crash, Volatile, Searching, Deleting, Listening, KnownInv,
       InSearch, PhaseInv, SearchInv
  <2>2. ServedInv'
    BY <1>18 DEF Crash, Volatile, Searching, Deleting, Listening, ServedInv,
       Live, Unregistered, InSearch, PhaseInv
  <2>3. QED
    BY <2>1, <2>2 DEF SettleInv
<1>19. CASE LoadPeers
  <2>1. KnownInv'
    BY <1>19 DEF LoadPeers, KnownInv, InSearch, PhaseInv, SearchInv, Searching
  <2>2. ServedInv'
    BY <1>19 DEF LoadPeers, ServedInv, Live, Unregistered, InSearch, PhaseInv,
       Searching
  <2>3. QED
    BY <2>1, <2>2 DEF SettleInv
<1>20. CASE HomegearStarted
  <2>1. KnownInv'
    BY <1>20 DEF HomegearStarted, KnownInv, InSearch, PhaseInv, SearchInv,
       Searching
  <2>2. ServedInv'
    BY <1>20 DEF HomegearStarted, ServedInv, Live, Unregistered, InSearch,
       PhaseInv, Searching
  <2>3. QED
    BY <2>1, <2>2 DEF SettleInv
<1>21. CASE UNCHANGED vars
  <2>1. KnownInv'
    BY <1>21 DEF vars, KnownInv, InSearch, PhaseInv, SearchInv, Searching
  <2>2. ServedInv'
    BY <1>21 DEF vars, ServedInv, Live, Unregistered, InSearch, PhaseInv,
       Searching
  <2>3. QED
    BY <2>1, <2>2 DEF SettleInv
<1>22. QED
  BY <1>1, <1>2, <1>3, <1>4, <1>5, <1>6, <1>7, <1>8, <1>9, <1>10, <1>11,
     <1>12, <1>13, <1>14, <1>15, <1>16, <1>17, <1>18, <1>19, <1>20, <1>21
  DEF Next, SearchStep, DeleteStep, ListenStep
-----------------------------------------------------------------------------
(* Layer 4 *)

(* Every step keeps the routes in line with the registered peers. *)
LEMMA RouteStep == ControlInv /\ IndexInv /\ RouteInv /\ [Next]_vars => RouteInv'
<1> SUFFICES ASSUME ControlInv, IndexInv, RouteInv, [Next]_vars PROVE RouteInv'
  OBVIOUS
<1>0. /\ PhaseInv /\ PeerInv /\ SearchInv /\ DeleteInv /\ StoredInv
      /\ OwnerInv /\ PacketsRouted
  BY DEF ControlInv, IndexInv, RouteInv
<1>a. /\ search \in Searches /\ delete \in Deletions /\ deletes \in Nat
      /\ route \in [Uuids -> 0 .. created]
  BY DEF ControlInv, TypeOK
<1>b. \A id \in 1 .. created : peer'[id].action = peer[id].action
  BY PeersKept
<1>c. /\ Unregistered \subseteq 1 .. created /\ Live \subseteq 1 .. created
      /\ db \subseteq 1 .. created /\ byId \subseteq 1 .. created /\ created \in Nat
  BY LiveIds
<1>d. \A id \in 1 .. created : States(id) \subseteq Uuids
  BY <1>0, StatesAssumption DEF States, PeerInv
<1> USE <1>0, <1>a, <1>b, <1>c, <1>d DEF registry, stored, history, counts
<1>1. CASE SearchBegins
  <2>1. OwnerInv'
    BY <1>1 DEF SearchBegins, OwnerInv, States, Live, Unregistered, Searches,
       SearchInv
  <2>2. PacketsRouted'
    BY <1>1 DEF SearchBegins, PacketsRouted, States, Deletions, DeleteInv
  <2>3. QED
    BY <2>1, <2>2 DEF RouteInv
<1>2. CASE VersionArrives
  <2>1. OwnerInv'
    BY <1>2 DEF VersionArrives, OwnerInv, States, Live, Unregistered, Searches,
       SearchInv
  <2>2. PacketsRouted'
    BY <1>2 DEF VersionArrives, PacketsRouted, States, Deletions, DeleteInv
  <2>3. QED
    BY <2>1, <2>2 DEF RouteInv
<1>3. CASE FileArrives
  <2>1. OwnerInv'
    BY <1>3 DEF FileArrives, OwnerInv, States, Live, Unregistered, Searches,
       SearchInv
  <2>2. PacketsRouted'
    BY <1>3 DEF FileArrives, PacketsRouted, States, Deletions, DeleteInv
  <2>3. QED
    BY <2>1, <2>2 DEF RouteInv
<1>4. CASE KnownControl
  <2>1. OwnerInv'
    BY <1>4 DEF KnownControl, OwnerInv, States, Live, Unregistered, Searches,
       SearchInv
  <2>2. PacketsRouted'
    BY <1>4 DEF KnownControl, PacketsRouted, States, Deletions, DeleteInv
  <2>3. QED
    BY <2>1, <2>2 DEF RouteInv
<1>5. CASE UndescribedControl
  <2>1. OwnerInv'
    BY <1>5 DEF UndescribedControl, OwnerInv, States, Live, Unregistered,
       Searches, SearchInv
  <2>2. PacketsRouted'
    BY <1>5 DEF UndescribedControl, PacketsRouted, States, Deletions, DeleteInv
  <2>3. QED
    BY <2>1, <2>2 DEF RouteInv
<1>6. CASE CreatePeer
  <2> DEFINE new == created + 1
  <2>0. PICK a \in search.todo \cap Described :
           /\ search.pc = "controls" /\ search.new = NoId
           /\ peer'[new].action = a
           /\ route' = Emplaced(route, new, StateOf[a])
           /\ search'.new = new
    BY <1>6, CreatePeerEffect
  <2>a. UNCHANGED <<byId, delete, deletes, torn>>
    BY <1>6 DEF CreatePeer
  <2>b. Live = byId /\ Live' = byId \cup {new}
    BY <2>0, <2>a DEF Live, Unregistered
  <2>c. \A u \in Uuids :
          route'[u] = IF u \in StateOf[a] /\ route[u] = NoId THEN new ELSE route[u]
    BY <2>0, Zenon DEF Emplaced
  <2>1. OwnerInv'
    BY <2>0, <2>a, <2>b, <2>c DEF OwnerInv, States
  <2>2. PacketsRouted'
    BY <2>a, <2>c DEF PacketsRouted, States
  <2>3. QED
    BY <2>1, <2>2 DEF RouteInv
<1>7. CASE RegisterPeer
  <2> DEFINE new == search.new
  <2>0. /\ search.pc = "register"
        /\ new \in 1 .. created /\ search'.new = NoId
        /\ byId' = byId \cup {new} /\ new \notin byId
    BY <1>7, RegisterPeerEffect DEF SearchInv
  <2>a. UNCHANGED <<peer, delete, deletes, torn>> /\ route' = Emplaced(route, new, States(new))
    BY <1>7 DEF RegisterPeer
  <2>b. Live' = Live /\ Live = byId \cup {new}
    BY <2>0 DEF Live, Unregistered
  <2>c. \A u \in Uuids :
          route'[u] = IF u \in States(new) /\ route[u] = NoId THEN new ELSE route[u]
    BY <2>a, Zenon DEF Emplaced
  <2>d. ASSUME ~torn, NEW i \in Live, NEW j \in Live, NEW u \in States(i), u \in States(j)
        PROVE  i = j
    <3>1. phase # "down"
      BY <2>0 DEF PhaseInv, Searching
    <3>2. peer[i].action \in Actions /\ peer[j].action \in Actions
      BY DEF PeerInv
    <3>3. peer[i].action = peer[j].action
      BY <2>d, <3>2, StatesAssumption DEF States
    <3>4. i \in db \ Leaving /\ j \in db \ Leaving
      BY <2>d, <3>1 DEF StoredInv
    <3>5. QED
      BY <2>d, <3>3, <3>4 DEF StoredInv
  <2>1. OwnerInv'
    BY <2>0, <2>a, <2>b, <2>c DEF OwnerInv, States
  <2>2. PacketsRouted'
    <3>1. SUFFICES ASSUME ~torn, NEW id \in byId' \ {delete.id}, NEW u \in States(id)
                   PROVE  \/ route'[u] = id
                          \/ route'[u] \notin byId' \cup {NoId} /\ deletes # 0
      BY <2>a DEF PacketsRouted, States
    <3>2. u \in Uuids
      BY <2>0, <3>1
    <3>3. CASE id = new
      <4>1. CASE route[u] = NoId
        BY <2>c, <3>1, <3>2, <3>3, <4>1
      <4>2. CASE route[u] # NoId
        <5>1. route'[u] = route[u] /\ u \in States(route[u])
          BY <2>c, <3>2, <4>2 DEF OwnerInv
        <5>2. route[u] \in Live => route[u] = new
          BY <2>b, <2>d, <3>1, <3>3, <5>1
        <5>3. route[u] # new => deletes # 0
          BY <3>1, <3>2, <4>2, <5>2 DEF OwnerInv
        <5>4. QED
          BY <2>0, <2>b, <3>3, <4>2, <5>1, <5>2, <5>3
      <4>3. QED
        BY <4>1, <4>2
    <3>4. CASE id \in byId
      <4>1. route[u] = id \/ (route[u] \notin byId \cup {NoId} /\ deletes # 0)
        BY <3>1, <3>4 DEF PacketsRouted
      <4>2. route'[u] = route[u] /\ route[u] # NoId
        BY <2>0, <2>c, <3>2, <3>4, <4>1
      <4>3. route[u] # new
        <5>1. SUFFICES ASSUME route[u] = new PROVE FALSE
          OBVIOUS
        <5>2. u \in States(new)
          BY <3>2, <4>2, <5>1 DEF OwnerInv
        <5>3. id = new
          BY <2>b, <2>d, <3>1, <3>4, <5>2
        <5>4. QED
          BY <2>0, <3>4, <5>3
      <4>4. QED
        BY <2>0, <4>1, <4>2, <4>3
    <3>5. QED
      BY <2>0, <3>3, <3>4
  <2>3. QED
    BY <2>1, <2>2 DEF RouteInv
<1>8. CASE SearchEnds
  <2>0. UNCHANGED <<byId, route, deletes, torn>>
    BY <1>8 DEF SearchEnds
  <2>a. Unregistered = {} /\ Unregistered' = {}
    BY <1>8 DEF SearchEnds, Unregistered, Searching, SearchInv
  <2>b. Live' = Live
    BY <2>0, <2>a DEF Live
  <2>1. OwnerInv'
    BY <2>0, <2>b DEF OwnerInv, States
  <2>2. PacketsRouted'
    BY <1>8 DEF SearchEnds, Searching, PacketsRouted, States, Deletions,
       DeleteInv
  <2>3. QED
    BY <2>1, <2>2 DEF RouteInv
<1>9. CASE DeleteBegins
  <2>1. OwnerInv'
    BY <1>9 DEF DeleteBegins, OwnerInv, States, Live, Unregistered, Searches,
       SearchInv
  <2>2. PacketsRouted'
    <3>1. delete.id = NoId /\ NoId \notin byId
      BY <1>9 DEF DeleteBegins, DeleteInv
    <3>2. deletes' # 0 /\ UNCHANGED <<peer, byId, route, torn>>
      BY <1>9 DEF DeleteBegins
    <3>3. QED
      BY <3>1, <3>2 DEF PacketsRouted, States
  <2>3. QED
    BY <2>1, <2>2 DEF RouteInv
<1>10. CASE EraseRoutes
  <2>1. OwnerInv'
    BY <1>10 DEF EraseRoutes, OwnerInv, States, Live, Unregistered, Searches,
       SearchInv
  <2>2. PacketsRouted'
    BY <1>10 DEF EraseRoutes, PacketsRouted, States, Deletions, DeleteInv
  <2>3. QED
    BY <2>1, <2>2 DEF RouteInv
<1>11. CASE Unregister
  <2>0. deletes # 0 /\ UNCHANGED <<peer, route, deletes>>
    BY <1>11 DEF Unregister, DeleteInv
  <2>1. OwnerInv'
    BY <2>0 DEF OwnerInv, States
  <2>2. PacketsRouted'
    BY <1>11 DEF Unregister, PacketsRouted, States, Deletions, DeleteInv
  <2>3. QED
    BY <2>1, <2>2 DEF RouteInv
<1>12. CASE PeerReleased
  <2>1. OwnerInv'
    BY <1>12 DEF PeerReleased, DeleteRows, Deleting, OwnerInv, States, Live,
       Unregistered, Searches, SearchInv
  <2>2. PacketsRouted'
    BY <1>12 DEF PeerReleased, DeleteRows, Deleting, PacketsRouted, States,
       Deletions, DeleteInv
  <2>3. QED
    BY <2>1, <2>2 DEF RouteInv
<1>13. CASE WaitGivesUp
  <2>1. OwnerInv'
    BY <1>13 DEF WaitGivesUp, DeleteRows, Deleting, OwnerInv, States, Live,
       Unregistered, Searches, SearchInv
  <2>2. PacketsRouted'
    BY <1>13 DEF WaitGivesUp, DeleteRows, Deleting, PacketsRouted, States,
       Deletions, DeleteInv
  <2>3. QED
    BY <2>1, <2>2 DEF RouteInv
<1>14. CASE PacketArrives
  <2>1. OwnerInv'
    BY <1>14 DEF PacketArrives, OwnerInv, States, Live, Unregistered, Searches,
       SearchInv
  <2>2. PacketsRouted'
    BY <1>14 DEF PacketArrives, PacketsRouted, States, Deletions, DeleteInv
  <2>3. QED
    BY <2>1, <2>2 DEF RouteInv
<1>15. CASE ReadRoute
  <2>1. OwnerInv'
    BY <1>15 DEF ReadRoute, Listening, OwnerInv, States, Live, Unregistered,
       Searches, SearchInv
  <2>2. PacketsRouted'
    BY <1>15 DEF ReadRoute, Listening, PacketsRouted, States, Deletions,
       DeleteInv
  <2>3. QED
    BY <2>1, <2>2 DEF RouteInv
<1>16. CASE GetPeer
  <2>1. OwnerInv'
    BY <1>16 DEF GetPeer, Listening, OwnerInv, States, Live, Unregistered,
       Searches, SearchInv
  <2>2. PacketsRouted'
    BY <1>16 DEF GetPeer, Listening, PacketsRouted, States, Deletions, DeleteInv
  <2>3. QED
    BY <2>1, <2>2 DEF RouteInv
<1>17. CASE HandlePacket
  <2>1. OwnerInv'
    BY <1>17 DEF HandlePacket, Listening, OwnerInv, States, Live, Unregistered,
       Searches, SearchInv
  <2>2. PacketsRouted'
    BY <1>17 DEF HandlePacket, Listening, PacketsRouted, States, Deletions,
       DeleteInv
  <2>3. QED
    BY <2>1, <2>2 DEF RouteInv
<1>18. CASE Crash
  <2>1. OwnerInv'
    BY <1>18 DEF Crash, Volatile, Searching, Deleting, Listening, OwnerInv,
       States, Live, Unregistered, Searches, SearchInv
  <2>2. PacketsRouted'
    BY <1>18 DEF Crash, Volatile, Searching, Deleting, Listening, PacketsRouted,
       States, Deletions, DeleteInv
  <2>3. QED
    BY <2>1, <2>2 DEF RouteInv
<1>19. CASE LoadPeers
  <2>a. /\ byId' = db /\ delete = Deleting /\ delete' = Deleting
        /\ route' = Mapped(db) /\ torn' = torn
    BY <1>19 DEF LoadPeers, PhaseInv
  <2>b. \A u \in Uuids :
          \/ Mapped(db)[u] = NoId /\ \A id \in db : u \notin States(id)
          \/ Mapped(db)[u] \in db /\ u \in States(Mapped(db)[u])
    <3>1. created \in Nat /\ db \subseteq 1 .. created
      OBVIOUS
    <3>2. QED
      BY ONLY <3>1, MappedOwner
  <2>c. \A id \in db : States(id)' = States(id)
    BY DEF States
  <2>1. OwnerInv'
    BY <2>a, <2>b, <2>c DEF OwnerInv, Live
  <2>2. PacketsRouted'
    <3>1. SUFFICES ASSUME ~torn, NEW id \in db, NEW u \in States(id)
                   PROVE  Mapped(db)[u] = id
      BY <2>a, <2>c DEF PacketsRouted
    <3>2. u \in Uuids
      OBVIOUS
    <3>3. Mapped(db)[u] \in db /\ u \in States(Mapped(db)[u])
      BY <2>b, <3>2
    <3>4. peer[Mapped(db)[u]].action = peer[id].action
      BY <3>3, StatesAssumption DEF States, PeerInv
    <3>5. Leaving = {}
      BY <2>a DEF Leaving, Deleting
    <3>6. QED
      BY <3>1, <3>3, <3>4, <3>5 DEF StoredInv
  <2>3. QED
    BY <2>1, <2>2 DEF RouteInv
<1>20. CASE HomegearStarted
  <2>1. OwnerInv'
    BY <1>20 DEF HomegearStarted, OwnerInv, States, Live, Unregistered,
       Searches, SearchInv
  <2>2. PacketsRouted'
    BY <1>20 DEF HomegearStarted, PacketsRouted, States, Deletions, DeleteInv
  <2>3. QED
    BY <2>1, <2>2 DEF RouteInv
<1>21. CASE UNCHANGED vars
  <2>1. OwnerInv'
    BY <1>21 DEF vars, OwnerInv, States, Live, Unregistered, Searches, SearchInv
  <2>2. PacketsRouted'
    BY <1>21 DEF vars, PacketsRouted, States, Deletions, DeleteInv
  <2>3. QED
    BY <2>1, <2>2 DEF RouteInv
<1>22. QED
  BY <1>1, <1>2, <1>3, <1>4, <1>5, <1>6, <1>7, <1>8, <1>9, <1>10, <1>11,
     <1>12, <1>13, <1>14, <1>15, <1>16, <1>17, <1>18, <1>19, <1>20, <1>21
  DEF Next, SearchStep, DeleteStep, ListenStep
-----------------------------------------------------------------------------
(* Layer 5 *)

(* Every step writes rows only of peers that stay in the table, as long as
   no thread uses a peer for longer than deletePeer waits. *)
LEMMA RowsStep == ControlInv /\ RowsInv /\ [Next]_vars => RowsInv'
<1> SUFFICES ASSUME ControlInv, RowsInv, [Next]_vars PROVE RowsInv'
  OBVIOUS
<1>0. /\ PhaseInv /\ SearchInv /\ DeleteInv /\ RowsInv
      /\ search \in Searches /\ delete \in Deletions /\ listen \in Packets
  BY DEF ControlInv, TypeOK
<1> USE <1>0 DEF registry, stored, history, counts
<1>1. CASE SearchBegins
  BY <1>1 DEF SearchBegins, RowsInv, Unregistered, Searches, Packets, SearchInv,
     DeleteInv, HeldByOthers
<1>2. CASE VersionArrives
  BY <1>2 DEF VersionArrives, RowsInv, Unregistered, Searches, Packets,
     SearchInv, DeleteInv, HeldByOthers
<1>3. CASE FileArrives
  <2>0. search'.known = byId /\ search'.new = NoId /\ search'.made = {}
    BY <1>3, FileArrivesEffect
  <2>1. QED
    BY <1>3, <2>0 DEF FileArrives, RowsInv, Unregistered
<1>4. CASE KnownControl
  <2>0. PICK id \in search.known :
           /\ search'.new = search.new
           /\ search'.known = search.known \ {id} /\ search'.made = search.made
           /\ rows' = rows \cup {id}
    BY <1>4, KnownControlSearch
  <2>1. QED
    BY <1>4, <2>0 DEF KnownControl, RowsInv, Unregistered
<1>5. CASE UndescribedControl
  BY <1>5 DEF UndescribedControl, RowsInv, Unregistered, Searches, Packets,
     SearchInv, DeleteInv, HeldByOthers
<1>6. CASE CreatePeer
  <2>0. /\ search'.new = created + 1
        /\ search'.known = search.known /\ search'.made = search.made
    BY <1>6, CreatePeerEffect
  <2>1. QED
    BY <1>6, <2>0 DEF CreatePeer, RowsInv, Unregistered
<1>7. CASE RegisterPeer
  <2>0. /\ search.pc = "register" /\ search'.new = NoId
        /\ search'.known = search.known
        /\ search'.made = search.made \cup {search.new}
        /\ search.new \in 1 .. created /\ byId' = byId \cup {search.new}
    BY <1>7, RegisterPeerEffect
  <2>1. QED
    BY <1>7, <2>0 DEF RegisterPeer, RowsInv, Unregistered
<1>8. CASE SearchEnds
  BY <1>8 DEF SearchEnds, Searching, RowsInv, Unregistered, Searches, Packets,
     SearchInv, DeleteInv, HeldByOthers
<1>9. CASE DeleteBegins
  BY <1>9 DEF DeleteBegins, RowsInv, Unregistered, Searches, Packets, SearchInv,
     DeleteInv, HeldByOthers
<1>10. CASE EraseRoutes
  BY <1>10 DEF EraseRoutes, RowsInv, Unregistered, Searches, Packets, SearchInv,
     DeleteInv, HeldByOthers
<1>11. CASE Unregister
  BY <1>11 DEF Unregister, RowsInv, Unregistered, Searches, Packets, SearchInv,
     DeleteInv, HeldByOthers
<1>12. CASE PeerReleased
  BY <1>12 DEF PeerReleased, DeleteRows, Deleting, RowsInv, Unregistered,
     Searches, Packets, SearchInv, DeleteInv, HeldByOthers
<1>13. CASE WaitGivesUp
  BY <1>13 DEF WaitGivesUp, DeleteRows, Deleting, RowsInv, Unregistered,
     Searches, Packets, SearchInv, DeleteInv, HeldByOthers
<1>14. CASE PacketArrives
  BY <1>14 DEF PacketArrives, RowsInv, Unregistered, Searches, Packets,
     SearchInv, DeleteInv, HeldByOthers
<1>15. CASE ReadRoute
  BY <1>15 DEF ReadRoute, Listening, RowsInv, Unregistered, Searches, Packets,
     SearchInv, DeleteInv, HeldByOthers
<1>16. CASE GetPeer
  BY <1>16 DEF GetPeer, Listening, RowsInv, Unregistered, Searches, Packets,
     SearchInv, DeleteInv, HeldByOthers
<1>17. CASE HandlePacket
  BY <1>17 DEF HandlePacket, Listening, RowsInv, Unregistered, Searches,
     Packets, SearchInv, DeleteInv, HeldByOthers
<1>18. CASE Crash
  BY <1>18 DEF Crash, Volatile, Searching, Deleting, Listening, RowsInv,
     Unregistered, Searches, Packets, SearchInv, DeleteInv, HeldByOthers
<1>19. CASE LoadPeers
  BY <1>19 DEF LoadPeers, RowsInv, Unregistered, Searches, Packets, SearchInv,
     DeleteInv, HeldByOthers
<1>20. CASE HomegearStarted
  BY <1>20 DEF HomegearStarted, RowsInv, Unregistered, Searches, Packets,
     SearchInv, DeleteInv, HeldByOthers
<1>21. CASE UNCHANGED vars
  BY <1>21 DEF vars, RowsInv, Unregistered, Searches, Packets, SearchInv,
     DeleteInv, HeldByOthers
<1>22. QED
  BY <1>1, <1>2, <1>3, <1>4, <1>5, <1>6, <1>7, <1>8, <1>9, <1>10, <1>11,
     <1>12, <1>13, <1>14, <1>15, <1>16, <1>17, <1>18, <1>19, <1>20, <1>21
  DEF Next, SearchStep, DeleteStep, ListenStep

(* A registered peer is marked or has been heard of, whatever is done. *)
LEMMA HeardStep == ControlInv /\ HeardSinceStart /\ [Next]_vars => HeardSinceStart'
<1> SUFFICES ASSUME ControlInv, HeardSinceStart, [Next]_vars PROVE HeardSinceStart'
  OBVIOUS
<1>0. /\ PhaseInv /\ SearchInv /\ ListenInv /\ HeardSinceStart
      /\ peer \in [Ids -> Peers]
  BY DEF ControlInv, TypeOK
<1>a. byId \subseteq 1 .. created /\ created \in Nat /\ 1 .. created \subseteq Ids
  BY LiveIds
<1> USE <1>0, <1>a DEF registry, stored, history, counts
<1>1. CASE SearchBegins
  BY <1>1 DEF SearchBegins, HeardSinceStart, PhaseInv, Peers
<1>2. CASE VersionArrives
  BY <1>2 DEF VersionArrives, HeardSinceStart, PhaseInv, Peers
<1>3. CASE FileArrives
  BY <1>3 DEF FileArrives, HeardSinceStart, PhaseInv, Peers
<1>4. CASE KnownControl
  <2>1. PICK a \in search.todo, id \in search.known :
           /\ peer' = [peer EXCEPT ![id] = Refreshed(id, a)]
           /\ heard' = heard \cup {id}
    BY <1>4, KnownControlEffect
  <2>2. QED
    BY <1>4, <2>1 DEF KnownControl, HeardSinceStart
<1>5. CASE UndescribedControl
  BY <1>5 DEF UndescribedControl, HeardSinceStart, PhaseInv, Peers
<1>6. CASE CreatePeer
  <2>1. \A j \in 1 .. created : peer'[j] = peer[j]
    BY <1>6, CreatePeerEffect
  <2>2. QED
    BY <1>6, <2>1 DEF CreatePeer, HeardSinceStart
<1>7. CASE RegisterPeer
  BY <1>7 DEF RegisterPeer, HeardSinceStart, PhaseInv, Peers
<1>8. CASE SearchEnds
  BY <1>8 DEF SearchEnds, Searching, HeardSinceStart, PhaseInv, Peers
<1>9. CASE DeleteBegins
  BY <1>9 DEF DeleteBegins, HeardSinceStart, PhaseInv, Peers
<1>10. CASE EraseRoutes
  BY <1>10 DEF EraseRoutes, HeardSinceStart, PhaseInv, Peers
<1>11. CASE Unregister
  BY <1>11 DEF Unregister, HeardSinceStart, PhaseInv, Peers
<1>12. CASE PeerReleased
  BY <1>12 DEF PeerReleased, DeleteRows, Deleting, HeardSinceStart, PhaseInv,
     Peers
<1>13. CASE WaitGivesUp
  BY <1>13 DEF WaitGivesUp, DeleteRows, Deleting, HeardSinceStart, PhaseInv,
     Peers
<1>14. CASE PacketArrives
  BY <1>14 DEF PacketArrives, HeardSinceStart, PhaseInv, Peers
<1>15. CASE ReadRoute
  BY <1>15 DEF ReadRoute, Listening, HeardSinceStart, PhaseInv, Peers
<1>16. CASE GetPeer
  BY <1>16 DEF GetPeer, Listening, HeardSinceStart, PhaseInv, Peers
<1>17. CASE HandlePacket
  BY <1>17 DEF HandlePacket, Listening, HeardSinceStart, PhaseInv, Peers
<1>18. CASE Crash
  BY <1>18 DEF Crash, Volatile, Searching, Deleting, Listening, HeardSinceStart,
     PhaseInv, Peers
<1>19. CASE LoadPeers
  BY <1>19 DEF LoadPeers, HeardSinceStart, PhaseInv, Peers
<1>20. CASE HomegearStarted
  BY <1>20 DEF HomegearStarted, HeardSinceStart, PhaseInv, Peers
<1>21. CASE UNCHANGED vars
  BY <1>21 DEF vars, HeardSinceStart, PhaseInv, Peers
<1>22. QED
  BY <1>1, <1>2, <1>3, <1>4, <1>5, <1>6, <1>7, <1>8, <1>9, <1>10, <1>11,
     <1>12, <1>13, <1>14, <1>15, <1>16, <1>17, <1>18, <1>19, <1>20, <1>21
  DEF Next, SearchStep, DeleteStep, ListenStep

-----------------------------------------------------------------------------
(* The specification *)

(* IInv holds when the process starts for the first time. *)
LEMMA IInvInit == Init => IInv
<1> SUFFICES ASSUME Init PROVE IInv
  OBVIOUS
<1> USE DEF Init, Searching, Deleting, Listening
<1>1. TypeOK
  <2>1. search \in Searches /\ delete \in Deletions /\ listen \in Packets
    BY DEF Searches, Deletions, Packets
  <2>2. peer \in [Ids -> Peers]
    BY DEF NoPeer, Peers
  <2>3. /\ 0 \in 0 .. 0 /\ 0 \in 0 .. MaxPeers
        /\ 0 \in 0 .. MaxCrashes /\ 0 \in 0 .. MaxDeletes
    OBVIOUS
  <2>4. /\ bySerial \in [Serials -> 0 .. created]
        /\ route \in [Uuids -> 0 .. created]
    BY <2>3
  <2>5. QED
    BY <2>1, <2>2, <2>3, <2>4 DEF TypeOK
<1>2. PhaseInv /\ PeerInv /\ SearchInv /\ DeleteInv /\ ListenInv
  BY DEF PhaseInv, PeerInv, SearchInv, DeleteInv, ListenInv, InSearch
<1>3. SerialInv /\ IndexesAgree /\ StoredInv /\ HandledInv
  BY DEF SerialInv, IndexesAgree, StoredInv, HandledInv, InSearch, Live,
         Unregistered, Leaving
<1>4. KnownInv /\ ServedInv /\ OwnerInv /\ PacketsRouted /\ RowsInv /\ HeardSinceStart
  BY DEF KnownInv, ServedInv, OwnerInv, PacketsRouted, RowsInv, HeardSinceStart,
         InSearch, Unregistered
<1>5. QED
  BY <1>1, <1>2, <1>3, <1>4 DEF IInv, ControlInv, IndexInv, SettleInv, RouteInv

(* IInv is inductive. *)
LEMMA IInvStep == IInv /\ [Next]_vars => IInv'
  BY ControlStep, IndexStep, SettleStep, RouteStep, RowsStep, HeardStep DEF IInv

(* IInv holds in every state of a behavior. *)
LEMMA Invariant == Spec => []IInv
  BY IInvInit, IInvStep, PTL DEF Spec

(* Every variable of Central keeps its type, whatever the threads do and
   whenever the process crashes. *)
THEOREM TypeCorrect == Spec => []TypeOK
<1>1. IInv => TypeOK
  BY DEF IInv, ControlInv
<1>2. QED
  BY <1>1, Invariant, PTL

(* The two indexes of the registry hold the same peers, although searchDevices
   picks a serial number without the lock and deletePeer runs at the same
   time. *)
THEOREM IndexesStayInStep == Spec => []IndexesAgree
<1>1. IInv => IndexesAgree
  BY DEF IInv, IndexInv
<1>2. QED
  BY <1>1, Invariant, PTL

(* No control of the Miniserver gets a second registered peer. *)
THEOREM ControlsHaveOnePeer == Spec => []OnePeerPerControl
<1>1. IInv => OnePeerPerControl
  <2> SUFFICES ASSUME IInv, ~torn, NEW i \in byId, NEW j \in byId,
                      peer[i].action = peer[j].action
               PROVE  i = j
    BY DEF OnePeerPerControl
  <2>1. PhaseInv /\ StoredInv
    BY DEF IInv, ControlInv, IndexInv
  <2>2. phase # "down"
    BY <2>1 DEF PhaseInv
  <2>3. i \in db \ Leaving /\ j \in db \ Leaving
    BY <2>1, <2>2 DEF StoredInv, Live
  <2>4. QED
    BY <2>1, <2>3 DEF StoredInv
<1>2. QED
  BY <1>1, Invariant, PTL

(* A packet for a state of a registered peer reaches this peer; once peers
   have been deleted it may reach a peer that is gone, but never another one
   that is registered. *)
THEOREM PacketsReachTheirPeer == Spec => []PacketsRouted
<1>1. IInv => PacketsRouted
  BY DEF IInv, RouteInv
<1>2. QED
  BY <1>1, Invariant, PTL

(* Nothing that still uses a peer while it is deleted leaves rows behind. *)
THEOREM RowsHaveTheirPeer == Spec => []NoOrphanRows
<1>1. IInv => NoOrphanRows
  BY DEF IInv, RowsInv, NoOrphanRows
<1>2. QED
  BY <1>1, Invariant, PTL

(* A peer that is not marked unreachable has been heard of since the start. *)
THEOREM ReachablePeersWereHeard == Spec => []HeardSinceStart
<1>1. IInv => HeardSinceStart
  BY DEF IInv
<1>2. QED
  BY <1>1, Invariant, PTL

(* A search that ends has marked the peers whose control is gone and no
   others, and every described control has a peer. *)
THEOREM SearchesSettleAll == Spec => SearchesSettle
<1>1. IInv => Settles
  <2> SUFFICES ASSUME IInv, SearchEnds, ~torn
               PROVE  /\ \A id \in byId :
                           peer'[id].unreach <=> search.file[peer[id].action] = Absent
                      /\ \A a \in Described :
                           search.file[a] # Absent =>
                             \E id \in byId \cup removed : peer[id].action = a
    BY DEF Settles
  <2>1. /\ ControlInv /\ SearchInv /\ HandledInv /\ KnownInv /\ ServedInv
        /\ peer \in [Ids -> Peers]
    BY DEF IInv, ControlInv, IndexInv, SettleInv, TypeOK
  <2>2. /\ search.pc = "controls" /\ search.todo = {} /\ search.new = NoId
        /\ peer' = [id \in Ids |->
             IF id \in search.known THEN [peer[id] EXCEPT !.unreach = TRUE]
                                    ELSE peer[id]]
    BY <2>1 DEF SearchEnds, SearchInv
  <2>3. ASSUME NEW id \in byId
        PROVE  peer'[id].unreach <=> search.file[peer[id].action] = Absent
    <3>1. id \in Ids
      BY <2>1, LiveIds
    <3>2. CASE id \in search.known
      <4>1. peer'[id].unreach = TRUE
        BY <2>1, <2>2, <3>1, <3>2 DEF Peers
      <4>2. search.file[peer[id].action] = Absent
        BY <2>1, <2>2, <3>2 DEF KnownInv, InSearch
      <4>3. QED
        BY <4>1, <4>2
    <3>3. CASE id \notin search.known
      <4>1. peer'[id] = peer[id]
        BY <2>2, <3>1, <3>3
      <4>2. ~peer[id].unreach /\ search.file[peer[id].action] # Absent
        BY <2>1, <2>2, <3>3 DEF HandledInv, InSearch
      <4>3. QED
        BY <4>1, <4>2
    <3>4. QED
      BY <3>2, <3>3
  <2>4. ASSUME NEW a \in Described, search.file[a] # Absent
        PROVE  \E id \in byId \cup removed : peer[id].action = a
    BY <2>1, <2>2, <2>4 DEF ServedInv, InSearch, Live, Unregistered
  <2>5. QED
    BY <2>3, <2>4
<1>2. IInv /\ [Next]_vars => [Settles]_vars
  BY <1>1
<1>3. QED
  BY <1>2, Invariant, PTL DEF Spec, SearchesSettle
=============================================================================
