------------------------------ MODULE PeerStore ------------------------------
(***************************************************************************)
(* How a peer keeps its control in the database: LoxoneControl and its     *)
(* subclasses, createInstance, saveVariables and load of LoxonePeer, and   *)
(* the part of LoxoneLoxApp3 that makes controls of a structure file.      *)
(*                                                                         *)
(* A control is saved as rows under fixed numbers: the fields below 121,   *)
(* the details from 121, the states from 201.  saveVariables() only queues *)
(* the rows; the database thread writes them one at a time and REPLACEs a  *)
(* row that has the same number.  No row is ever deleted, so the rows of a *)
(* control with fewer states or details are mixed with older ones, and a   *)
(* crash can leave any prefix of the queue written.                        *)
(***************************************************************************)
EXTENDS Integers, Sequences, FiniteSets, SequencesExt

CONSTANTS
  Uuid,        \* the uuidAction of the peer's control
  Entries,     \* what a structure file can say of this control
  Rooms,       \* rooms[uuid]: the names of the rooms in a structure file
  NoRoom,      \* "noRoom"
  Interfaces,  \* ids of interfaces
  Default,     \* GD::defaultPhysicalInterface, of no id here
  None,        \* no control, no row, no field
  MaxSaves,    \* bound: searches that update the peer
  MaxCrashes   \* bound: ends of the process

\* An entry has a type, the uuid of a room (or None), the name of the parent's
\* room if it is a sub control (or None), its states (uuid -> variable) and
\* its details (name -> value).
EntriesAssumption ==
  \A e \in Entries :
    /\ DOMAIN e = {"type", "room", "parent", "states", "details"}
    /\ IsFiniteSet(DOMAIN e.states) /\ Cardinality(DOMAIN e.states) <= 100
    /\ IsFiniteSet(DOMAIN e.details) /\ Cardinality(DOMAIN e.details) <= 80

BoundsAssumption == MaxSaves \in Nat /\ MaxCrashes \in Nat

-----------------------------------------------------------------------------
(* createInstance: the class and number of a type                          *)

\* createInstanceFromTypeString: the types that are plain LoxoneControls.
Plain ==
  [Dimmer |-> 258, LightControllerV2 |-> 259, Jalousie |-> 260, Gate |-> 263,
   InfoOnlyAnalog |-> 264, InfoOnlyDigital |-> 265, LightController |-> 272,
   Alarm |-> 512, MediaClient |-> 513, AlarmClock |-> 514, Heatmixer |-> 516,
   Hourcounter |-> 517, ClimateController |-> 768, IRoomControllerV2 |-> 769,
   IRoomController |-> 770, AalEmergency |-> 1024, AalSmartAlarm |-> 1025,
   CarCharger |-> 1026, FanController |-> 1027, EnergyMonitor |-> 1028,
   Irrigation |-> 1029, Intercom |-> 1285, IntercomV2 |-> 1286]

\* The types with a class of their own, and the numbers their constructors
\* pass on.
Special ==
  [Pushbutton |-> <<"Pushbutton", 256>>, Switch |-> <<"Pushbutton", 256>>,
   Slider |-> <<"Slider", 257>>, ColorPickerV2 |-> <<"ColorPicker", 261>>,
   ColorPicker |-> <<"ColorPicker", 261>>, Daytimer |-> <<"Daytimer", 515>>,
   IRCV2Daytimer |-> <<"Daytimer", 515>>,
   CentralAlarm |-> <<"Central", 1280>>, CentralAudioZone |-> <<"Central", 1281>>,
   CentralGate |-> <<"Central", 1282>>, CentralJalousie |-> <<"Central", 1283>>,
   CentralLightController |-> <<"Central", 1284>>,
   NFCCodeTouch |-> <<"NFCCodeTouch", 1287>>]

Types == DOMAIN Plain \cup DOMAIN Special

ClassOf(type) ==
  IF type \in DOMAIN Special THEN Special[type][1] ELSE "LoxoneControl"
NumberOf(type) ==
  IF type \in DOMAIN Special THEN Special[type][2]
  ELSE IF type \in DOMAIN Plain THEN Plain[type] ELSE 1

(* Mutant of Numbers: the last of the central functions is left out. *)
NumbersShort ==
  [Pushbutton |-> {256}, Slider |-> {257}, ColorPicker |-> {261, 262},
   Daytimer |-> {515}, Central |-> 1280 .. 1283, NFCCodeTouch |-> {1287}]

\* createInstanceFromTypeNr: the numbers of the classes of their own.
Numbers ==
  [Pushbutton |-> {256}, Slider |-> {257}, ColorPicker |-> {261, 262},
   Daytimer |-> {515}, Central |-> 1280 .. 1284, NFCCodeTouch |-> {1287}]

ClassOfNumber(nr) ==
  IF \E c \in DOMAIN Numbers : nr \in Numbers[c]
  THEN CHOOSE c \in DOMAIN Numbers : nr \in Numbers[c]
  ELSE "LoxoneControl"

VARIABLES
  up,        \* the process runs and the peer is loaded
  control,   \* _control
  home,      \* _physicalInterfaceId
  attached,  \* _physicalInterface
  queue,     \* rows the database thread has still to write
  table,     \* the peer's rows in the database, by number
  last,      \* history: the entry saved last, unless a crash cut its rows
  ever,      \* history: all entries saved
  saves, crashes  \* bounded by MaxSaves and MaxCrashes

vars == <<up, control, home, attached, queue, table, last, ever, saves,
          crashes>>

-----------------------------------------------------------------------------
(* The control of a structure file, its rows, and the control of rows      *)

OwnRoom(e) == IF e.room \in DOMAIN Rooms THEN Rooms[e.room] ELSE NoRoom

\* The room of a sub control is its parent's.
RoomOf(e) == IF e.parent # None THEN e.parent ELSE OwnRoom(e)

FromEntry(e) ==
  [class |-> ClassOf(e.type), number |-> NumberOf(e.type), action |-> Uuid,
   room |-> RoomOf(e), states |-> e.states, details |-> e.details]

Row(i, key, value) == [index |-> i, key |-> key, value |-> value]

FieldRows(c) == << Row(103, "uuidAction", c.action),
                   Row(107, "room", c.room) >>

(* Mutant of FirstState: the states begin among the details. *)
FirstStateLow == 122

FirstState == 201

\* In the order of the hash table, whatever it is.
StateRows(c, order) ==
  [k \in DOMAIN order |-> Row(FirstState - 1 + k, c.states[order[k]], order[k])]

DetailRows(c, order) ==
  [k \in DOMAIN order |-> Row(120 + k, order[k], c.details[order[k]])]

(* Mutant of DataToSave: the states are queued before the fields. *)
StatesFirst(c, us, ds) ==
  StateRows(c, us) \o FieldRows(c) \o DetailRows(c, ds)

DataToSave(c, us, ds) ==
  FieldRows(c) \o StateRows(c, us) \o DetailRows(c, ds)

\* saveVariables()
Saved(c, us, ds) == << Row(19, "", home) >> \o DataToSave(c, us, ds)

(* Mutant of Wins: a later row replaces an earlier one. *)
LastWins(S) == Max(S)

\* Rows come in the order of their numbers and are emplaced.
Wins(S) == Min(S)

Field(i) == IF i \in DOMAIN table THEN table[i].value ELSE None

Action == Field(103)
Room == Field(107)

States ==
  LET rows == DOMAIN table \cap 201 .. 300
      of(u) == {i \in rows : table[i].value = u}
  IN  [u \in {table[i].value : i \in rows} |-> table[Wins(of(u))].key]

Details ==
  LET rows == DOMAIN table \cap 121 .. 200
      of(d) == {i \in rows : table[i].key = d}
  IN  [d \in {table[i].key : i \in rows} |-> table[Wins(of(d))].value]

\* The control of the rows of a peer, for a type number.
FromRows(nr) ==
  [class |-> ClassOfNumber(nr), number |-> nr, action |-> Action,
   room |-> Room, states |-> States, details |-> Details]

\* The constructor of a peer makes its control before loadVariables() reads
\* the type, which is 0 until then.
Restored == FromRows(0)

-----------------------------------------------------------------------------
(* Saving, writing and loading *)

\* createPeer() has made the peer and given it its interface.
Init ==
  /\ up = TRUE /\ control = None
  /\ home \in Interfaces /\ attached = home
  /\ queue = <<>> /\ table = <<>>
  /\ last = None /\ ever = {} /\ saves = 0 /\ crashes = 0

\* createPeer() and updatePeer(): the control of the structure file takes the
\* place of the old one, and save() queues its rows.
Update ==
  /\ up /\ saves < MaxSaves
  /\ \E e \in Entries :
       \E us \in SetToSeqs(DOMAIN e.states), ds \in SetToSeqs(DOMAIN e.details) :
         /\ control' = FromEntry(e)
         /\ queue' = queue \o Saved(FromEntry(e), us, ds)
         /\ last' = e /\ ever' = ever \cup {e}
  /\ saves' = saves + 1
  /\ UNCHANGED <<up, home, attached, table, crashes>>

\* INSERT OR REPLACE by the database thread.
WriteRow ==
  /\ up /\ queue # <<>>
  /\ LET r == Head(queue) IN
       table' = [i \in DOMAIN table \cup {r.index} |->
                   IF i = r.index THEN r ELSE table[i]]
  /\ queue' = Tail(queue)
  /\ UNCHANGED <<up, control, home, attached, last, ever, saves, crashes>>

\* Rows that are still queued are lost.  Without any, this is also what a
\* regular end of the process leaves.
Crash ==
  /\ up /\ saves > 0 /\ crashes < MaxCrashes
  /\ up' = FALSE /\ control' = None /\ attached' = None /\ home' = None
  /\ queue' = <<>>
  /\ last' = IF queue = <<>> THEN last ELSE None
  /\ crashes' = crashes + 1
  /\ UNCHANGED <<table, ever, saves>>

(* Mutant of Load: a peer whose interface is missing moves to the default. *)
LoadMoving ==
  /\ ~ up /\ up' = TRUE
  /\ control' = Restored
  /\ \E configured \in SUBSET Interfaces :
       LET id == Field(19) IN
       /\ home' = IF id \in configured THEN id ELSE Default
       /\ attached' = home'
  /\ UNCHANGED <<queue, table, last, ever, saves, crashes>>

\* The interface comes from row 19, if the configuration still has it.
Load ==
  /\ ~ up /\ up' = TRUE
  /\ control' = Restored
  /\ \E configured \in SUBSET Interfaces :
       LET id == Field(19) IN
       /\ home' = id
       /\ attached' = IF id \in configured THEN id ELSE Default
  /\ UNCHANGED <<queue, table, last, ever, saves, crashes>>

Next == Update \/ WriteRow \/ Crash \/ Load

Spec == Init /\ [][Next]_vars

-----------------------------------------------------------------------------
(* Properties *)

\* Every row of the queue and of the table has its number, and the queue
\* holds no row of a process that has ended; a running peer has a control.
TypeOK ==
  /\ up \in BOOLEAN /\ saves \in 0 .. MaxSaves /\ crashes \in 0 .. MaxCrashes
  /\ home \in Interfaces \cup {Default, None} /\ attached \in Interfaces \cup {Default, None}
  /\ DOMAIN table \subseteq {19, 103, 107} \cup 121 .. 300
  /\ \A i \in DOMAIN table : table[i].index = i
  /\ ever \subseteq Entries /\ last \in ever \cup {None}
  /\ ~ up => queue = <<>> /\ control = None
  /\ up /\ saves > 0 => control # None

\* Once the rows of a save are written, a restart gives back every state,
\* every detail and the room that the structure file had, whatever older
\* rows there are and however earlier saves were cut by crashes.
NothingLost ==
  last # None /\ queue = <<>> =>
    LET c == Restored IN
    /\ c.action = Uuid /\ c.room = RoomOf(last)
    /\ \A u \in DOMAIN last.states :
         u \in DOMAIN c.states /\ c.states[u] = last.states[u]
    /\ \A d \in DOMAIN last.details :
         d \in DOMAIN c.details /\ c.details[d] = last.details[d]

\* A mixture of old and new rows holds no state and no detail that no
\* structure file ever had.
NothingInvented ==
  LET c == Restored IN
  /\ \A u \in DOMAIN c.states :
       \E e \in ever : u \in DOMAIN e.states /\ e.states[u] = c.states[u]
  /\ \A d \in DOMAIN c.details :
       \E e \in ever : d \in DOMAIN e.details /\ e.details[d] = c.details[d]

\* A peer that is routed packets after a crash can also be found by a search:
\* whoever has states has the uuidAction a search compares.
StatesImplyIdentity ==
  DOMAIN States # {} => Action = Uuid

\* A peer never changes its interface, not even when it is saved while its
\* interface is missing from the configuration.
StaysHome == 19 \in DOMAIN table => table'[19].value = table[19].value
HomeKept == [][StaysHome]_vars

\* The number of a control leads back to its class, for every type.
NumbersAgree == control # None => ClassOfNumber(control.number) = control.class

\* createInstance.cpp:74, "Daytimer, IRCV2Daytimer.....": a control restored
\* from the rows has the class of its type.
RestoresClass == Load /\ last # None => control'.class = ClassOf(last.type)
ClassRestored == [][RestoresClass]_vars
=============================================================================
