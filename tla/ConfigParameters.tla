--------------------------- MODULE ConfigParameters ---------------------------
(***************************************************************************)
(* The configuration parameters of a peer: ROOM, CATEGORY, and EXTRA, one  *)
(* of those that show a detail of the control (channel 1) or a control of  *)
(* a central control (a channel of its own).  A search writes into them    *)
(* how the control is configured (saveConfig()), clients set them          *)
(* (putParamset()).  Each parameter is stored in memory and then saved, by *)
(* threads without a common lock; updateDevice events tell the clients to  *)
(* read them again.                                                        *)
(***************************************************************************)
EXTENDS Naturals, Sequences

CONSTANTS
  Clients,   \* threads that set parameters
  Searcher,  \* the thread of searchDevices()
  Values,
  Blank,     \* a parameter that was never written
  MaxSteps   \* bound: searches, calls, restarts and changes of the file

SearcherAssumption == Searcher \notin Clients
BlankAssumption == Blank \notin Values
BoundsAssumption == MaxSteps \in Nat

Threads == Clients \cup {Searcher}

Always == {"ROOM", "CATEGORY"}
Params == Always \cup {"EXTRA"}

\* What the structure file says of a control, which may lose its EXTRA; one
\* value stands for all that are written together.
Files == UNION { [Always -> {v}] \cup [Params -> {v}] : v \in Values }

VARIABLES
  central, \* it is a central control
  file,    \* the structure file
  control, \* what the control of the peer was built from
  mem, db, \* configCentral, and the rows of the database
  todo,    \* of each thread: the parameters it is to write, with values
  place,   \* of each thread
  steps,
  \* History:
  seen,    \* what clients read after the last event of the parameter's channel
  raced,   \* parameters two threads were about to save at once
  clients  \* parameters that clients wrote since the last search began

vars == <<central, file, control, mem, db, todo, place, steps, seen, raced, clients>>

Param(t) == Head(todo[t]).param
Writing(p) == {t \in Threads : place[t] = "save" /\ Param(t) = p}
Idle == \A t \in Threads : place[t] = "idle"

Channel(p) == IF central /\ p = "EXTRA" THEN 2 ELSE 1
Together(p) == {q \in Params : Channel(q) = Channel(p)}

Goes(t, to) == place' = [place EXCEPT ![t] = to]
Step == steps < MaxSteps /\ steps' = steps + 1

-----------------------------------------------------------------------------
\* What a search writes, in its order, and what a call does, in that of a map.
Row(p, value) == [param |-> p, value |-> value]
Rows(order, from) ==
  LET There(p) == IF p \in DOMAIN from THEN <<Row(p, from[p])>> ELSE <<>>
  IN There(order[1]) \o There(order[2]) \o There(order[3])

(* Mutant of SearchBegins: saveConfig() before the control is replaced. *)
SearchBeginsEarly ==
  /\ Step /\ place[Searcher] = "idle" /\ Goes(Searcher, "write")
  /\ control' = file /\ clients' = {}
  /\ todo' = [todo EXCEPT ![Searcher] = Rows(<<"ROOM", "CATEGORY", "EXTRA">>, control)]
  /\ UNCHANGED <<central, file, mem, db, seen, raced>>

\* updatePeer() with the control of a new structure file.
SearchBegins ==
  /\ Step /\ place[Searcher] = "idle" /\ Goes(Searcher, "write")
  /\ control' = file /\ clients' = {}
  /\ todo' = [todo EXCEPT ![Searcher] = Rows(<<"ROOM", "CATEGORY", "EXTRA">>, file)]
  /\ UNCHANGED <<central, file, mem, db, seen, raced>>

\* Parameters of one channel.
ParamSets == {params \in UNION {SUBSET Together(p) : p \in Params} : params # {}}

PutParamset(c, params) ==
  /\ Step /\ place[c] = "idle" /\ Goes(c, "write")
  /\ \E value \in Values :
       todo' = [todo EXCEPT ![c] =
                  Rows(<<"CATEGORY", "EXTRA", "ROOM">>, [p \in params |-> value])]
  /\ UNCHANGED <<central, file, control, mem, db, seen, raced, clients>>

SetBinaryData(t) ==
  /\ place[t] = "write" /\ Goes(t, "save")
  /\ mem' = [mem EXCEPT ![Param(t)] = Head(todo[t]).value]
  /\ raced' = IF Writing(Param(t)) = {} THEN raced \ {Param(t)} ELSE raced \cup {Param(t)}
  /\ clients' = IF t = Searcher THEN clients ELSE clients \cup {Param(t)}
  /\ UNCHANGED <<central, file, control, db, todo, steps, seen>>

(* Mutant of SaveParameter: a row that is there is not replaced. *)
SaveParameterOnce(t) ==
  /\ place[t] = "save"
  /\ db' = [db EXCEPT ![Param(t)] = IF @ = Blank THEN Head(todo[t]).value ELSE @]
  /\ IF t = Searcher \/ Len(todo[t]) = 1 THEN Goes(t, "raise") /\ UNCHANGED todo
     ELSE Goes(t, "write") /\ todo' = [todo EXCEPT ![t] = Tail(@)]
  /\ UNCHANGED <<central, file, control, mem, steps, seen, raced, clients>>

\* A search raises an event for each parameter, a call one at its end.
SaveParameter(t) ==
  /\ place[t] = "save"
  /\ db' = [db EXCEPT ![Param(t)] = Head(todo[t]).value]
  /\ IF t = Searcher \/ Len(todo[t]) = 1 THEN Goes(t, "raise") /\ UNCHANGED todo
     ELSE Goes(t, "write") /\ todo' = [todo EXCEPT ![t] = Tail(@)]
  /\ UNCHANGED <<central, file, control, mem, steps, seen, raced, clients>>

(* Mutant of RaiseUpdateDevice: a search raises no events. *)
RaiseUpdateDeviceNot(t) ==
  /\ place[t] = "raise"
  /\ seen' = IF t = Searcher THEN seen
             ELSE [p \in Params |-> IF p \in Together(Param(t)) THEN mem[p] ELSE seen[p]]
  /\ todo' = [todo EXCEPT ![t] = Tail(@)]
  /\ Goes(t, IF Len(todo[t]) = 1 THEN "idle" ELSE "write")
  /\ UNCHANGED <<central, file, control, mem, db, steps, raced, clients>>

RaiseUpdateDevice(t) ==
  /\ place[t] = "raise"
  /\ seen' = [p \in Params |-> IF p \in Together(Param(t)) THEN mem[p] ELSE seen[p]]
  /\ todo' = [todo EXCEPT ![t] = Tail(@)]
  /\ Goes(t, IF Len(todo[t]) = 1 THEN "idle" ELSE "write")
  /\ UNCHANGED <<central, file, control, mem, db, steps, raced, clients>>

-----------------------------------------------------------------------------
FileChanges ==
  /\ Step /\ file' \in Files \ {file}
  /\ UNCHANGED <<central, control, mem, db, todo, place, seen, raced, clients>>

\* loadConfig(); the clients read everything again.
Restart ==
  /\ Step /\ mem' = db /\ seen' = db /\ raced' = {} /\ clients' = Params
  /\ todo' = [t \in Threads |-> <<>>] /\ place' = [t \in Threads |-> "idle"]
  /\ UNCHANGED <<central, file, control, db>>

\* A peer that was created, and saved, with the control of the file.
Init ==
  /\ central \in BOOLEAN /\ file \in Files /\ control = file
  /\ mem = [p \in Params |-> IF p \in DOMAIN file THEN file[p] ELSE Blank]
  /\ db = mem /\ seen = mem
  /\ todo = [t \in Threads |-> <<>>] /\ place = [t \in Threads |-> "idle"]
  /\ steps = 0 /\ raced = {} /\ clients = {}

Next ==
  \/ SearchBegins
  \/ \E c \in Clients, params \in ParamSets : PutParamset(c, params)
  \/ \E t \in Threads : SetBinaryData(t) \/ SaveParameter(t) \/ RaiseUpdateDevice(t)
  \/ FileChanges \/ Restart

Spec == Init /\ [][Next]_vars

-----------------------------------------------------------------------------
(* Properties *)

TypeOK ==
  /\ central \in BOOLEAN /\ file \in Files /\ control \in Files
  /\ \A m \in {mem, db, seen} : m \in [Params -> Values \cup {Blank}]
  /\ place \in [Threads -> {"idle", "write", "save", "raise"}]
  /\ todo \in [Threads -> Seq([param : Params, value : Values])]
  /\ \A t \in Threads : Len(todo[t]) <= 3 /\ (place[t] = "idle" <=> todo[t] = <<>>)
  /\ steps \in 0 .. MaxSteps
  /\ raced \subseteq Params /\ clients \subseteq Params

\* After a restart a parameter has the value that it had, unless the last two
\* threads that set it were about to save it at the same time: then the older
\* value may be the one saved last (lines 762 and 763, 226 and 227).
DatabaseFollows ==
  \A p \in Params \ raced : Writing(p) = {} => db[p] = mem[p]

\* The clients know the values, however calls and a search overlap: the event
\* is raised after the values of its channel were stored.
EventsFollow == Idle => seen = mem

\* A search makes the parameters show how the control is configured, but for
\* those that clients set since it began.
SearchShows ==
  place[Searcher] = "idle" =>
    \A p \in DOMAIN control \ clients : mem[p] = control[p]
=============================================================================
