--------------------------------- MODULE Peer ---------------------------------
(***************************************************************************)
(* The values of one peer: setValue() and putParamset() on the threads of  *)
(* Homegear, packetReceived() on the listen thread, the Miniserver at the  *)
(* other end of the connection.  setValue() is optimistic: it stores the   *)
(* value before the command is sent, and what the Miniserver makes of the  *)
(* command comes back as a packet of states.  No lock is held between two  *)
(* steps; the memory of a single variable has its own.                     *)
(***************************************************************************)
EXTENDS Naturals, Sequences, FiniteSets, SequencesExt

CONSTANTS
  Threads,    \* threads of Homegear that set values
  States,     \* states of the control in the Miniserver
  Frame,      \* the variables a packet of a state sets, in their order
  Stored,     \* variables with operation type "store"
  Requests,   \* sequences of variables that are set in one call
  Values,
  MaxCalls,   \* bound: calls
  MaxChanges  \* bound: changes by others, losses, crashes, reconnections

Commanded == UNION {Range(Frame[s]) : s \in States}
Vars == Commanded \cup Stored

ASSUME FrameAssumption ==
  /\ IsFiniteSet(States)
  /\ Frame \in [States -> Seq(Commanded)] /\ Stored \cap Commanded = {}
  /\ \A s, r \in States : s # r => Range(Frame[s]) \cap Range(Frame[r]) = {}
ASSUME BoundsAssumption ==
  /\ Requests \subseteq Seq(Vars) \ {<<>>}
  /\ MaxCalls \in Nat /\ MaxChanges \in Nat
ASSUME ThreadsAssumption == "listen" \notin Threads

StateOf(v) == CHOOSE s \in States : v \in Range(Frame[s])

VARIABLES
  mem,        \* valuesCentral: what getValue() answers
  db,         \* the values saved
  seen,       \* what the last event of a variable told the clients
  todo,       \* of each thread: the values its call still has to set
  plan,       \* of each thread: the steps left of the setValue() it is in
  lpc,        \* the place of the listen thread
  packet,     \* the packet it is in,
  at,         \* the variable of it, and
  changed,    \* the variables it has changed
  state,      \* the states in the Miniserver
  connected,
  down,       \* commands on their way to the Miniserver
  up,         \* packets on their way from it
  calls, changes,
  \* History:
  unheeded,   \* states whose last command was not carried out
  crossed,    \* variables written by two threads at once
  stale       \* variables whose last event was not of their value

peerVars == <<mem, db, seen>>
threadVars == <<todo, plan, calls>>
listenVars == <<lpc, packet, at, changed>>
wireVars == <<state, connected, down, up, changes>>
history == <<unheeded, crossed, stale>>
vars == <<peerVars, threadVars, listenVars, wireVars, history>>

Message == [state : States, value : Values]

-----------------------------------------------------------------------------
(* Writing a variable *)

Does(t, step) == plan[t] # <<>> /\ Head(plan[t]) = step
Current(t) == Head(todo[t])

\* Threads that have written v and not yet saved it.
Writers(v) ==
  {t \in Threads : Does(t, "save") /\ Current(t).var = v}
  \cup IF lpc = "save" /\ Frame[packet.state][at] = v THEN {"listen"} ELSE {}

\* setBinaryData()
Write(v, value) ==
  /\ mem' = [mem EXCEPT ![v] = value]
  /\ crossed' = IF Writers(v) = {} THEN crossed \ {v} ELSE crossed \cup {v}

\* saveParameter()
Save(v, value) == db' = [db EXCEPT ![v] = value]

\* raiseEvent() and raiseRPCEvent() for the variables in vs
Raise(vs, value) ==
  /\ seen' = [v \in Vars |-> IF v \in vs THEN value ELSE seen[v]]
  /\ stale' = (stale \ vs) \cup {v \in vs : mem[v] # value}

-----------------------------------------------------------------------------
(* setValue() *)

(* Mutant of Steps: the value is stored when the command has been sent. *)
StepsSendFirst(v) ==
  IF v \in Stored THEN <<"write", "save", "raise">>
  ELSE <<"send", "write", "save", "raise">>

(* Mutant of Steps: only variables without a command are saved. *)
StepsUnsaved(v) ==
  IF v \in Stored THEN <<"write", "save", "raise">>
  ELSE <<"write", "send", "raise">>

(* Mutant of Steps: the Miniserver's answer is left to raise the event. *)
StepsQuiet(v) ==
  IF v \in Stored THEN <<"write", "save", "raise">>
  ELSE <<"write", "save", "send">>

Steps(v) ==
  IF v \in Stored THEN <<"write", "save", "raise">>
  ELSE <<"write", "save", "send", "raise">>

\* putParamset() ignores what setValue() returns and goes on.
NextValue(t) ==
  /\ todo' = [todo EXCEPT ![t] = Tail(@)]
  /\ plan' = [plan EXCEPT ![t] = IF Len(todo[t]) = 1 THEN <<>>
                                 ELSE Steps(todo[t][2].var)]

Step(t) ==
  IF Len(plan[t]) = 1 THEN NextValue(t)
  ELSE plan' = [plan EXCEPT ![t] = Tail(@)] /\ UNCHANGED todo

PutParamset(t) ==
  /\ todo[t] = <<>> /\ calls < MaxCalls
  /\ calls' = calls + 1
  /\ \E r \in Requests : \E values \in [DOMAIN r -> Values] :
       /\ todo' = [todo EXCEPT ![t] =
                     [i \in DOMAIN r |-> [var |-> r[i], value |-> values[i]]]]
       /\ plan' = [plan EXCEPT ![t] = Steps(r[1])]
  /\ UNCHANGED <<peerVars, listenVars, wireVars, history>>

SetBinaryData(t) ==
  /\ Does(t, "write") /\ Step(t)
  /\ Write(Current(t).var, Current(t).value)
  /\ UNCHANGED <<db, seen, calls, listenVars, wireVars, unheeded, stale>>

SaveParameter(t) ==
  /\ Does(t, "save") /\ Step(t)
  /\ Save(Current(t).var, Current(t).value)
  /\ UNCHANGED <<mem, seen, calls, listenVars, wireVars, history>>

\* The command is built and sent; an exception of the socket is swallowed.
SendPacket(t) ==
  /\ Does(t, "send") /\ Step(t)
  /\ down' = IF connected
             THEN Append(down, [state |-> StateOf(Current(t).var),
                                value |-> Current(t).value])
             ELSE down
  /\ UNCHANGED <<peerVars, calls, listenVars, state, connected, up, changes, history>>

\* The control cannot build a command: an error is returned at once.
CannotCreatePacket(t) ==
  /\ Does(t, "send") /\ NextValue(t)
  /\ unheeded' = unheeded \cup {StateOf(Current(t).var)}
  /\ stale' = stale \cup {Current(t).var}
  /\ UNCHANGED <<peerVars, calls, listenVars, wireVars, crossed>>

RaiseEvent(t) ==
  /\ Does(t, "raise") /\ Step(t)
  /\ Raise({Current(t).var}, Current(t).value)
  /\ UNCHANGED <<mem, db, calls, listenVars, wireVars, unheeded, crossed>>

-----------------------------------------------------------------------------
(* packetReceived() *)

Receive ==
  /\ lpc = "idle" /\ up # <<>>
  /\ packet' = Head(up) /\ up' = Tail(up)
  /\ at' = 1 /\ changed' = {} /\ lpc' = "compare"
  /\ UNCHANGED <<peerVars, threadVars, state, connected, down, changes, history>>

Variable == Frame[packet.state][at]

Compare ==
  /\ lpc = "compare" /\ at <= Len(Frame[packet.state])
  /\ IF mem[Variable] = packet.value THEN at' = at + 1 /\ UNCHANGED lpc
     ELSE lpc' = "write" /\ UNCHANGED at
  /\ UNCHANGED <<peerVars, threadVars, packet, changed, wireVars, history>>

PacketWrites ==
  /\ lpc = "write" /\ lpc' = "save"
  /\ Write(Variable, packet.value)
  /\ UNCHANGED <<db, seen, threadVars, packet, at, changed, wireVars, unheeded, stale>>

PacketSaves ==
  /\ lpc = "save" /\ lpc' = "compare"
  /\ Save(Variable, packet.value)
  /\ changed' = changed \cup {Variable} /\ at' = at + 1
  /\ UNCHANGED <<mem, seen, threadVars, packet, wireVars, history>>

PacketRaises ==
  /\ lpc = "compare" /\ at > Len(Frame[packet.state]) /\ lpc' = "idle"
  /\ Raise(changed, packet.value) /\ at' = 1 /\ changed' = {}
  /\ UNCHANGED <<mem, db, threadVars, packet, wireVars, unheeded, crossed>>

-----------------------------------------------------------------------------
(* The Miniserver and the connection *)

\* A state changes, and a packet says so if there is a connection.
Becomes(s, value) ==
  /\ state' = [state EXCEPT ![s] = value]
  /\ up' = IF connected THEN Append(up, [state |-> s, value |-> value]) ELSE up
  /\ unheeded' = unheeded \ {s}

Change(s) ==
  /\ changes < MaxChanges /\ changes' = changes + 1
  /\ \E value \in Values \ {state[s]} : Becomes(s, value)
  /\ UNCHANGED <<peerVars, threadVars, listenVars, connected, down, crossed, stale>>

\* A command is carried out or, out of range or not permitted, is not.
Command ==
  /\ down # <<>> /\ down' = Tail(down)
  /\ LET c == Head(down) IN
       \/ /\ c.value # state[c.state] /\ Becomes(c.state, c.value)
       \/ /\ unheeded' = IF c.value = state[c.state] THEN unheeded
                         ELSE unheeded \cup {c.state}
          /\ UNCHANGED <<state, up>>
  /\ UNCHANGED <<peerVars, threadVars, listenVars, connected, changes, crossed, stale>>

Lose ==
  /\ connected /\ changes < MaxChanges /\ changes' = changes + 1
  /\ connected' = FALSE /\ down' = <<>> /\ up' = <<>>
  /\ UNCHANGED <<peerVars, threadVars, listenVars, state, history>>

(* Mutant of Reconnect: the values of the states are not asked for. *)
ReconnectSilent ==
  /\ ~connected /\ connected' = TRUE /\ lpc = "idle"
  /\ unheeded' = {}
  /\ UNCHANGED <<peerVars, threadVars, listenVars, state, down, up, changes, crossed, stale>>

\* init() ends with a request for all states.
Reconnect ==
  /\ ~connected /\ connected' = TRUE /\ lpc = "idle"
  /\ \E q \in SetToSeqs(States) :
       up' = [i \in DOMAIN q |-> [state |-> q[i], value |-> state[q[i]]]]
  /\ unheeded' = {}
  /\ UNCHANGED <<peerVars, threadVars, listenVars, state, down, changes, crossed, stale>>

\* The process ends and is started again: the peer is what was saved of it.
Restart ==
  /\ changes < MaxChanges /\ changes' = changes + 1
  /\ mem' = db /\ seen' = db /\ UNCHANGED db
  /\ todo' = [t \in Threads |-> <<>>] /\ plan' = [t \in Threads |-> <<>>]
  /\ lpc' = "idle" /\ at' = 1 /\ changed' = {} /\ UNCHANGED packet
  /\ connected' = FALSE /\ down' = <<>> /\ up' = <<>>
  /\ crossed' = {} /\ stale' = {}
  /\ UNCHANGED <<calls, state, unheeded>>

-----------------------------------------------------------------------------
SetValue(t) ==
  \/ SetBinaryData(t) \/ SaveParameter(t) \/ SendPacket(t)
  \/ CannotCreatePacket(t) \/ RaiseEvent(t)

PacketReceived == Receive \/ Compare \/ PacketWrites \/ PacketSaves \/ PacketRaises

\* A new peer, whose variables have their defaults.
Init ==
  /\ \E value \in Values : mem = [v \in Vars |-> value]
  /\ db = mem /\ seen = mem
  /\ todo = [t \in Threads |-> <<>>] /\ plan = [t \in Threads |-> <<>>]
  /\ lpc = "idle" /\ at = 1 /\ changed = {}
  /\ state \in [States -> Values]
  /\ \E s \in States : packet = [state |-> s, value |-> state[s]]
  /\ connected = FALSE /\ down = <<>> /\ up = <<>>
  /\ calls = 0 /\ changes = 0
  /\ unheeded = {} /\ crossed = {} /\ stale = {}

Next ==
  \/ \E t \in Threads : PutParamset(t) \/ SetValue(t)
  \/ PacketReceived
  \/ \E s \in States : Change(s)
  \/ Command \/ Lose \/ Reconnect \/ Restart

Fairness ==
  /\ \A t \in Threads : WF_vars(SetValue(t))
  /\ WF_vars(PacketReceived) /\ WF_vars(Command) /\ WF_vars(Reconnect)

Spec == Init /\ [][Next]_vars /\ Fairness

-----------------------------------------------------------------------------
(* Properties *)

\* A thread that sets no value has none left to set, and no state is on its
\* way without a connection.
TypeOK ==
  /\ mem \in [Vars -> Values] /\ db \in [Vars -> Values] /\ seen \in [Vars -> Values]
  /\ todo \in [Threads -> Seq([var : Vars, value : Values])]
  /\ plan \in [Threads -> Seq({"write", "save", "send", "raise"})]
  /\ lpc \in {"idle", "compare", "write", "save"} /\ packet \in Message
  /\ at \in Nat \ {0} /\ changed \subseteq Range(Frame[packet.state])
  /\ state \in [States -> Values] /\ connected \in BOOLEAN
  /\ down \in Seq(Message) /\ up \in Seq(Message)
  /\ ~connected => up = <<>> /\ down = <<>>
  /\ calls \in 0..MaxCalls /\ changes \in 0..MaxChanges
  /\ unheeded \subseteq States /\ crossed \subseteq Vars /\ stale \subseteq Vars

Quiet == lpc = "idle" /\ \A t \in Threads : todo[t] = <<>>

\* When nothing is under way, every variable of a state has its value, in
\* whatever order calls and packets wrote it and whatever was lost (lines
\* 594, 914): the command of the last optimistic value, or the states sent
\* after a reconnection, correct it.  Only a command that the control or the
\* Miniserver does not carry out leaves a value that is not the Miniserver's.
ValuesAgree ==
  Quiet /\ connected /\ up = <<>> /\ down = <<>> =>
    \A s \in States \ unheeded : \A v \in Range(Frame[s]) : mem[v] = state[s]

\* What is saved is what the peer has, unless two threads wrote a variable at
\* once and saved it in the other order (lines 594 and 595, 914 and 915).
DatabaseFollows == Quiet => \A v \in Vars \ crossed : db[v] = mem[v]

\* The last event of a variable told its value, unless a call raised its event
\* after a packet had changed the value (line 998), or returned with an error
\* after it had stored the value (line 989).
EventsFollow == Quiet => \A v \in Vars \ stale : seen[v] = mem[v]

\* In the end the peer shows what the Miniserver has, however often the
\* connection is lost, or the Miniserver ignored a command.
Shown(s) == s \in unheeded \/ \A v \in Range(Frame[s]) : mem[v] = state[s]
Converges == \A s \in States : <>[]Shown(s)
=============================================================================
