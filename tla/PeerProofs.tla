----------------------------- MODULE PeerProofs -----------------------------
(***************************************************************************)
(* Proofs about Peer, for any control, threads, requests and values. Its   *)
(* inductive invariant says where the calls and the packet are, and, for   *)
(* each of the three things its properties compare, who still has to bring *)
(* it in line with the memory of the peer.                                 *)
(***************************************************************************)
EXTENDS Peer, FiniteSetTheorems, SequenceTheorems, TLAPS

-----------------------------------------------------------------------------
(* The inductive invariant *)

(* Places: a call is at some step of setValue(), a packet within its frame. *)

Rests(v) ==
  IF v \in Stored THEN {<<"write", "save", "raise">>, <<"save", "raise">>, <<"raise">>}
  ELSE {<<"write", "save", "send", "raise">>, <<"save", "send", "raise">>,
        <<"send", "raise">>, <<"raise">>}

PlanInv ==
  \A t \in Threads :
    /\ plan[t] = <<>> <=> todo[t] = <<>>
    /\ todo[t] # <<>> => plan[t] \in Rests(Current(t).var)

ListenInv ==
  /\ lpc = "idle" => changed = {}
  /\ lpc \in {"write", "save"} => at <= Len(Frame[packet.state])

(* The database: a variable no two threads have written at once is saved, or
   the only thread that has written it has the value it is to save. *)

ToSave(w) == IF w = "listen" THEN packet.value ELSE Current(w).value

DbInv ==
  \A v \in Vars \ crossed :
    /\ Writers(v) = {} => db[v] = mem[v]
    /\ \A w \in Writers(v) : Writers(v) = {w} /\ ToSave(w) = mem[v]

(* Events: a variable whose last event is not of its value is one that a call
   or the packet has written, and has yet to raise the event of. *)

Raises(t, v) ==
  /\ Does(t, "save") \/ Does(t, "send") \/ Does(t, "raise")
  /\ Current(t).var = v

Due(v) ==
  \/ v \in changed
  \/ lpc = "save" /\ Variable = v
  \/ \E t \in Threads : Raises(t, v)

EventInv == \A v \in Vars \ stale : seen[v] = mem[v] \/ Due(v)

(* States: what the connection still brings to the peer. *)

OfState(s, i) == up[i].state = s
UpHas(s) == \E i \in DOMAIN up : OfState(s, i)

(* The last packet of a state on its way, or the packet being handled when
   none is, has the value of the state. *)
LastInv ==
  /\ \A i \in DOMAIN up :
       (\A j \in DOMAIN up : j > i => ~OfState(up[i].state, j)) =>
         up[i].value = state[up[i].state]
  /\ connected /\ lpc # "idle" /\ ~UpHas(packet.state) =>
       packet.value = state[packet.state]

(* The packet being handled has yet to compare v. *)
Reaches(v) ==
  \E i \in DOMAIN Frame[packet.state] :
    Frame[packet.state][i] = v /\ i >= at /\ (lpc = "save" => i > at)

(* A command that would change s is about to be sent, or is on its way. *)
Commands(t, s) ==
  /\ Does(t, "save") \/ Does(t, "send")
  /\ Current(t).var \in Range(Frame[s]) /\ Current(t).value # state[s]

Pending(s) ==
  \/ \E t \in Threads : Commands(t, s)
  \/ \E i \in DOMAIN down : down[i].state = s /\ down[i].value # state[s]

Corrected(s, v) ==
  \/ UpHas(s)
  \/ lpc # "idle" /\ packet.state = s /\ Reaches(v)
  \/ Pending(s)

ShownInv ==
  connected =>
    \A s \in States \ unheeded : \A v \in Range(Frame[s]) :
      mem[v] = state[s] \/ Corrected(s, v)

PlaceInv == TypeOK /\ PlanInv /\ ListenInv

IInv == PlaceInv /\ DbInv /\ EventInv /\ LastInv /\ ShownInv

-----------------------------------------------------------------------------
(* Variables and states *)

(* Every variable with a command belongs to one state. *)
LEMMA Frames ==
  /\ Vars = Commanded \cup Stored
  /\ \A s \in States :
       /\ Frame[s] \in Seq(Vars) /\ Range(Frame[s]) \subseteq Commanded
       /\ \A i \in 1..Len(Frame[s]) : Frame[s][i] \in Range(Frame[s])
  /\ \A v \in Commanded :
       v \notin Stored /\ StateOf(v) \in States /\ v \in Range(Frame[StateOf(v)])
  /\ \A s \in States : \A v \in Range(Frame[s]) : StateOf(v) = s
<1>1. /\ Vars = Commanded \cup Stored
      /\ \A s \in States :
           /\ Frame[s] \in Seq(Vars) /\ Range(Frame[s]) \subseteq Commanded
           /\ \A i \in 1..Len(Frame[s]) : Frame[s][i] \in Range(Frame[s])
  <2>1. Vars = Commanded \cup Stored
    BY DEF Vars
  <2>2. ASSUME NEW s \in States
        PROVE  /\ Frame[s] \in Seq(Vars) /\ Range(Frame[s]) \subseteq Commanded
               /\ \A i \in 1..Len(Frame[s]) : Frame[s][i] \in Range(Frame[s])
    <3>1. Frame[s] \in Seq(Commanded)
      BY FrameAssumption
    <3>2. Frame[s] \in Seq(Vars)
      BY <2>1, <3>1
    <3>3. Range(Frame[s]) \subseteq Commanded
      BY <3>1 DEF Range
    <3>4. \A i \in 1..Len(Frame[s]) : Frame[s][i] \in Range(Frame[s])
      BY <3>1 DEF Range
    <3>5. QED
      BY <3>2, <3>3, <3>4
  <2>3. QED
    BY <2>1, <2>2
<1>2. ASSUME NEW v \in Commanded
      PROVE  v \notin Stored /\ StateOf(v) \in States /\ v \in Range(Frame[StateOf(v)])
  <2>1. v \notin Stored
    BY FrameAssumption
  <2>2. \E s \in States : v \in Range(Frame[s])
    BY DEF Commanded
  <2>3. QED
    BY <2>1, <2>2 DEF StateOf
<1>3. ASSUME NEW s \in States, NEW v \in Range(Frame[s])
      PROVE  StateOf(v) = s
  BY <1>1, <1>2, FrameAssumption
<1>4. QED
  BY <1>1, <1>2, <1>3

(* An order of all states names each of them. *)
LEMMA Orders ==
  ASSUME NEW q \in SetToSeqs(States)
  PROVE  q \in Seq(States) /\ \A s \in States : \E i \in DOMAIN q : q[i] = s
<1> DEFINE n == Cardinality(States)
<1>1. IsFiniteSet(States)
  BY FrameAssumption
<1>2. n \in Nat
  BY <1>1, FS_CardinalityType
<1>3. q \in [1..n -> States] /\ \A i, j \in 1..n : i # j => q[i] # q[j]
  BY DEF SetToSeqs
<1>4. q \in Injection(1..n, States)
  BY <1>3 DEF Injection, IsInjective
<1>5. Cardinality(1..n) = n
  BY <1>2, FS_Interval
<1>6. q \in Surjection(1..n, States)
  BY <1>1, <1>4, <1>5, FS_Injection
<1>7. QED
  BY <1>2, <1>3, <1>6 DEF Surjection

-----------------------------------------------------------------------------
(* Places *)

(* What is left of a sequence without its head. *)
LEMMA Tails ==
  ASSUME NEW S, NEW s \in Seq(S), s # <<>>
  PROVE  /\ Head(s) \in S /\ Tail(s) \in Seq(S) /\ Len(s) \in Nat \ {0}
         /\ Len(Tail(s)) = Len(s) - 1
         /\ \A i \in 1..Len(Tail(s)) : Tail(s)[i] = s[i + 1]
         /\ Len(s) = 1 => Tail(s) = <<>>
         /\ Len(s) # 1 => Tail(s) # <<>> /\ Head(Tail(s)) = s[2] /\ s[2] \in S
<1>1. /\ Head(s) \in S /\ Tail(s) \in Seq(S) /\ Len(Tail(s)) = Len(s) - 1
      /\ \A i \in 1..Len(Tail(s)) : Tail(s)[i] = s[i + 1]
  BY HeadTailProperties
<1>2. Len(s) \in Nat \ {0} /\ Len(<<>>) = 0
  BY EmptySeq
<1>3. ASSUME Len(s) = 1
      PROVE  Tail(s) = <<>>
  <2>1. Len(Tail(s)) = 0
    BY <1>1, <1>2, <1>3
  <2>2. QED
    BY <1>1, <2>1, EmptySeq
<1>4. ASSUME Len(s) # 1
      PROVE  Tail(s) # <<>> /\ Head(Tail(s)) = s[2] /\ s[2] \in S
  <2>1. Len(Tail(s)) # 0 /\ 1 \in 1..Len(Tail(s)) /\ 2 \in 1..Len(s)
    BY <1>1, <1>2, <1>4
  <2>2. Tail(s) # <<>>
    BY <1>2, <2>1, Zenon
  <2>3. Head(Tail(s)) = Tail(s)[1]
    BY <1>1, <2>2
  <2>4. Tail(s)[1] = s[2]
    BY <1>1, <2>1
  <2>5. s[2] \in S
    BY <2>1, ElementOfSeq
  <2>6. QED
    BY <2>2, <2>3, <2>4, <2>5
<1>5. QED
  BY <1>1, <1>2, <1>3, <1>4

(* The steps of setValue(), one after another. *)
LEMMA Plans ==
  ASSUME NEW v, NEW p \in Rests(v)
  PROVE  /\ p \in Seq({"write", "save", "send", "raise"}) /\ p # <<>>
         /\ Len(p) = 1 <=> Head(p) = "raise"
         /\ Len(p) # 1 =>
              /\ Tail(p) \in Rests(v) /\ Tail(p) # <<>>
              /\ Head(p) = "write" => Head(Tail(p)) = "save"
              /\ Head(p) = "save" =>
                   Head(Tail(p)) = IF v \in Stored THEN "raise" ELSE "send"
              /\ Head(p) = "send" => Head(Tail(p)) = "raise" /\ v \notin Stored
<1>1. CASE v \in Stored
  <2>1. CASE p = <<"write", "save", "raise">>
    BY <1>1, <2>1 DEF Rests
  <2>2. CASE p = <<"save", "raise">>
    BY <1>1, <2>2 DEF Rests
  <2>3. CASE p = <<"raise">>
    BY <1>1, <2>3 DEF Rests
  <2>4. QED
    BY <1>1, <2>1, <2>2, <2>3 DEF Rests
<1>2. CASE v \notin Stored
  <2>1. CASE p = <<"write", "save", "send", "raise">>
    BY <1>2, <2>1 DEF Rests
  <2>2. CASE p = <<"save", "send", "raise">>
    BY <1>2, <2>2 DEF Rests
  <2>3. CASE p = <<"send", "raise">>
    BY <1>2, <2>3 DEF Rests
  <2>4. CASE p = <<"raise">>
    BY <1>2, <2>4 DEF Rests
  <2>5. QED
    BY <1>2, <2>1, <2>2, <2>3, <2>4 DEF Rests
<1>3. QED
  BY <1>1, <1>2

(* Where a call with a value to set can be. *)
LEMMA CallPlaces ==
  ASSUME TypeOK, PlanInv, NEW t \in Threads, plan[t] # <<>>
  PROVE  /\ todo[t] # <<>> /\ Current(t).var \in Vars /\ Current(t).value \in Values
         /\ plan[t] \in Rests(Current(t).var)
         /\ Does(t, "send") => Current(t).var \in Commanded
<1>1. todo[t] # <<>> /\ plan[t] \in Rests(Current(t).var)
  BY DEF PlanInv
<1>2. todo[t] \in Seq([var : Vars, value : Values])
  BY DEF TypeOK
<1>3. Current(t) \in [var : Vars, value : Values]
  BY <1>1, <1>2, HeadTailProperties DEF Current
<1>4. Does(t, "send") => Current(t).var \in Commanded
  BY <1>1, <1>3, Frames DEF Does, Rests, Steps
<1>5. QED
  BY <1>1, <1>3, <1>4

(* What a step of a call leaves alone. *)
Others(t) ==
  \A u \in Threads \ {t} : todo'[u] = todo[u] /\ plan'[u] = plan[u]

(* The parts of TypeOK. *)
PeerTyped ==
  mem \in [Vars -> Values] /\ db \in [Vars -> Values] /\ seen \in [Vars -> Values]

CallsTyped ==
  /\ todo \in [Threads -> Seq([var : Vars, value : Values])]
  /\ plan \in [Threads -> Seq({"write", "save", "send", "raise"})]

PacketTyped ==
  /\ lpc \in {"idle", "compare", "write", "save"} /\ packet \in Message
  /\ at \in Nat \ {0} /\ changed \subseteq Range(Frame[packet.state])

WireTyped ==
  /\ state \in [States -> Values] /\ connected \in BOOLEAN
  /\ down \in Seq(Message) /\ up \in Seq(Message)
  /\ ~connected => up = <<>> /\ down = <<>>

CountsTyped ==
  /\ calls \in 0..MaxCalls /\ changes \in 0..MaxChanges
  /\ unheeded \subseteq States /\ crossed \subseteq Vars /\ stale \subseteq Vars

LEMMA Typed ==
  /\ TypeOK <=> PeerTyped /\ CallsTyped /\ PacketTyped /\ WireTyped /\ CountsTyped
  /\ TypeOK' <=> PeerTyped' /\ CallsTyped' /\ PacketTyped' /\ WireTyped' /\ CountsTyped'
BY DEF TypeOK, PeerTyped, CallsTyped, PacketTyped, WireTyped, CountsTyped

(* A call that has set a value writes the next one or has returned. *)
LEMMA ValueIsSet ==
  ASSUME TypeOK, PlanInv, NEW t \in Threads, plan[t] # <<>>, NextValue(t)
  PROVE  /\ CallsTyped' /\ PlanInv' /\ Others(t)
         /\ plan'[t] = <<>> \/ Does(t, "write")'
<1>1. CallsTyped
  BY DEF TypeOK, CallsTyped
<1>2. todo[t] # <<>> /\ todo[t] \in Seq([var : Vars, value : Values])
  BY <1>1, CallPlaces DEF CallsTyped
<1>3. /\ Tail(todo[t]) \in Seq([var : Vars, value : Values])
      /\ Len(todo[t]) = 1 => Tail(todo[t]) = <<>>
      /\ Len(todo[t]) # 1 => /\ Tail(todo[t]) # <<>> /\ Head(Tail(todo[t])) = todo[t][2]
                            /\ todo[t][2] \in [var : Vars, value : Values]
  BY <1>2, Tails
<1>4. /\ todo' = [todo EXCEPT ![t] = Tail(todo[t])]
      /\ plan' = [plan EXCEPT ![t] = IF Len(todo[t]) = 1 THEN <<>>
                                    ELSE Steps(todo[t][2].var)]
  BY DEF NextValue
<1>5. ASSUME NEW v
      PROVE  /\ Steps(v) \in Rests(v) /\ Head(Steps(v)) = "write"
             /\ Steps(v) \in Seq({"write", "save", "send", "raise"}) /\ Steps(v) # <<>>
  <2>1. Steps(v) \in Rests(v) /\ Head(Steps(v)) = "write"
    BY DEF Steps, Rests
  <2>2. QED
    BY <2>1, Plans
<1>6. CallsTyped'
  <2>1. todo' \in [Threads -> Seq([var : Vars, value : Values])]
    BY <1>1, <1>3, <1>4 DEF CallsTyped
  <2>2. (IF Len(todo[t]) = 1 THEN <<>> ELSE Steps(todo[t][2].var))
          \in Seq({"write", "save", "send", "raise"})
    BY <1>5
  <2>3. plan' \in [Threads -> Seq({"write", "save", "send", "raise"})]
    BY <1>1, <1>4, <2>2 DEF CallsTyped
  <2>4. QED
    BY <2>1, <2>3 DEF CallsTyped
<1>7. Others(t)
  BY <1>1, <1>4 DEF CallsTyped, Others
<1>8. /\ plan'[t] = <<>> <=> todo'[t] = <<>>
      /\ todo'[t] # <<>> => plan'[t] \in Rests(Head(todo'[t]).var)
  BY <1>1, <1>3, <1>4, <1>5 DEF CallsTyped
<1>9. PlanInv'
  BY <1>7, <1>8 DEF PlanInv, Others, Current
<1>10. plan'[t] = <<>> \/ Does(t, "write")'
  BY <1>1, <1>4, <1>5 DEF CallsTyped, Does
<1>11. QED
  BY <1>6, <1>7, <1>9, <1>10

(* The step of a call that is not its last of a value: what comes next. *)
Follows(t) ==
  /\ Does(t, "write") => Does(t, "save")'
  /\ Does(t, "save") => IF Current(t).var \in Stored THEN Does(t, "raise")'
                         ELSE Does(t, "send")'
  /\ Does(t, "send") => Does(t, "raise")'

LEMMA CallMoves ==
  ASSUME TypeOK, PlanInv, NEW t \in Threads, plan[t] # <<>>, Step(t)
  PROVE  /\ CallsTyped' /\ PlanInv' /\ Others(t)
         /\ IF Does(t, "raise") THEN plan'[t] = <<>> \/ Does(t, "write")'
            ELSE todo' = todo /\ Follows(t)
<1>1. CallsTyped /\ todo[t] # <<>> /\ plan[t] \in Rests(Current(t).var)
  BY CallPlaces DEF TypeOK, CallsTyped
<1>2. CASE Len(plan[t]) = 1
  <2>1. NextValue(t)
    BY <1>2 DEF Step
  <2>2. Does(t, "raise")
    BY <1>1, <1>2, Plans DEF Does
  <2>3. QED
    BY <2>1, <2>2, ValueIsSet
<1>3. CASE Len(plan[t]) # 1
  <2>1. plan' = [plan EXCEPT ![t] = Tail(plan[t])] /\ todo' = todo
    BY <1>3 DEF Step
  <2>2. /\ Tail(plan[t]) \in Rests(Current(t).var) /\ Tail(plan[t]) # <<>>
        /\ Tail(plan[t]) \in Seq({"write", "save", "send", "raise"})
    BY <1>1, <1>3, Plans
  <2>3. CallsTyped' /\ Others(t)
    BY <1>1, <2>1, <2>2 DEF CallsTyped, Others
  <2>4. plan'[t] = Tail(plan[t])
    BY <1>1, <2>1 DEF CallsTyped
  <2>5. PlanInv'
    BY <1>1, <2>1, <2>2, <2>3, <2>4 DEF PlanInv, Others, Current
  <2>6. Head(plan[t]) \in {"write", "save", "send", "raise"}
    BY <1>1, Tails DEF CallsTyped
  <2>7. ~Does(t, "raise") /\ Follows(t)
    BY <1>1, <1>3, <2>2, <2>4, <2>6, Plans DEF Does, Follows
  <2>8. QED
    BY <2>1, <2>3, <2>5, <2>7
<1>4. QED
  BY <1>2, <1>3

(* putParamset() begins with the first of the values it was given. *)
LEMMA CallBegins ==
  ASSUME TypeOK, PlanInv, NEW t \in Threads, PutParamset(t)
  PROVE  /\ CallsTyped' /\ PlanInv' /\ Others(t)
         /\ plan[t] = <<>> /\ Does(t, "write")'
<1>a. PICK r \in Requests : \E values \in [DOMAIN r -> Values] :
        /\ todo' = [todo EXCEPT ![t] =
                      [i \in DOMAIN r |-> [var |-> r[i], value |-> values[i]]]]
        /\ plan' = [plan EXCEPT ![t] = Steps(r[1])]
  BY DEF PutParamset
<1>1. PICK values \in [DOMAIN r -> Values] :
        /\ todo' = [todo EXCEPT ![t] =
                      [i \in DOMAIN r |-> [var |-> r[i], value |-> values[i]]]]
        /\ plan' = [plan EXCEPT ![t] = Steps(r[1])]
  BY <1>a
<1> DEFINE given == [i \in DOMAIN r |-> [var |-> r[i], value |-> values[i]]]
<1>2. r \in Seq(Vars) /\ r # <<>> /\ Len(r) \in Nat \ {0} /\ DOMAIN r = 1..Len(r)
  BY BoundsAssumption, EmptySeq
<1>3. given \in Seq([var : Vars, value : Values]) /\ Len(given) = Len(r)
  BY <1>2
<1>4. given # <<>> /\ Head(given) = given[1] /\ given[1].var = r[1]
  BY <1>2, <1>3
<1>5. /\ Steps(r[1]) \in Rests(r[1]) /\ Head(Steps(r[1])) = "write"
  BY DEF Steps, Rests
<1>6. Steps(r[1]) \in Seq({"write", "save", "send", "raise"}) /\ Steps(r[1]) # <<>>
  BY <1>5, Plans
<1> HIDE DEF given
<1>7. CallsTyped'
  BY <1>1, <1>3, <1>6 DEF TypeOK, CallsTyped, given
<1>8. todo'[t] = given /\ plan'[t] = Steps(r[1]) /\ Others(t)
  BY <1>1 DEF TypeOK, given, Others
<1>9. PlanInv'
  BY <1>4, <1>5, <1>6, <1>8 DEF PlanInv, Others, Current
<1>10. plan[t] = <<>> /\ Does(t, "write")'
  BY <1>5, <1>6, <1>8 DEF PutParamset, PlanInv, Does
<1>11. QED
  BY <1>7, <1>8, <1>9, <1>10

(* A state gets a value, and the packet about it is the last one on its way. *)
LEMMA StateBecomes ==
  ASSUME TypeOK, NEW s \in States, NEW value \in Values, Becomes(s, value)
  PROVE  /\ state' \in [States -> Values] /\ up' \in Seq(Message)
         /\ unheeded' = unheeded \ {s} /\ state'[s] = value
         /\ \A r \in States \ {s} : state'[r] = state[r]
         /\ ~connected => up' = up
         /\ connected => /\ Len(up') = Len(up) + 1
                         /\ \A i \in 1..Len(up) : up'[i] = up[i]
                         /\ up'[Len(up) + 1] = [state |-> s, value |-> value]
<1>1. [state |-> s, value |-> value] \in Message
  BY DEF Message
<1>2. QED
  BY <1>1, AppendProperties DEF Becomes, TypeOK

(* The Miniserver carries a command out, or it does not. *)
Ignored(s, value) ==
  /\ UNCHANGED <<state, up>>
  /\ unheeded' = IF value = state[s] THEN unheeded ELSE unheeded \cup {s}

LEMMA CommandEffect ==
  ASSUME TypeOK, Command
  PROVE  /\ connected /\ down # <<>> /\ Head(down) \in Message
         /\ down' = Tail(down) /\ down' \in Seq(Message)
         /\ \/ Becomes(Head(down).state, Head(down).value)
            \/ Ignored(Head(down).state, Head(down).value)
         /\ UNCHANGED <<peerVars, threadVars, listenVars, connected, changes,
                       crossed, stale>>
<1>1. down # <<>> /\ down \in Seq(Message) /\ connected
  BY DEF Command, TypeOK
<1>2. Head(down) \in Message /\ Tail(down) \in Seq(Message)
  BY <1>1, Tails
<1>3. QED
  BY <1>1, <1>2 DEF Command, Ignored

-----------------------------------------------------------------------------
(* The places are kept *)

LEMMA PlaceStep == PlaceInv /\ [Next]_vars => PlaceInv'
<1> SUFFICES ASSUME PlaceInv, [Next]_vars
             PROVE  PlaceInv'
  OBVIOUS
<1>0. TypeOK /\ PlanInv /\ ListenInv
  BY DEF PlaceInv
<1>1. ASSUME NEW t \in Threads, PutParamset(t)
      PROVE  PlaceInv'
  <2>1. CallsTyped' /\ PlanInv'
    BY <1>0, <1>1, CallBegins
  <2>2. TypeOK' /\ ListenInv'
    <3>1. PeerTyped'
      BY <1>0, <1>1, <2>1, BoundsAssumption, Typed DEF PeerTyped, PutParamset,
         peerVars
    <3>3. PacketTyped'
      BY <1>0, <1>1, <2>1, BoundsAssumption, Typed DEF PacketTyped, PutParamset,
         listenVars
    <3>4. WireTyped'
      BY <1>0, <1>1, <2>1, BoundsAssumption, Typed DEF WireTyped, PutParamset,
         wireVars
    <3>5. CountsTyped'
      BY <1>0, <1>1, <2>1, BoundsAssumption, Typed DEF CountsTyped, PutParamset,
         wireVars, history
    <3>6. ListenInv'
      BY <1>0, <1>1, <2>1, BoundsAssumption DEF ListenInv, PutParamset,
         listenVars
    <3>7. QED
      BY <2>1, <3>1, <3>3, <3>4, <3>5, <3>6, Typed
  <2>3. QED
    BY <2>1, <2>2 DEF PlaceInv
<1>2. ASSUME NEW t \in Threads, SetBinaryData(t)
      PROVE  PlaceInv'
  <2>1. CallsTyped' /\ PlanInv'
    BY <1>0, <1>2, CallMoves DEF SetBinaryData, Does
  <2>2. Current(t).var \in Vars /\ Current(t).value \in Values
    BY <1>0, <1>2, CallPlaces DEF SetBinaryData, Does
  <2>3. TypeOK' /\ ListenInv'
    <3>1. PeerTyped'
      BY <1>0, <1>2, <2>1, <2>2, Typed DEF PeerTyped, SetBinaryData, Write
    <3>3. PacketTyped'
      BY <1>0, <1>2, <2>1, <2>2, Typed DEF PacketTyped, SetBinaryData, Write,
         listenVars
    <3>4. WireTyped'
      BY <1>0, <1>2, <2>1, <2>2, Typed DEF WireTyped, SetBinaryData, Write,
         wireVars
    <3>5. CountsTyped'
      BY <1>0, <1>2, <2>1, <2>2, Typed DEF CountsTyped, SetBinaryData, Write,
         wireVars
    <3>6. ListenInv'
      BY <1>0, <1>2, <2>1, <2>2 DEF ListenInv, SetBinaryData, Write, listenVars
    <3>7. QED
      BY <2>1, <3>1, <3>3, <3>4, <3>5, <3>6, Typed
  <2>4. QED
    BY <2>1, <2>3 DEF PlaceInv
<1>3. ASSUME NEW t \in Threads, SaveParameter(t)
      PROVE  PlaceInv'
  <2>1. CallsTyped' /\ PlanInv'
    BY <1>0, <1>3, CallMoves DEF SaveParameter, Does
  <2>2. Current(t).var \in Vars /\ Current(t).value \in Values
    BY <1>0, <1>3, CallPlaces DEF SaveParameter, Does
  <2>3. TypeOK' /\ ListenInv'
    <3>1. PeerTyped'
      BY <1>0, <1>3, <2>1, <2>2, Typed DEF PeerTyped, SaveParameter, Save
    <3>3. PacketTyped'
      BY <1>0, <1>3, <2>1, <2>2, Typed DEF PacketTyped, SaveParameter, Save,
         listenVars
    <3>4. WireTyped'
      BY <1>0, <1>3, <2>1, <2>2, Typed DEF WireTyped, SaveParameter, Save,
         wireVars
    <3>5. CountsTyped'
      BY <1>0, <1>3, <2>1, <2>2, Typed DEF CountsTyped, SaveParameter, Save,
         wireVars, history
    <3>6. ListenInv'
      BY <1>0, <1>3, <2>1, <2>2 DEF ListenInv, SaveParameter, Save, listenVars
    <3>7. QED
      BY <2>1, <3>1, <3>3, <3>4, <3>5, <3>6, Typed
  <2>4. QED
    BY <2>1, <2>3 DEF PlaceInv
<1>4. ASSUME NEW t \in Threads, SendPacket(t)
      PROVE  PlaceInv'
  <2>1. CallsTyped' /\ PlanInv'
    BY <1>0, <1>4, CallMoves DEF SendPacket, Does
  <2>2. Current(t).var \in Commanded /\ Current(t).value \in Values
    BY <1>0, <1>4, CallPlaces DEF SendPacket, Does
  <2>3. [state |-> StateOf(Current(t).var), value |-> Current(t).value] \in Message
    BY <2>2, Frames DEF Message
  <2>4. down' \in Seq(Message) /\ (~connected => down' = <<>>)
    BY <1>0, <1>4, <2>3 DEF SendPacket, TypeOK
  <2>5. TypeOK' /\ ListenInv'
    <3>1. PeerTyped'
      BY <1>0, <1>4, <2>1, <2>4, Typed DEF PeerTyped, SendPacket, peerVars
    <3>3. PacketTyped'
      BY <1>0, <1>4, <2>1, <2>4, Typed DEF PacketTyped, SendPacket, listenVars
    <3>4. WireTyped'
      BY <1>0, <1>4, <2>1, <2>4, Typed DEF WireTyped, SendPacket
    <3>5. CountsTyped'
      BY <1>0, <1>4, <2>1, <2>4, Typed DEF CountsTyped, SendPacket, history
    <3>6. ListenInv'
      BY <1>0, <1>4, <2>1, <2>4 DEF ListenInv, SendPacket, listenVars
    <3>7. QED
      BY <2>1, <3>1, <3>3, <3>4, <3>5, <3>6, Typed
  <2>6. QED
    BY <2>1, <2>5 DEF PlaceInv
<1>5. ASSUME NEW t \in Threads, CannotCreatePacket(t)
      PROVE  PlaceInv'
  <2>1. CallsTyped' /\ PlanInv'
    BY <1>0, <1>5, ValueIsSet DEF CannotCreatePacket, Does
  <2>2. /\ Current(t).var \in Commanded /\ Current(t).var \in Vars
        /\ StateOf(Current(t).var) \in States
    BY <1>0, <1>5, CallPlaces, Frames DEF CannotCreatePacket, Does
  <2>3. TypeOK' /\ ListenInv'
    <3>1. PeerTyped'
      BY <1>0, <1>5, <2>1, <2>2, Typed DEF PeerTyped, CannotCreatePacket,
         peerVars
    <3>3. PacketTyped'
      BY <1>0, <1>5, <2>1, <2>2, Typed DEF PacketTyped, CannotCreatePacket,
         listenVars
    <3>4. WireTyped'
      BY <1>0, <1>5, <2>1, <2>2, Typed DEF WireTyped, CannotCreatePacket,
         wireVars
    <3>5. CountsTyped'
      BY <1>0, <1>5, <2>1, <2>2, Typed DEF CountsTyped, CannotCreatePacket,
         wireVars
    <3>6. ListenInv'
      BY <1>0, <1>5, <2>1, <2>2 DEF ListenInv, CannotCreatePacket, listenVars
    <3>7. QED
      BY <2>1, <3>1, <3>3, <3>4, <3>5, <3>6, Typed
  <2>4. QED
    BY <2>1, <2>3 DEF PlaceInv
<1>6. ASSUME NEW t \in Threads, RaiseEvent(t)
      PROVE  PlaceInv'
  <2>1. CallsTyped' /\ PlanInv'
    BY <1>0, <1>6, CallMoves DEF RaiseEvent, Does
  <2>2. Current(t).var \in Vars /\ Current(t).value \in Values
    BY <1>0, <1>6, CallPlaces DEF RaiseEvent, Does
  <2>3. TypeOK' /\ ListenInv'
    <3>1. PeerTyped'
      BY <1>0, <1>6, <2>1, <2>2, Typed DEF PeerTyped, RaiseEvent, Raise
    <3>3. PacketTyped'
      BY <1>0, <1>6, <2>1, <2>2, Typed DEF PacketTyped, RaiseEvent, Raise,
         listenVars
    <3>4. WireTyped'
      BY <1>0, <1>6, <2>1, <2>2, Typed DEF WireTyped, RaiseEvent, Raise,
         wireVars
    <3>5. CountsTyped'
      BY <1>0, <1>6, <2>1, <2>2, Typed DEF CountsTyped, RaiseEvent, Raise,
         wireVars
    <3>6. ListenInv'
      BY <1>0, <1>6, <2>1, <2>2 DEF ListenInv, RaiseEvent, Raise, listenVars
    <3>7. QED
      BY <2>1, <3>1, <3>3, <3>4, <3>5, <3>6, Typed
  <2>4. QED
    BY <2>1, <2>3 DEF PlaceInv
<1>7. CASE Receive
  <2>1. up \in Seq(Message) /\ Head(up) \in Message /\ Tail(up) \in Seq(Message)
    BY <1>0, <1>7, Tails DEF Receive, TypeOK
  <2>2. TypeOK'
    <3>1. PeerTyped'
      BY <1>0, <1>7, <2>1, Typed DEF PeerTyped, Receive, peerVars
    <3>2. CallsTyped'
      BY <1>0, <1>7, <2>1, Typed DEF CallsTyped, Receive, threadVars
    <3>3. PacketTyped'
      BY <1>0, <1>7, <2>1, Typed DEF PacketTyped, Receive
    <3>4. WireTyped'
      BY <1>0, <1>7, <2>1, Typed DEF WireTyped, Receive
    <3>5. CountsTyped'
      BY <1>0, <1>7, <2>1, Typed DEF CountsTyped, Receive, threadVars, history
    <3>6. QED
      BY <3>1, <3>2, <3>3, <3>4, <3>5, Typed
  <2>3. PlanInv' /\ ListenInv'
    BY <1>0, <1>7 DEF Receive, PlanInv, ListenInv, Current, threadVars
  <2>4. QED
    BY <2>2, <2>3 DEF PlaceInv
<1>8. CASE Compare
  <2>1. TypeOK'
    <3>1. PeerTyped'
      BY <1>0, <1>8, Typed DEF PeerTyped, Compare, peerVars
    <3>2. CallsTyped'
      BY <1>0, <1>8, Typed DEF CallsTyped, Compare, threadVars
    <3>3. PacketTyped'
      BY <1>0, <1>8, Typed DEF PacketTyped, Compare
    <3>4. WireTyped'
      BY <1>0, <1>8, Typed DEF WireTyped, Compare, wireVars
    <3>5. CountsTyped'
      BY <1>0, <1>8, Typed DEF CountsTyped, Compare, threadVars, wireVars,
         history
    <3>6. QED
      BY <3>1, <3>2, <3>3, <3>4, <3>5, Typed
  <2>2. PlanInv' /\ ListenInv'
    BY <1>0, <1>8 DEF Compare, PlanInv, ListenInv, Current, threadVars
  <2>3. QED
    BY <2>1, <2>2 DEF PlaceInv
<1>9. CASE PacketWrites
  <2>1. packet.state \in States /\ packet.value \in Values
    BY <1>0 DEF TypeOK, Message
  <2>2. Variable \in Range(Frame[packet.state]) /\ Variable \in Vars
    BY <1>0, <1>9, <2>1, Frames DEF PacketWrites, ListenInv, TypeOK, Variable
  <2>3. TypeOK'
    <3>1. PeerTyped'
      BY <1>0, <1>9, <2>1, <2>2, Typed DEF PeerTyped, PacketWrites, Write
    <3>2. CallsTyped'
      BY <1>0, <1>9, <2>1, <2>2, Typed DEF CallsTyped, PacketWrites, Write,
         threadVars
    <3>3. PacketTyped'
      BY <1>0, <1>9, <2>1, <2>2, Typed DEF PacketTyped, PacketWrites, Write
    <3>4. WireTyped'
      BY <1>0, <1>9, <2>1, <2>2, Typed DEF WireTyped, PacketWrites, Write,
         wireVars
    <3>5. CountsTyped'
      BY <1>0, <1>9, <2>1, <2>2, Typed DEF CountsTyped, PacketWrites, Write,
         threadVars, wireVars
    <3>6. QED
      BY <3>1, <3>2, <3>3, <3>4, <3>5, Typed
  <2>4. PlanInv' /\ ListenInv'
    BY <1>0, <1>9 DEF PacketWrites, PlanInv, ListenInv, Current, threadVars
  <2>5. QED
    BY <2>3, <2>4 DEF PlaceInv
<1>10. CASE PacketSaves
  <2>1. packet.state \in States /\ packet.value \in Values
    BY <1>0 DEF TypeOK, Message
  <2>2. Variable \in Range(Frame[packet.state]) /\ Variable \in Vars
    BY <1>0, <1>10, <2>1, Frames DEF PacketSaves, ListenInv, TypeOK, Variable
  <2>3. TypeOK'
    <3>1. PeerTyped'
      BY <1>0, <1>10, <2>1, <2>2, Typed DEF PeerTyped, PacketSaves, Save
    <3>2. CallsTyped'
      BY <1>0, <1>10, <2>1, <2>2, Typed DEF CallsTyped, PacketSaves, Save,
         threadVars
    <3>3. PacketTyped'
      BY <1>0, <1>10, <2>1, <2>2, Typed DEF PacketTyped, PacketSaves, Save
    <3>4. WireTyped'
      BY <1>0, <1>10, <2>1, <2>2, Typed DEF WireTyped, PacketSaves, Save,
         wireVars
    <3>5. CountsTyped'
      BY <1>0, <1>10, <2>1, <2>2, Typed DEF CountsTyped, PacketSaves, Save,
         threadVars, wireVars, history
    <3>6. QED
      BY <3>1, <3>2, <3>3, <3>4, <3>5, Typed
  <2>4. PlanInv' /\ ListenInv'
    BY <1>0, <1>10 DEF PacketSaves, PlanInv, ListenInv, Current, threadVars
  <2>5. QED
    BY <2>3, <2>4 DEF PlaceInv
<1>11. CASE PacketRaises
  <2>1. packet.state \in States /\ packet.value \in Values /\ changed \subseteq Vars
    BY <1>0, Frames DEF TypeOK, Message
  <2>2. TypeOK'
    <3>1. PeerTyped'
      BY <1>0, <1>11, <2>1, Typed DEF PeerTyped, PacketRaises, Raise
    <3>2. CallsTyped'
      BY <1>0, <1>11, <2>1, Typed DEF CallsTyped, PacketRaises, Raise,
         threadVars
    <3>3. PacketTyped'
      BY <1>0, <1>11, <2>1, Typed DEF PacketTyped, PacketRaises, Raise
    <3>4. WireTyped'
      BY <1>0, <1>11, <2>1, Typed DEF WireTyped, PacketRaises, Raise, wireVars
    <3>5. CountsTyped'
      BY <1>0, <1>11, <2>1, Typed DEF CountsTyped, PacketRaises, Raise,
         threadVars, wireVars
    <3>6. QED
      BY <3>1, <3>2, <3>3, <3>4, <3>5, Typed
  <2>3. PlanInv' /\ ListenInv'
    BY <1>0, <1>11 DEF PacketRaises, PlanInv, ListenInv, Current, threadVars
  <2>4. QED
    BY <2>2, <2>3 DEF PlaceInv
<1>12. ASSUME NEW s \in States, Change(s)
       PROVE  PlaceInv'
  <2>1. PICK value \in Values : Becomes(s, value)
    BY <1>12 DEF Change
  <2>a. state' \in [States -> Values] /\ up' \in Seq(Message) /\ unheeded' = unheeded \ {s}
        /\ (~connected => up' = up)
    BY <1>0, <2>1, StateBecomes
  <2>b. changes' \in 0..MaxChanges
    BY <1>0, <1>12, BoundsAssumption DEF Change, TypeOK
  <2>2. TypeOK'
    <3>1. PeerTyped'
      BY <1>0, <1>12, <2>a, <2>b, Typed DEF PeerTyped, Change, peerVars
    <3>2. CallsTyped'
      BY <1>0, <1>12, <2>a, <2>b, Typed DEF CallsTyped, Change, threadVars
    <3>3. PacketTyped'
      BY <1>0, <1>12, <2>a, <2>b, Typed DEF PacketTyped, Change, listenVars
    <3>4. WireTyped'
      BY <1>0, <1>12, <2>a, <2>b, Typed DEF WireTyped, Change
    <3>5. CountsTyped'
      BY <1>0, <1>12, <2>a, <2>b, Typed DEF CountsTyped, Change, threadVars
    <3>6. QED
      BY <3>1, <3>2, <3>3, <3>4, <3>5, Typed
  <2>3. PlanInv' /\ ListenInv'
    BY <1>0, <1>12 DEF Change, PlanInv, ListenInv, Current, threadVars,
       listenVars
  <2>4. QED
    BY <2>2, <2>3 DEF PlaceInv
<1>13. CASE Command
  <2> DEFINE c == Head(down)
  <2>1. /\ c \in Message /\ down' \in Seq(Message) /\ connected
        /\ Becomes(c.state, c.value) \/ Ignored(c.state, c.value)
        /\ UNCHANGED <<peerVars, threadVars, listenVars, connected, changes, crossed, stale>>
    BY <1>0, <1>13, CommandEffect
  <2>2. c.state \in States /\ c.value \in Values
    BY <2>1 DEF Message
  <2> HIDE DEF c
  <2>3. state' \in [States -> Values] /\ up' \in Seq(Message) /\ unheeded' \subseteq States
    <3>1. CASE Becomes(c.state, c.value)
      <4>1. /\ state' \in [States -> Values] /\ up' \in Seq(Message)
            /\ unheeded' = unheeded \ {c.state}
        BY <1>0, <2>2, <3>1, StateBecomes
      <4>2. QED
        BY <1>0, <4>1 DEF TypeOK
    <3>2. CASE Ignored(c.state, c.value)
      BY <1>0, <2>2, <3>2 DEF Ignored, TypeOK
    <3>3. QED
      BY <2>1, <3>1, <3>2
  <2>4. TypeOK'
    <3>1. PeerTyped'
      BY <1>0, <2>1, <2>3, Typed DEF PeerTyped, peerVars
    <3>2. CallsTyped'
      BY <1>0, <2>1, <2>3, Typed DEF CallsTyped, threadVars
    <3>3. PacketTyped'
      BY <1>0, <2>1, <2>3, Typed DEF PacketTyped, listenVars
    <3>4. WireTyped'
      BY <1>0, <2>1, <2>3, Typed DEF WireTyped
    <3>5. CountsTyped'
      BY <1>0, <2>1, <2>3, Typed DEF CountsTyped, threadVars
    <3>6. QED
      BY <3>1, <3>2, <3>3, <3>4, <3>5, Typed
  <2>5. PlanInv' /\ ListenInv'
    BY <1>0, <2>1 DEF PlanInv, ListenInv, Current, threadVars, listenVars
  <2>6. QED
    BY <2>4, <2>5 DEF PlaceInv
<1>14. CASE Lose
  <2>1. TypeOK'
    <3>1. PeerTyped'
      BY <1>0, <1>14, BoundsAssumption, Typed DEF PeerTyped, Lose, peerVars
    <3>2. CallsTyped'
      BY <1>0, <1>14, BoundsAssumption, Typed DEF CallsTyped, Lose, threadVars
    <3>3. PacketTyped'
      BY <1>0, <1>14, BoundsAssumption, Typed DEF PacketTyped, Lose, listenVars
    <3>4. WireTyped'
      BY <1>0, <1>14, EmptySeq, Typed DEF WireTyped, Lose
    <3>5. CountsTyped'
      BY <1>0, <1>14, BoundsAssumption, Typed DEF CountsTyped, Lose, threadVars,
         history
    <3>6. QED
      BY <3>1, <3>2, <3>3, <3>4, <3>5, Typed
  <2>2. PlanInv' /\ ListenInv'
    BY <1>0, <1>14 DEF Lose, PlanInv, ListenInv, Current, threadVars, listenVars
  <2>3. QED
    BY <2>1, <2>2 DEF PlaceInv
<1>15. CASE Reconnect
  <2>1. PICK q \in SetToSeqs(States) :
          up' = [i \in DOMAIN q |-> [state |-> q[i], value |-> state[q[i]]]]
    BY <1>15 DEF Reconnect
  <2>2. q \in Seq(States)
    BY Orders
  <2>3. up' \in Seq(Message)
    <3>1. DOMAIN q = 1..Len(q) /\ Len(q) \in Nat /\ \A i \in DOMAIN q : q[i] \in States
      BY <2>2
    <3>2. \A i \in DOMAIN q : [state |-> q[i], value |-> state[q[i]]] \in Message
      BY <1>0, <3>1 DEF TypeOK, Message
    <3>3. up' \in [1..Len(q) -> Message]
      BY <2>1, <3>1, <3>2
    <3>4. QED
      BY <3>1, <3>3, SeqDef
  <2>4. TypeOK'
    <3>1. PeerTyped'
      BY <1>0, <1>15, <2>3, Typed DEF PeerTyped, Reconnect, peerVars
    <3>2. CallsTyped'
      BY <1>0, <1>15, <2>3, Typed DEF CallsTyped, Reconnect, threadVars
    <3>3. PacketTyped'
      BY <1>0, <1>15, <2>3, Typed DEF PacketTyped, Reconnect, listenVars
    <3>4. WireTyped'
      BY <1>0, <1>15, <2>3, Typed DEF WireTyped, Reconnect
    <3>5. CountsTyped'
      BY <1>0, <1>15, <2>3, Typed DEF CountsTyped, Reconnect, threadVars
    <3>6. QED
      BY <3>1, <3>2, <3>3, <3>4, <3>5, Typed
  <2>5. PlanInv' /\ ListenInv'
    BY <1>0, <1>15 DEF Reconnect, PlanInv, ListenInv, Current, threadVars,
       listenVars
  <2>6. QED
    BY <2>4, <2>5 DEF PlaceInv
<1>16. CASE Restart
  <2>1. TypeOK'
    <3>1. PeerTyped'
      BY <1>0, <1>16, BoundsAssumption, Typed DEF PeerTyped, Restart
    <3>2. CallsTyped'
      BY <1>0, <1>16, BoundsAssumption, Typed DEF CallsTyped, Restart
    <3>3. PacketTyped'
      BY <1>0, <1>16, BoundsAssumption, Typed DEF PacketTyped, Restart
    <3>4. WireTyped'
      BY <1>0, <1>16, EmptySeq, Typed DEF WireTyped, Restart
    <3>5. CountsTyped'
      BY <1>0, <1>16, BoundsAssumption, Typed DEF CountsTyped, Restart
    <3>6. QED
      BY <3>1, <3>2, <3>3, <3>4, <3>5, Typed
  <2>2. PlanInv' /\ ListenInv'
    BY <1>16 DEF Restart, PlanInv, ListenInv
  <2>3. QED
    BY <2>1, <2>2 DEF PlaceInv
<1>17. CASE UNCHANGED vars
  BY <1>0, <1>17 DEF PlaceInv, TypeOK, PlanInv, ListenInv, Current, vars,
     peerVars,
     threadVars, listenVars, wireVars, history
<1>18. QED
  BY <1>1, <1>2, <1>3, <1>4, <1>5, <1>6, <1>7, <1>8, <1>9, <1>10, <1>11, <1>12,
     <1>13,
     <1>14, <1>15, <1>16, <1>17, Zenon DEF Next, SetValue, PacketReceived

-----------------------------------------------------------------------------
(* The database *)

LEMMA WritersAre ==
  ASSUME NEW v
  PROVE  /\ Writers(v) \subseteq Threads \cup {"listen"}
         /\ \A t \in Threads : t \in Writers(v) <=> Does(t, "save") /\ Current(t).var = v
         /\ "listen" \in Writers(v) <=> lpc = "save" /\ Variable = v
BY ThreadsAssumption DEF Writers, Variable

LEMMA WritersBecome ==
  ASSUME NEW v
  PROVE  /\ Writers(v)' \subseteq Threads \cup {"listen"}
         /\ \A t \in Threads :
              t \in Writers(v)' <=> Does(t, "save")' /\ Current(t)'.var = v
         /\ "listen" \in Writers(v)' <=> lpc' = "save" /\ Variable' = v
BY ThreadsAssumption DEF Writers, Variable

(* Nobody begins or ends to write. *)
WritersKept ==
  \A v \in Vars :
    Writers(v)' = Writers(v) /\ \A w \in Writers(v) : ToSave(w)' = ToSave(w)

LEMMA DbKept ==
  ASSUME DbInv, WritersKept, UNCHANGED <<mem, db, crossed>>
  PROVE  DbInv'
BY DEF DbInv, WritersKept

(* w has written x, and has value to save. *)
LEMMA DbWritten ==
  ASSUME TypeOK, DbInv, NEW w, NEW x \in Vars, NEW value,
         Write(x, value), db' = db, ToSave(w)' = value,
         \A v \in Vars : Writers(v)' = IF v = x THEN Writers(v) \cup {w} ELSE Writers(v),
         \A v \in Vars : \A u \in Writers(v) : ToSave(u)' = ToSave(u)
  PROVE  DbInv'
<1> SUFFICES ASSUME NEW v \in Vars, v \notin crossed'
             PROVE  /\ Writers(v)' = {} => db'[v] = mem'[v]
                    /\ \A u \in Writers(v)' : Writers(v)' = {u} /\ ToSave(u)' = mem'[v]
  BY DEF DbInv
<1>1. CASE v = x
  <2>1. Writers(x) = {}
    BY <1>1 DEF Write
  <2>2. Writers(v)' = {w} /\ mem'[v] = value
    BY <1>1, <2>1 DEF Write, TypeOK
  <2>3. QED
    BY <2>2
<1>2. CASE v # x
  <2>1. v \notin crossed /\ mem'[v] = mem[v] /\ Writers(v)' = Writers(v)
    BY <1>2 DEF Write, TypeOK
  <2>2. QED
    BY <2>1 DEF DbInv
<1>3. QED
  BY <1>1, <1>2

(* w has saved x. *)
LEMMA DbSaved ==
  ASSUME TypeOK, DbInv, NEW w, NEW x \in Vars,
         w \in Writers(x), \A v \in Vars \ {x} : w \notin Writers(v),
         Save(x, ToSave(w)), UNCHANGED <<mem, crossed>>,
         \A v \in Vars : Writers(v)' = IF v = x THEN Writers(v) \ {w} ELSE Writers(v),
         \A v \in Vars : \A u \in Writers(v) \ {w} : ToSave(u)' = ToSave(u)
  PROVE  DbInv'
<1> SUFFICES ASSUME NEW v \in Vars, v \notin crossed'
             PROVE  /\ Writers(v)' = {} => db'[v] = mem'[v]
                    /\ \A u \in Writers(v)' : Writers(v)' = {u} /\ ToSave(u)' = mem'[v]
  BY DEF DbInv
<1>1. CASE v = x
  <2>1. Writers(v) = {w} /\ ToSave(w) = mem[v]
    BY <1>1 DEF DbInv
  <2>2. Writers(v)' = {} /\ db'[v] = mem'[v]
    BY <1>1, <2>1 DEF Save, TypeOK
  <2>3. QED
    BY <2>2
<1>2. CASE v # x
  <2>1. Writers(v)' = Writers(v) /\ db'[v] = db[v] /\ mem'[v] = mem[v]
    BY <1>2 DEF Save, TypeOK
  <2>2. ASSUME NEW u \in Writers(v)
        PROVE  Writers(v) = {u} /\ ToSave(u) = mem[v] /\ ToSave(u)' = ToSave(u)
    <3>1. Writers(v) = {u} /\ ToSave(u) = mem[v]
      BY <2>1 DEF DbInv, Save
    <3>2. u # w
      BY <1>2
    <3>3. QED
      BY <3>1, <3>2
  <2>3. QED
    BY <2>1, <2>2 DEF DbInv
<1>3. QED
  BY <1>1, <1>2

(* The values that calls and the listen thread are to save, and where they are. *)
LEMMA ToSaves ==
  /\ \A t \in Threads : ToSave(t) = Current(t).value /\ ToSave(t)' = Current(t)'.value
  /\ ToSave("listen") = packet.value /\ ToSave("listen")' = packet'.value
BY ThreadsAssumption DEF ToSave

(* A step of one call, as far as its writing goes. *)
LEMMA CallWrites ==
  ASSUME NEW t \in Threads, Others(t), UNCHANGED listenVars, NEW v,
         ~Does(t, "save"), ~Does(t, "save")'
  PROVE  Writers(v)' = Writers(v) /\ \A w \in Writers(v) : ToSave(w)' = ToSave(w)
<1>1. \A u \in Threads : u \in Writers(v)' <=> u \in Writers(v)
  BY WritersAre, WritersBecome DEF Others, Does, Current
<1>2. "listen" \in Writers(v)' <=> "listen" \in Writers(v)
  BY WritersAre, WritersBecome DEF listenVars, Variable
<1>3. Writers(v)' = Writers(v)
  BY <1>1, <1>2, WritersAre, WritersBecome
<1>4. ASSUME NEW w \in Writers(v)
      PROVE  ToSave(w)' = ToSave(w)
  <2>1. CASE w = "listen"
    BY <2>1, ToSaves DEF listenVars
  <2>2. CASE w \in Threads
    <3>1. w # t
      BY <2>2, WritersAre
    <3>2. QED
      BY <2>2, <3>1, ToSaves DEF Others, Current
  <2>3. QED
    BY <2>1, <2>2, WritersAre
<1>5. QED
  BY <1>3, <1>4

(* The listen thread leaves the calls alone. *)
LEMMA PacketWritersOf ==
  ASSUME UNCHANGED threadVars, NEW v
  PROVE  /\ Writers(v)' \ {"listen"} = Writers(v) \ {"listen"}
         /\ \A w \in Writers(v) \ {"listen"} : ToSave(w)' = ToSave(w)
<1>1. \A u \in Threads : u \in Writers(v)' <=> u \in Writers(v)
  BY WritersAre, WritersBecome DEF threadVars, Does, Current
<1>2. Writers(v)' \ {"listen"} = Writers(v) \ {"listen"}
  BY <1>1, WritersAre, WritersBecome
<1>3. ASSUME NEW w \in Writers(v) \ {"listen"}
      PROVE  ToSave(w)' = ToSave(w)
  <2>1. w \in Threads
    BY WritersAre
  <2>2. QED
    BY <2>1, ToSaves DEF threadVars, Current
<1>4. QED
  BY <1>2, <1>3

LEMMA WritersUnchanged ==
  ASSUME UNCHANGED threadVars,
         (lpc # "save" /\ lpc' # "save") \/ UNCHANGED <<lpc, packet, at>>
  PROVE  WritersKept
<1> SUFFICES ASSUME NEW v \in Vars
             PROVE  Writers(v)' = Writers(v) /\ \A w \in Writers(v) : ToSave(w)' = ToSave(w)
  BY DEF WritersKept
<1>1. "listen" \in Writers(v)' <=> "listen" \in Writers(v)
  BY WritersAre, WritersBecome DEF Variable
<1>2. "listen" \in Writers(v) => ToSave("listen")' = ToSave("listen")
  BY WritersAre, ToSaves
<1>3. QED
  BY <1>1, <1>2, PacketWritersOf

LEMMA DbStep == PlaceInv /\ DbInv /\ [Next]_vars => DbInv'
<1> SUFFICES ASSUME PlaceInv, DbInv, [Next]_vars
             PROVE  DbInv'
  OBVIOUS
<1>0. TypeOK /\ PlanInv /\ ListenInv
  BY DEF PlaceInv
<1>1. ASSUME NEW t \in Threads, PutParamset(t)
      PROVE  DbInv'
  <2>1. Others(t) /\ ~Does(t, "save") /\ ~Does(t, "save")'
    BY <1>0, <1>1, CallBegins DEF Does
  <2>2. UNCHANGED <<listenVars, mem, db, crossed>>
    BY <1>1 DEF PutParamset, peerVars, history
  <2>3. WritersKept
    BY <2>1, <2>2, CallWrites DEF WritersKept
  <2>4. QED
    BY <2>2, <2>3, DbKept
<1>2. ASSUME NEW t \in Threads, SetBinaryData(t)
      PROVE  DbInv'
  <2> DEFINE x == Current(t).var
  <2>1. plan[t] # <<>> /\ Does(t, "write") /\ ~Does(t, "save") /\ ~Does(t, "raise")
    BY <1>2 DEF SetBinaryData, Does
  <2>2. Others(t) /\ todo' = todo /\ Does(t, "save")'
    BY <1>0, <1>2, <2>1, CallMoves DEF SetBinaryData, Follows
  <2>3. x \in Vars /\ Write(x, Current(t).value) /\ db' = db /\ UNCHANGED listenVars
    BY <1>0, <1>2, <2>1, CallPlaces DEF SetBinaryData
  <2>4. ToSave(t)' = Current(t).value
    BY <2>2, ToSaves DEF Current
  <2>5. ASSUME NEW v \in Vars
        PROVE  /\ Writers(v)' = IF v = x THEN Writers(v) \cup {t} ELSE Writers(v)
               /\ \A u \in Writers(v) : ToSave(u)' = ToSave(u)
    <3>1. \A u \in Threads \ {t} : u \in Writers(v)' <=> u \in Writers(v)
      BY <2>2, WritersAre, WritersBecome DEF Others, Does, Current
    <3>2. (t \in Writers(v)' <=> v = x) /\ t \notin Writers(v)
      BY <2>1, <2>2, WritersAre, WritersBecome DEF Current
    <3>3. "listen" \in Writers(v)' <=> "listen" \in Writers(v)
      BY <2>3, WritersAre, WritersBecome DEF listenVars, Variable
    <3>4. Writers(v)' = IF v = x THEN Writers(v) \cup {t} ELSE Writers(v)
      <4>1. /\ Writers(v) \subseteq Threads \cup {"listen"}
            /\ Writers(v)' \subseteq Threads \cup {"listen"}
        BY WritersAre, WritersBecome
      <4>2. \A u \in Threads \cup {"listen"} :
              u \in Writers(v)' <=> u \in Writers(v) \/ (u = t /\ v = x)
        BY <3>1, <3>2, <3>3, ThreadsAssumption
      <4>3. QED
        BY <4>1, <4>2
    <3>5. \A u \in Threads : ToSave(u)' = ToSave(u)
      BY <2>2, ToSaves DEF Current
    <3>6. ToSave("listen")' = ToSave("listen")
      BY <2>3, ToSaves DEF listenVars
    <3>7. QED
      BY <3>4, <3>5, <3>6, WritersAre
  <2> HIDE DEF x
  <2>6. QED
    BY <1>0, <2>3, <2>4, <2>5, DbWritten
<1>3. ASSUME NEW t \in Threads, SaveParameter(t)
      PROVE  DbInv'
  <2> DEFINE x == Current(t).var
  <2>1. plan[t] # <<>> /\ Does(t, "save") /\ ~Does(t, "write") /\ ~Does(t, "raise")
    BY <1>3 DEF SaveParameter, Does
  <2>2. Others(t) /\ todo' = todo /\ ~Does(t, "save")'
    BY <1>0, <1>3, <2>1, CallMoves DEF SaveParameter, Follows, Does
  <2>3. /\ x \in Vars /\ Save(x, Current(t).value)
        /\ UNCHANGED <<mem, crossed, listenVars>>
    BY <1>0, <1>3, <2>1, CallPlaces DEF SaveParameter, history
  <2>4. Save(x, ToSave(t))
    BY <2>3, ToSaves
  <2>5. ASSUME NEW v \in Vars
        PROVE  /\ Writers(v)' = IF v = x THEN Writers(v) \ {t} ELSE Writers(v)
               /\ t \in Writers(v) <=> v = x
               /\ \A u \in Writers(v) \ {t} : ToSave(u)' = ToSave(u)
    <3>1. \A u \in Threads \ {t} : u \in Writers(v)' <=> u \in Writers(v)
      BY <2>2, WritersAre, WritersBecome DEF Others, Does, Current
    <3>2. (t \in Writers(v) <=> v = x) /\ t \notin Writers(v)'
      BY <2>1, <2>2, WritersAre, WritersBecome
    <3>3. "listen" \in Writers(v)' <=> "listen" \in Writers(v)
      BY <2>3, WritersAre, WritersBecome DEF listenVars, Variable
    <3>4. Writers(v)' = IF v = x THEN Writers(v) \ {t} ELSE Writers(v)
      BY <3>1, <3>2, <3>3, ThreadsAssumption, WritersAre, WritersBecome
    <3>5. \A u \in Threads : ToSave(u)' = ToSave(u)
      BY <2>2, ToSaves DEF Current
    <3>6. ToSave("listen")' = ToSave("listen")
      BY <2>3, ToSaves DEF listenVars
    <3>7. QED
      BY <3>2, <3>4, <3>5, <3>6, WritersAre
  <2> HIDE DEF x
  <2>6. QED
    BY <1>0, <2>3, <2>4, <2>5, DbSaved
<1>4. ASSUME NEW t \in Threads, SendPacket(t)
      PROVE  DbInv'
  <2>1. plan[t] # <<>> /\ Does(t, "send") /\ ~Does(t, "save")
    BY <1>4 DEF SendPacket, Does
  <2>2. Others(t) /\ ~Does(t, "save")'
    BY <1>0, <1>4, <2>1, CallMoves DEF SendPacket, Follows, Does
  <2>3. UNCHANGED <<listenVars, mem, db, crossed>>
    BY <1>4 DEF SendPacket, peerVars, history
  <2>4. WritersKept
    BY <2>1, <2>2, <2>3, CallWrites DEF WritersKept
  <2>5. QED
    BY <2>3, <2>4, DbKept
<1>5. ASSUME NEW t \in Threads, CannotCreatePacket(t)
      PROVE  DbInv'
  <2>1. plan[t] # <<>> /\ Does(t, "send") /\ ~Does(t, "save")
    BY <1>5 DEF CannotCreatePacket, Does
  <2>2. Others(t) /\ ~Does(t, "save")'
    BY <1>0, <1>5, <2>1, ValueIsSet DEF CannotCreatePacket, Does
  <2>3. UNCHANGED <<listenVars, mem, db, crossed>>
    BY <1>5 DEF CannotCreatePacket, peerVars
  <2>4. WritersKept
    BY <2>1, <2>2, <2>3, CallWrites DEF WritersKept
  <2>5. QED
    BY <2>3, <2>4, DbKept
<1>6. ASSUME NEW t \in Threads, RaiseEvent(t)
      PROVE  DbInv'
  <2>1. plan[t] # <<>> /\ Does(t, "raise") /\ ~Does(t, "save")
    BY <1>6 DEF RaiseEvent, Does
  <2>2. Others(t) /\ ~Does(t, "save")'
    BY <1>0, <1>6, <2>1, CallMoves DEF RaiseEvent, Does
  <2>3. UNCHANGED <<listenVars, mem, db, crossed>>
    BY <1>6 DEF RaiseEvent
  <2>4. WritersKept
    BY <2>1, <2>2, <2>3, CallWrites DEF WritersKept
  <2>5. QED
    BY <2>3, <2>4, DbKept
<1>7. CASE Receive
  BY <1>7, WritersUnchanged, DbKept DEF Receive, peerVars, history
<1>8. CASE Compare
  BY <1>8, WritersUnchanged, DbKept DEF Compare, peerVars, history
<1>9. CASE PacketWrites
  <2>1. packet.state \in States /\ Variable \in Vars
    BY <1>0, <1>9, Frames DEF PacketWrites, ListenInv, TypeOK, Message, Variable
  <2>2. /\ Write(Variable, packet.value) /\ db' = db /\ ToSave("listen")' = packet.value
        /\ UNCHANGED <<threadVars, packet, at>>
    BY <1>9, ToSaves DEF PacketWrites
  <2>3. ASSUME NEW v \in Vars
        PROVE  /\ Writers(v)' = IF v = Variable THEN Writers(v) \cup {"listen"} ELSE Writers(v)
               /\ \A u \in Writers(v) : ToSave(u)' = ToSave(u)
    <3>1. ("listen" \in Writers(v)' <=> v = Variable) /\ "listen" \notin Writers(v)
      BY <1>9, WritersAre, WritersBecome DEF PacketWrites, Variable
    <3>2. QED
      BY <2>2, <3>1, PacketWritersOf
  <2>4. QED
    BY <1>0, <2>1, <2>2, <2>3, DbWritten
<1>10. CASE PacketSaves
  <2>1. packet.state \in States /\ Variable \in Vars
    BY <1>0, <1>10, Frames DEF PacketSaves, ListenInv, TypeOK, Message, Variable
  <2>2. /\ Save(Variable, ToSave("listen")) /\ UNCHANGED <<mem, crossed, threadVars>>
    BY <1>10, ToSaves DEF PacketSaves, history
  <2>3. ASSUME NEW v \in Vars
        PROVE  /\ Writers(v)' = IF v = Variable THEN Writers(v) \ {"listen"} ELSE Writers(v)
               /\ "listen" \in Writers(v) <=> v = Variable
               /\ \A u \in Writers(v) \ {"listen"} : ToSave(u)' = ToSave(u)
    <3>1. ("listen" \in Writers(v) <=> v = Variable) /\ "listen" \notin Writers(v)'
      BY <1>10, WritersAre, WritersBecome DEF PacketSaves
    <3>2. QED
      BY <2>2, <3>1, PacketWritersOf
  <2>4. QED
    BY <1>0, <2>1, <2>2, <2>3, DbSaved
<1>11. CASE PacketRaises
  BY <1>11, WritersUnchanged, DbKept DEF PacketRaises
<1>12. ASSUME NEW s \in States, Change(s)
       PROVE  DbInv'
  BY <1>12, WritersUnchanged, DbKept DEF Change, peerVars, listenVars
<1>13. CASE Command
  BY <1>13, WritersUnchanged, DbKept DEF Command, peerVars, listenVars
<1>14. CASE Lose
  BY <1>14, WritersUnchanged, DbKept DEF Lose, peerVars, listenVars, history
<1>15. CASE Reconnect
  BY <1>15, WritersUnchanged, DbKept DEF Reconnect, peerVars, listenVars
<1>16. CASE Restart
  <2>1. ASSUME NEW v \in Vars
        PROVE  Writers(v)' = {}
    BY <1>16, WritersBecome DEF Restart, Does
  <2>2. QED
    BY <1>16, <2>1 DEF Restart, DbInv
<1>17. CASE UNCHANGED vars
  BY <1>17, WritersUnchanged, DbKept DEF vars, peerVars, listenVars, history
<1>18. QED
  BY <1>1, <1>2, <1>3, <1>4, <1>5, <1>6, <1>7, <1>8, <1>9, <1>10, <1>11, <1>12,
     <1>13,
     <1>14, <1>15, <1>16, <1>17, Zenon DEF Next, SetValue, PacketReceived

-----------------------------------------------------------------------------
(* Events *)

(* Whoever is still to raise the event of v is still to. *)
LEMMA EventsKept ==
  ASSUME EventInv, UNCHANGED <<mem, seen>>,
         \A v \in Vars \ stale' : v \notin stale /\ (Due(v) => Due(v)')
  PROVE  EventInv'
BY DEF EventInv

(* A step of a call leaves the listen thread and the other calls their events. *)
LEMMA CallEvents ==
  ASSUME NEW t \in Threads, Others(t), UNCHANGED listenVars, NEW v,
         Due(v), Raises(t, v) => Raises(t, v)'
  PROVE  Due(v)'
<1>1. CASE \E u \in Threads : Raises(u, v)
  <2>1. PICK u \in Threads : Raises(u, v)
    BY <1>1
  <2>2. Raises(u, v)'
    <3>1. CASE u # t
      BY <2>1, <3>1 DEF Others, Raises, Does, Current
    <3>2. QED
      BY <2>1, <3>1
  <2>3. QED
    BY <2>2 DEF Due
<1>2. CASE v \in changed \/ (lpc = "save" /\ Variable = v)
  BY <1>2 DEF Due, listenVars, Variable
<1>3. QED
  BY <1>1, <1>2 DEF Due

(* What the listen thread does leaves the calls their events. *)
LEMMA PacketEvents ==
  ASSUME UNCHANGED threadVars, NEW v, Due(v),
         v \in changed \/ (lpc = "save" /\ Variable = v) =>
           v \in changed' \/ (lpc' = "save" /\ Variable' = v)
  PROVE  Due(v)'
<1>1. \A u \in Threads : Raises(u, v)' <=> Raises(u, v)
  BY DEF threadVars, Raises, Does, Current
<1>2. QED
  BY <1>1 DEF Due

LEMMA EventsUnchanged ==
  ASSUME EventInv, UNCHANGED <<threadVars, mem, seen, stale, packet, changed>>,
         UNCHANGED <<lpc, at>> \/ lpc # "save"
  PROVE  EventInv'
<1>1. ASSUME NEW v \in Vars, Due(v)
      PROVE  Due(v)'
  BY <1>1, PacketEvents DEF Variable
<1>2. QED
  BY <1>1, EventsKept

LEMMA EventStep == PlaceInv /\ EventInv /\ [Next]_vars => EventInv'
<1> SUFFICES ASSUME PlaceInv, EventInv, [Next]_vars
             PROVE  EventInv'
  OBVIOUS
<1>0. TypeOK /\ PlanInv /\ ListenInv
  BY DEF PlaceInv
<1>1. ASSUME NEW t \in Threads, PutParamset(t)
      PROVE  EventInv'
  <2>1. Others(t) /\ \A v : ~Raises(t, v)
    BY <1>0, <1>1, CallBegins DEF Raises, Does
  <2>2. UNCHANGED <<listenVars, mem, seen, stale>>
    BY <1>1 DEF PutParamset, peerVars, history
  <2>3. QED
    BY <2>1, <2>2, CallEvents, EventsKept
<1>2. ASSUME NEW t \in Threads, SetBinaryData(t)
      PROVE  EventInv'
  <2>1. plan[t] # <<>> /\ Does(t, "write") /\ ~Does(t, "raise")
    BY <1>2 DEF SetBinaryData, Does
  <2>2. Others(t) /\ todo' = todo /\ Does(t, "save")'
    BY <1>0, <1>2, <2>1, CallMoves DEF SetBinaryData, Follows
  <2>3. UNCHANGED <<listenVars, seen, stale>> /\ Write(Current(t).var, Current(t).value)
    BY <1>2 DEF SetBinaryData
  <2>4. ASSUME NEW v \in Vars \ stale'
        PROVE  seen'[v] = mem'[v] \/ Due(v)'
    <3>1. CASE v = Current(t).var
      BY <2>2, <3>1 DEF Due, Raises, Current
    <3>2. CASE v # Current(t).var
      <4>1. mem'[v] = mem[v]
        BY <1>0, <2>3, <3>2 DEF Write, TypeOK
      <4>2. Due(v) => Due(v)'
        BY <2>2, <2>3, <3>2, CallEvents DEF Raises
      <4>3. QED
        BY <2>3, <4>1, <4>2 DEF EventInv
    <3>3. QED
      BY <3>1, <3>2
  <2>5. QED
    BY <2>4 DEF EventInv
<1>3. ASSUME NEW t \in Threads, SaveParameter(t)
      PROVE  EventInv'
  <2>1. plan[t] # <<>> /\ Does(t, "save") /\ ~Does(t, "raise")
    BY <1>3 DEF SaveParameter, Does
  <2>2. Others(t) /\ todo' = todo /\ (Does(t, "raise")' \/ Does(t, "send")')
    BY <1>0, <1>3, <2>1, CallMoves DEF SaveParameter, Follows
  <2>3. UNCHANGED <<listenVars, mem, seen, stale>>
    BY <1>3 DEF SaveParameter, history
  <2>4. \A v : Raises(t, v) => Raises(t, v)'
    BY <2>2 DEF Raises, Current
  <2>5. QED
    BY <2>2, <2>3, <2>4, CallEvents, EventsKept
<1>4. ASSUME NEW t \in Threads, SendPacket(t)
      PROVE  EventInv'
  <2>1. plan[t] # <<>> /\ Does(t, "send") /\ ~Does(t, "raise")
    BY <1>4 DEF SendPacket, Does
  <2>2. Others(t) /\ todo' = todo /\ Does(t, "raise")'
    BY <1>0, <1>4, <2>1, CallMoves DEF SendPacket, Follows
  <2>3. UNCHANGED <<listenVars, mem, seen, stale>>
    BY <1>4 DEF SendPacket, peerVars, history
  <2>4. \A v : Raises(t, v) => Raises(t, v)'
    BY <2>2 DEF Raises, Current
  <2>5. QED
    BY <2>2, <2>3, <2>4, CallEvents, EventsKept
<1>5. ASSUME NEW t \in Threads, CannotCreatePacket(t)
      PROVE  EventInv'
  <2>1. Others(t)
    BY <1>0, <1>5, ValueIsSet DEF CannotCreatePacket, Does
  <2>2. UNCHANGED <<listenVars, mem, seen>> /\ stale' = stale \cup {Current(t).var}
    BY <1>5 DEF CannotCreatePacket, peerVars
  <2>3. \A v \in Vars \ stale' : ~Raises(t, v)
    BY <2>2 DEF Raises
  <2>4. QED
    BY <2>1, <2>2, <2>3, CallEvents, EventsKept
<1>6. ASSUME NEW t \in Threads, RaiseEvent(t)
      PROVE  EventInv'
  <2>1. plan[t] # <<>> /\ Current(t).var \in Vars
    BY <1>0, <1>6, CallPlaces DEF RaiseEvent, Does
  <2>2. Others(t)
    BY <1>0, <1>6, <2>1, CallMoves DEF RaiseEvent
  <2>3. /\ UNCHANGED <<listenVars, mem>>
        /\ Raise({Current(t).var}, Current(t).value)
    BY <1>6 DEF RaiseEvent
  <2>4. ASSUME NEW v \in Vars \ stale'
        PROVE  seen'[v] = mem'[v] \/ Due(v)'
    <3>1. CASE v = Current(t).var
      BY <2>3, <3>1 DEF Raise
    <3>2. CASE v # Current(t).var
      <4>1. v \notin stale /\ seen'[v] = seen[v]
        BY <2>3, <3>2 DEF Raise
      <4>2. Due(v) => Due(v)'
        BY <2>2, <2>3, <3>2, CallEvents DEF Raises
      <4>3. QED
        BY <2>3, <4>1, <4>2 DEF EventInv
    <3>3. QED
      BY <3>1, <3>2
  <2>5. QED
    BY <2>4 DEF EventInv
<1>7. CASE Receive
  <2>1. changed = {} /\ lpc = "idle" /\ UNCHANGED <<threadVars, mem, seen, stale>>
    BY <1>0, <1>7 DEF Receive, ListenInv, peerVars, history
  <2>2. ASSUME NEW v \in Vars, Due(v)
        PROVE  Due(v)'
    BY <2>1, <2>2, PacketEvents
  <2>3. QED
    BY <2>1, <2>2, EventsKept
<1>8. CASE Compare
  BY <1>8, EventsUnchanged DEF Compare, peerVars, history
<1>9. CASE PacketWrites
  <2>1. /\ lpc = "write" /\ lpc' = "save" /\ Variable' = Variable
        /\ Write(Variable, packet.value) /\ UNCHANGED <<threadVars, changed, seen, stale>>
    BY <1>9 DEF PacketWrites, Variable
  <2>2. ASSUME NEW v \in Vars \ stale'
        PROVE  seen'[v] = mem'[v] \/ Due(v)'
    <3>1. CASE v = Variable
      BY <2>1, <3>1 DEF Due
    <3>2. CASE v # Variable
      <4>1. mem'[v] = mem[v]
        BY <1>0, <2>1, <3>2 DEF Write, TypeOK
      <4>2. Due(v) => Due(v)'
        BY <2>1, PacketEvents
      <4>3. QED
        BY <2>1, <4>1, <4>2 DEF EventInv
    <3>3. QED
      BY <3>1, <3>2
  <2>3. QED
    BY <2>2 DEF EventInv
<1>10. CASE PacketSaves
  <2>1. /\ lpc = "save" /\ changed' = changed \cup {Variable}
        /\ UNCHANGED <<threadVars, mem, seen, stale>>
    BY <1>10 DEF PacketSaves, history
  <2>2. ASSUME NEW v \in Vars, Due(v)
        PROVE  Due(v)'
    BY <2>1, <2>2, PacketEvents
  <2>3. QED
    BY <2>1, <2>2, EventsKept
<1>11. CASE PacketRaises
  <2>1. /\ lpc = "compare" /\ Raise(changed, packet.value) /\ UNCHANGED <<threadVars, mem>>
    BY <1>11 DEF PacketRaises
  <2>2. ASSUME NEW v \in Vars \ stale'
        PROVE  seen'[v] = mem'[v] \/ Due(v)'
    <3>1. CASE v \in changed
      BY <2>1, <3>1 DEF Raise
    <3>2. CASE v \notin changed
      <4>1. v \notin stale /\ seen'[v] = seen[v]
        BY <2>1, <3>2 DEF Raise
      <4>2. Due(v) => Due(v)'
        BY <2>1, <3>2, PacketEvents
      <4>3. QED
        BY <2>1, <4>1, <4>2 DEF EventInv
    <3>3. QED
      BY <3>1, <3>2
  <2>3. QED
    BY <2>2 DEF EventInv
<1>12. ASSUME NEW s \in States, Change(s)
       PROVE  EventInv'
  BY <1>12, EventsUnchanged DEF Change, peerVars, listenVars
<1>13. CASE Command
  BY <1>13, EventsUnchanged DEF Command, peerVars, listenVars
<1>14. CASE Lose
  BY <1>14, EventsUnchanged DEF Lose, peerVars, listenVars, history
<1>15. CASE Reconnect
  BY <1>15, EventsUnchanged DEF Reconnect, peerVars, listenVars
<1>16. CASE Restart
  BY <1>16 DEF Restart, EventInv
<1>17. CASE UNCHANGED vars
  BY <1>17, EventsUnchanged DEF vars, peerVars, listenVars, history
<1>18. QED
  BY <1>1, <1>2, <1>3, <1>4, <1>5, <1>6, <1>7, <1>8, <1>9, <1>10, <1>11, <1>12,
     <1>13,
     <1>14, <1>15, <1>16, <1>17, Zenon DEF Next, SetValue, PacketReceived

-----------------------------------------------------------------------------
(* The last packet of a state *)

LEMMA LastBecomes ==
  ASSUME TypeOK, LastInv, NEW s \in States, NEW value \in Values, Becomes(s, value),
         UNCHANGED <<connected, lpc, packet>>
  PROVE  LastInv'
<1>1. /\ state'[s] = value /\ \A r \in States \ {s} : state'[r] = state[r]
      /\ ~connected => up' = up
      /\ connected => /\ Len(up') = Len(up) + 1
                      /\ \A i \in 1..Len(up) : up'[i] = up[i]
                      /\ up'[Len(up) + 1] = [state |-> s, value |-> value]
      /\ up' \in Seq(Message)
  BY StateBecomes
<1>2. up \in Seq(Message) /\ packet \in Message /\ (~connected => up = <<>>)
  BY DEF TypeOK
<1>3. CASE connected
  <2>1. /\ DOMAIN up = 1..Len(up) /\ DOMAIN up' = 1..(Len(up) + 1) /\ Len(up) \in Nat
        /\ \A i \in 1..Len(up) : up[i].state \in States
    <3>1. DOMAIN up = 1..Len(up) /\ Len(up) \in Nat /\ \A i \in 1..Len(up) : up[i] \in Message
      BY <1>2
    <3>2. DOMAIN up' = 1..(Len(up) + 1)
      BY <1>1, <1>3
    <3>3. QED
      BY <3>1, <3>2 DEF Message
  <2>2. ASSUME NEW i \in DOMAIN up',
               \A j \in DOMAIN up' : j > i => up'[j].state # up'[i].state
        PROVE  up'[i].value = state'[up'[i].state]
    <3>1. CASE i = Len(up) + 1
      BY <1>1, <1>3, <3>1
    <3>2. CASE i # Len(up) + 1
      <4>1. i \in 1..Len(up) /\ Len(up) + 1 \in DOMAIN up' /\ Len(up) + 1 > i
        BY <2>1, <3>2
      <4>2. up'[i] = up[i] /\ up[i].state \in States \ {s}
        BY <1>1, <1>3, <2>1, <2>2, <4>1
      <4>3. \A j \in DOMAIN up : j > i => up[j].state # up[i].state
        BY <1>1, <1>3, <2>1, <2>2, <4>1
      <4>4. up[i].value = state[up[i].state]
        BY <2>1, <4>1, <4>3 DEF LastInv, OfState
      <4>5. QED
        BY <1>1, <4>2, <4>4
    <3>3. QED
      BY <3>1, <3>2
  <2>3. ASSUME lpc # "idle", \A i \in DOMAIN up' : up'[i].state # packet.state
        PROVE  packet.value = state'[packet.state]
    <3>1. packet.state \in States \ {s}
      BY <1>1, <1>2, <1>3, <2>1, <2>3 DEF Message
    <3>2. \A i \in DOMAIN up : up[i].state # packet.state
      BY <1>1, <1>3, <2>1, <2>3
    <3>3. packet.value = state[packet.state]
      BY <1>3, <2>3, <3>2 DEF LastInv, UpHas, OfState
    <3>4. QED
      BY <1>1, <3>1, <3>3
  <2>4. QED
    BY <2>2, <2>3 DEF LastInv, UpHas, OfState
<1>4. CASE ~connected
  <2>1. up' = <<>> /\ ~connected'
    BY <1>1, <1>2, <1>4
  <2>2. QED
    BY <2>1 DEF LastInv
<1>5. QED
  BY <1>3, <1>4

LEMMA LastUnchanged ==
  ASSUME LastInv, UNCHANGED <<state, up>>,
         connected' /\ lpc' # "idle" => connected /\ lpc # "idle" /\ packet' = packet
  PROVE  LastInv'
BY DEF LastInv, UpHas, OfState

LEMMA LastStep == PlaceInv /\ LastInv /\ [Next]_vars => LastInv'
<1> SUFFICES ASSUME PlaceInv, LastInv, [Next]_vars
             PROVE  LastInv'
  OBVIOUS
<1>0. TypeOK
  BY DEF PlaceInv
<1>1. ASSUME NEW t \in Threads, PutParamset(t)
      PROVE  LastInv'
  BY <1>1, LastUnchanged DEF PutParamset, listenVars, wireVars
<1>2. ASSUME NEW t \in Threads, SetBinaryData(t)
      PROVE  LastInv'
  BY <1>2, LastUnchanged DEF SetBinaryData, listenVars, wireVars
<1>3. ASSUME NEW t \in Threads, SaveParameter(t)
      PROVE  LastInv'
  BY <1>3, LastUnchanged DEF SaveParameter, listenVars, wireVars
<1>4. ASSUME NEW t \in Threads, SendPacket(t)
      PROVE  LastInv'
  BY <1>4, LastUnchanged DEF SendPacket, listenVars
<1>5. ASSUME NEW t \in Threads, CannotCreatePacket(t)
      PROVE  LastInv'
  BY <1>5, LastUnchanged DEF CannotCreatePacket, listenVars, wireVars
<1>6. ASSUME NEW t \in Threads, RaiseEvent(t)
      PROVE  LastInv'
  BY <1>6, LastUnchanged DEF RaiseEvent, listenVars, wireVars
<1>7. CASE Receive
  <2>1. /\ up \in Seq(Message) /\ up # <<>> /\ up' = Tail(up) /\ packet' = Head(up)
        /\ UNCHANGED <<state, connected>>
    BY <1>0, <1>7 DEF Receive, TypeOK
  <2>2. /\ up' \in Seq(Message) /\ Len(up) \in Nat \ {0} /\ Len(up') = Len(up) - 1
        /\ \A i \in 1..Len(up') : up'[i] = up[i + 1]
    BY <2>1, Tails
  <2>3. DOMAIN up = 1..Len(up) /\ DOMAIN up' = 1..(Len(up) - 1) /\ packet' = up[1]
    BY <2>1, <2>2
  <2>4. \A i \in 2..Len(up) : i - 1 \in DOMAIN up' /\ up'[i - 1] = up[i]
    BY <2>2, <2>3
  <2>5. ASSUME NEW i \in DOMAIN up',
               \A j \in DOMAIN up' : j > i => up'[j].state # up'[i].state
        PROVE  up'[i].value = state'[up'[i].state]
    <3>1. i + 1 \in DOMAIN up /\ up'[i] = up[i + 1]
      BY <2>2, <2>3
    <3>2. ASSUME NEW j \in DOMAIN up, j > i + 1
          PROVE  up[j].state # up[i + 1].state
      <4>1. j - 1 \in DOMAIN up' /\ j - 1 > i /\ up'[j - 1] = up[j]
        BY <2>2, <2>3, <2>4, <3>1, <3>2
      <4>2. QED
        BY <2>5, <3>1, <4>1
    <3>3. up[i + 1].value = state[up[i + 1].state]
      BY <3>1, <3>2 DEF LastInv, OfState
    <3>4. QED
      BY <2>1, <3>1, <3>3
  <2>6. ASSUME connected, \A i \in DOMAIN up' : up'[i].state # packet'.state
        PROVE  packet'.value = state'[packet'.state]
    <3>1. 1 \in DOMAIN up
      BY <2>2, <2>3
    <3>2. ASSUME NEW j \in DOMAIN up, j > 1
          PROVE  up[j].state # up[1].state
      <4>1. j - 1 \in DOMAIN up' /\ up'[j - 1] = up[j]
        BY <2>2, <2>3, <2>4, <3>2
      <4>2. QED
        BY <2>3, <2>6, <4>1
    <3>3. up[1].value = state[up[1].state]
      BY <3>1, <3>2 DEF LastInv, OfState
    <3>4. QED
      BY <2>1, <2>3, <3>3
  <2>7. QED
    BY <2>1, <2>5, <2>6 DEF LastInv, UpHas, OfState
<1>8. CASE Compare
  BY <1>8, LastUnchanged DEF Compare, wireVars
<1>9. CASE PacketWrites
  BY <1>9, LastUnchanged DEF PacketWrites, wireVars
<1>10. CASE PacketSaves
  BY <1>10, LastUnchanged DEF PacketSaves, wireVars
<1>11. CASE PacketRaises
  BY <1>11, LastUnchanged DEF PacketRaises, wireVars
<1>12. ASSUME NEW s \in States, Change(s)
       PROVE  LastInv'
  <2>1. PICK value \in Values : Becomes(s, value)
    BY <1>12 DEF Change
  <2>2. UNCHANGED <<connected, lpc, packet>>
    BY <1>12 DEF Change, listenVars
  <2>3. QED
    BY <1>0, <2>1, <2>2, LastBecomes
<1>13. CASE Command
  <2>1. /\ Head(down) \in Message /\ UNCHANGED <<connected, listenVars>>
        /\ \/ Becomes(Head(down).state, Head(down).value)
           \/ Ignored(Head(down).state, Head(down).value)
    BY <1>0, <1>13, CommandEffect
  <2>2. Head(down).state \in States /\ Head(down).value \in Values
    BY <2>1 DEF Message
  <2>3. CASE Becomes(Head(down).state, Head(down).value)
    BY <1>0, <2>1, <2>2, <2>3, LastBecomes DEF listenVars
  <2>4. CASE Ignored(Head(down).state, Head(down).value)
    BY <2>1, <2>4, LastUnchanged DEF Ignored, listenVars
  <2>5. QED
    BY <2>1, <2>3, <2>4
<1>14. CASE Lose
  BY <1>14 DEF Lose, LastInv
<1>15. CASE Reconnect
  <2>1. PICK q \in SetToSeqs(States) :
          up' = [i \in DOMAIN q |-> [state |-> q[i], value |-> state[q[i]]]]
    BY <1>15 DEF Reconnect
  <2>2. \A i \in DOMAIN up' : up'[i].value = state[up'[i].state]
    BY <2>1
  <2>3. QED
    BY <1>15, <2>2 DEF Reconnect, LastInv, listenVars
<1>16. CASE Restart
  BY <1>16 DEF Restart, LastInv
<1>17. CASE UNCHANGED vars
  BY <1>17, LastUnchanged DEF vars, listenVars, wireVars
<1>18. QED
  BY <1>1, <1>2, <1>3, <1>4, <1>5, <1>6, <1>7, <1>8, <1>9, <1>10, <1>11, <1>12,
     <1>13,
     <1>14, <1>15, <1>16, <1>17, Zenon DEF Next, SetValue, PacketReceived

-----------------------------------------------------------------------------
(* The values of states *)

(* What has to correct a variable is not lost when the state and the queues
   stay as they are, or a packet or a command of another state leaves. *)
PendingKept(s) ==
  /\ state'[s] = state[s]
  /\ \A i \in DOMAIN down : down[i].state = s /\ down[i].value # state[s] =>
       \E j \in DOMAIN down' : down'[j] = down[i]

LEMMA PendingOf ==
  ASSUME NEW s, NEW t \in Threads, Others(t), PendingKept(s), Pending(s),
         Commands(t, s) => Pending(s)'
  PROVE  Pending(s)'
<1>1. CASE \E i \in DOMAIN down : down[i].state = s /\ down[i].value # state[s]
  BY <1>1 DEF Pending, PendingKept
<1>2. CASE \E u \in Threads : Commands(u, s)
  <2>1. PICK u \in Threads : Commands(u, s)
    BY <1>2
  <2>2. CASE u # t
    <3>1. Commands(u, s)'
      BY <2>1, <2>2 DEF Commands, Others, Does, Current, PendingKept
    <3>2. QED
      BY <3>1 DEF Pending
  <2>3. QED
    BY <2>1, <2>2
<1>3. QED
  BY <1>1, <1>2 DEF Pending

LEMMA PendingStays ==
  ASSUME NEW s, UNCHANGED threadVars, PendingKept(s), Pending(s)
  PROVE  Pending(s)'
BY DEF threadVars, PendingKept, Pending, Commands, Does, Current

(* A step of a call: t writes no state of its own accord, and what it was to
   command of s it still is. *)
LEMMA ShownByCall ==
  ASSUME ShownInv, NEW t \in Threads, Others(t),
         UNCHANGED <<listenVars, connected, up, state>>,
         \A i \in DOMAIN down : \E j \in DOMAIN down' : down'[j] = down[i],
         \A s \in States \ unheeded' :
           /\ s \notin unheeded
           /\ connected /\ Commands(t, s) => Pending(s)'
           /\ connected => \A v \in Range(Frame[s]) :
                mem'[v] = mem[v] \/ mem'[v] = state[s] \/ Pending(s)'
  PROVE  ShownInv'
<1> SUFFICES ASSUME connected, NEW s \in States \ unheeded', NEW v \in Range(Frame[s])
             PROVE  mem'[v] = state'[s] \/ Corrected(s, v)'
  BY DEF ShownInv
<1>1. mem[v] = state[s] \/ Corrected(s, v)
  BY DEF ShownInv
<1>2. CASE Corrected(s, v)
  <2>1. Pending(s) => Pending(s)'
    BY PendingOf DEF PendingKept
  <2>2. QED
    BY <1>2, <2>1 DEF Corrected, UpHas, OfState, Reaches, listenVars
<1>3. CASE mem[v] = state[s]
  BY <1>3 DEF Corrected
<1>4. QED
  BY <1>1, <1>2, <1>3

(* A step that changes no state and takes no message. *)
LEMMA ShownUnchanged ==
  ASSUME ShownInv, UNCHANGED <<mem, threadVars, wireVars, unheeded>>,
         \A s \in States \ unheeded : \A v \in Range(Frame[s]) :
           connected /\ ~UpHas(s) /\ lpc # "idle" /\ packet.state = s /\ Reaches(v) =>
             mem[v] = state[s] \/ (lpc' # "idle" /\ packet'.state = s /\ Reaches(v)')
  PROVE  ShownInv'
<1> SUFFICES ASSUME connected, NEW s \in States \ unheeded, NEW v \in Range(Frame[s])
             PROVE  mem[v] = state[s] \/ Corrected(s, v)'
  BY DEF ShownInv, wireVars
<1>1. Pending(s) => Pending(s)'
  BY PendingStays DEF PendingKept, wireVars
<1>2. UpHas(s)' <=> UpHas(s)
  BY DEF UpHas, OfState, wireVars
<1>3. QED
  BY <1>1, <1>2 DEF ShownInv, Corrected

(* A state gets a value, and the packet about it corrects its variables. *)
LEMMA ShownBecomes ==
  ASSUME TypeOK, ShownInv, NEW s \in States, NEW value \in Values, Becomes(s, value),
         UNCHANGED <<mem, threadVars, listenVars, connected>>,
         \A r \in States \ {s} : PendingKept(r)
  PROVE  ShownInv'
<1> SUFFICES ASSUME connected, NEW r \in States \ unheeded', NEW v \in Range(Frame[r])
             PROVE  mem'[v] = state'[r] \/ Corrected(r, v)'
  BY DEF ShownInv
<1>1. /\ unheeded' = unheeded \ {s} /\ up' \in Seq(Message) /\ Len(up') = Len(up) + 1
      /\ \A q \in States \ {s} : state'[q] = state[q]
      /\ \A i \in 1..Len(up) : up'[i] = up[i]
      /\ up'[Len(up) + 1] = [state |-> s, value |-> value]
  BY StateBecomes
<1>2. /\ DOMAIN up = 1..Len(up) /\ DOMAIN up' = 1..(Len(up) + 1) /\ Len(up) \in Nat
  BY <1>1 DEF TypeOK
<1>3. CASE r = s
  <2>1. Len(up) + 1 \in DOMAIN up' /\ up'[Len(up) + 1].state = r
    BY <1>1, <1>2, <1>3
  <2>2. UpHas(r)'
    BY <2>1 DEF UpHas, OfState
  <2>3. QED
    BY <2>2 DEF Corrected
<1>4. CASE r # s
  <2>1. r \notin unheeded /\ state'[r] = state[r] /\ (mem[v] = state[r] \/ Corrected(r, v))
    BY <1>1, <1>4 DEF ShownInv
  <2>2. UpHas(r) => UpHas(r)'
    BY <1>1, <1>2 DEF UpHas, OfState
  <2>3. Pending(r) => Pending(r)'
    BY <1>4, PendingStays
  <2>4. QED
    BY <2>1, <2>2, <2>3 DEF Corrected, Reaches, listenVars
<1>5. QED
  BY <1>3, <1>4

(* A command leaves the queue: what is pending of other states stays. *)
LEMMA CommandLeaves ==
  ASSUME TypeOK, Command, NEW r \in States, state'[r] = state[r],
         r # Head(down).state \/ Head(down).value = state[r]
  PROVE  PendingKept(r)
<1>1. down \in Seq(Message) /\ down # <<>> /\ down' = Tail(down)
  BY DEF TypeOK, Command
<1>2. /\ Len(down) \in Nat \ {0} /\ Len(down') = Len(down) - 1 /\ down' \in Seq(Message)
      /\ \A i \in 1..Len(down') : down'[i] = down[i + 1]
  BY <1>1, Tails
<1>3. Head(down) = down[1] /\ DOMAIN down = 1..Len(down) /\ DOMAIN down' = 1..Len(down')
  BY <1>1, <1>2
<1>4. ASSUME NEW i \in DOMAIN down, down[i].state = r /\ down[i].value # state[r]
      PROVE  \E j \in DOMAIN down' : down'[j] = down[i]
  <2>1. i # 1
    BY <1>3, <1>4
  <2>2. i - 1 \in DOMAIN down' /\ down'[i - 1] = down[i]
    BY <1>2, <1>3, <2>1
  <2>3. QED
    BY <2>2
<1>5. QED
  BY <1>4 DEF PendingKept

LEMMA ShownIgnored ==
  ASSUME TypeOK, ShownInv, Command, Ignored(Head(down).state, Head(down).value),
         UNCHANGED <<mem, threadVars, listenVars, connected>>
  PROVE  ShownInv'
<1> SUFFICES ASSUME connected, NEW r \in States \ unheeded', NEW v \in Range(Frame[r])
             PROVE  mem'[v] = state'[r] \/ Corrected(r, v)'
  BY DEF ShownInv
<1>1. /\ r \notin unheeded /\ UNCHANGED <<state, up>>
      /\ r # Head(down).state \/ Head(down).value = state[r]
  BY DEF Ignored
<1>2. Pending(r) => Pending(r)'
  BY <1>1, CommandLeaves, PendingStays
<1>3. mem[v] = state[r] \/ Corrected(r, v)
  BY <1>1 DEF ShownInv
<1>4. UpHas(r)' <=> UpHas(r)
  BY <1>1 DEF UpHas, OfState
<1>5. QED
  BY <1>1, <1>2, <1>3, <1>4 DEF Corrected, Reaches, listenVars

LEMMA ShownStep == PlaceInv /\ LastInv /\ ShownInv /\ [Next]_vars => ShownInv'
<1> SUFFICES ASSUME PlaceInv, LastInv, ShownInv, [Next]_vars
             PROVE  ShownInv'
  OBVIOUS
<1>0. TypeOK /\ PlanInv /\ ListenInv
  BY DEF PlaceInv
<1>1. ASSUME NEW t \in Threads, PutParamset(t)
      PROVE  ShownInv'
  <2>1. Others(t) /\ \A s : ~Commands(t, s)
    BY <1>0, <1>1, CallBegins DEF Commands, Does
  <2>2. UNCHANGED <<listenVars, connected, up, down, state, mem, unheeded>>
    BY <1>1 DEF PutParamset, peerVars, wireVars, history
  <2>3. QED
    BY <2>1, <2>2, ShownByCall
<1>2. ASSUME NEW t \in Threads, SetBinaryData(t)
      PROVE  ShownInv'
  <2>1. plan[t] # <<>> /\ Does(t, "write") /\ ~Does(t, "raise") /\ \A s : ~Commands(t, s)
    BY <1>2 DEF SetBinaryData, Does, Commands
  <2>2. Others(t) /\ todo' = todo /\ Does(t, "save")'
    BY <1>0, <1>2, <2>1, CallMoves DEF SetBinaryData, Follows
  <2>3. /\ UNCHANGED <<listenVars, connected, up, down, state, unheeded>>
        /\ Write(Current(t).var, Current(t).value)
    BY <1>2 DEF SetBinaryData, wireVars
  <2>4. ASSUME NEW s \in States, NEW v \in Range(Frame[s])
        PROVE  mem'[v] = mem[v] \/ mem'[v] = state[s] \/ Pending(s)'
    <3>1. v \in Vars
      BY Frames
    <3>2. CASE v # Current(t).var
      BY <1>0, <2>3, <3>1, <3>2 DEF Write, TypeOK
    <3>3. CASE v = Current(t).var
      <4>1. mem'[v] = Current(t).value
        BY <1>0, <2>3, <3>1, <3>3 DEF Write, TypeOK
      <4>2. Current(t).value # state[s] => Commands(t, s)'
        BY <2>2, <2>3, <3>3 DEF Commands, Current
      <4>3. QED
        BY <4>1, <4>2 DEF Pending
    <3>4. QED
      BY <3>2, <3>3
  <2>5. QED
    BY <2>1, <2>2, <2>3, <2>4, ShownByCall
<1>3. ASSUME NEW t \in Threads, SaveParameter(t)
      PROVE  ShownInv'
  <2>1. plan[t] # <<>> /\ Does(t, "save") /\ ~Does(t, "raise")
    BY <1>3 DEF SaveParameter, Does
  <2>2. /\ Others(t) /\ todo' = todo
        /\ Current(t).var \notin Stored => Does(t, "send")'
    BY <1>0, <1>3, <2>1, CallMoves DEF SaveParameter, Follows
  <2>3. UNCHANGED <<listenVars, connected, up, down, state, mem, unheeded>>
    BY <1>3 DEF SaveParameter, wireVars, history
  <2>4. ASSUME NEW s \in States, Commands(t, s)
        PROVE  Pending(s)'
    <3>1. Current(t).var \notin Stored
      BY <2>4, Frames DEF Commands
    <3>2. Commands(t, s)'
      BY <2>2, <2>3, <2>4, <3>1 DEF Commands, Current
    <3>3. QED
      BY <3>2 DEF Pending
  <2>5. QED
    BY <2>2, <2>3, <2>4, ShownByCall
<1>4. ASSUME NEW t \in Threads, SendPacket(t)
      PROVE  ShownInv'
  <2> DEFINE command == [state |-> StateOf(Current(t).var), value |-> Current(t).value]
  <2>1. plan[t] # <<>> /\ Does(t, "send") /\ ~Does(t, "raise")
    BY <1>4 DEF SendPacket, Does
  <2>2. Others(t) /\ Current(t).var \in Commanded /\ Current(t).value \in Values
    BY <1>0, <1>4, <2>1, CallMoves, CallPlaces DEF SendPacket
  <2>3. /\ UNCHANGED <<listenVars, connected, up, state, mem, unheeded>>
        /\ down' = IF connected THEN Append(down, command) ELSE down
    BY <1>4 DEF SendPacket, peerVars, history
  <2>4. command \in Message /\ down \in Seq(Message)
    BY <1>0, <2>2, Frames DEF Message, TypeOK
  <2>5. ASSUME connected
        PROVE  /\ DOMAIN down = 1..Len(down) /\ DOMAIN down' = 1..(Len(down) + 1)
               /\ \A i \in 1..Len(down) : down'[i] = down[i]
               /\ down'[Len(down) + 1] = command /\ Len(down) \in Nat
    <3> HIDE DEF command
    <3>1. QED
      BY <2>3, <2>4, <2>5, AppendProperties
  <2>6. \A i \in DOMAIN down : \E j \in DOMAIN down' : down'[j] = down[i]
    <3>1. CASE connected
      BY <2>5, <3>1
    <3>2. CASE ~connected
      BY <2>3, <3>2
    <3>3. QED
      BY <3>1, <3>2
  <2>7. ASSUME NEW s \in States, connected, Commands(t, s)
        PROVE  Pending(s)'
    <3>1. StateOf(Current(t).var) = s /\ Current(t).value # state[s]
      BY <2>7, Frames DEF Commands
    <3>2. Len(down) + 1 \in DOMAIN down'
      BY <2>5, <2>7
    <3>3. /\ down'[Len(down) + 1].state = s /\ down'[Len(down) + 1].value # state'[s]
      BY <2>3, <2>5, <2>7, <3>1
    <3>4. QED
      BY <3>2, <3>3 DEF Pending
  <2>8. QED
    BY <2>2, <2>3, <2>6, <2>7, ShownByCall
<1>5. ASSUME NEW t \in Threads, CannotCreatePacket(t)
      PROVE  ShownInv'
  <2>1. Others(t)
    BY <1>0, <1>5, ValueIsSet DEF CannotCreatePacket, Does
  <2>2. /\ UNCHANGED <<listenVars, connected, up, down, state, mem>>
        /\ unheeded' = unheeded \cup {StateOf(Current(t).var)}
    BY <1>5 DEF CannotCreatePacket, peerVars, wireVars
  <2>3. \A s \in States \ unheeded' : s \notin unheeded /\ ~Commands(t, s)
    BY <2>2, Frames DEF Commands
  <2>4. QED
    BY <2>1, <2>2, <2>3, ShownByCall
<1>6. ASSUME NEW t \in Threads, RaiseEvent(t)
      PROVE  ShownInv'
  <2>1. plan[t] # <<>> /\ \A s : ~Commands(t, s)
    BY <1>6 DEF RaiseEvent, Does, Commands
  <2>2. Others(t)
    BY <1>0, <1>6, <2>1, CallMoves DEF RaiseEvent
  <2>3. UNCHANGED <<listenVars, connected, up, down, state, mem, unheeded>>
    BY <1>6 DEF RaiseEvent, wireVars
  <2>4. QED
    BY <2>1, <2>2, <2>3, ShownByCall
<1>7. CASE Receive
  <2>1. /\ up \in Seq(Message) /\ up # <<>> /\ up' = Tail(up) /\ packet' = Head(up)
        /\ lpc = "idle" /\ lpc' = "compare" /\ at' = 1
        /\ UNCHANGED <<mem, threadVars, state, connected, down, unheeded>>
    BY <1>0, <1>7 DEF Receive, TypeOK, peerVars, history
  <2>2. /\ up' \in Seq(Message) /\ Len(up) \in Nat \ {0} /\ Len(up') = Len(up) - 1
        /\ \A i \in 1..Len(up') : up'[i] = up[i + 1]
    BY <2>1, Tails
  <2>3. DOMAIN up = 1..Len(up) /\ DOMAIN up' = 1..(Len(up) - 1) /\ packet' = up[1]
    BY <2>1, <2>2
  <2>4. ASSUME connected, NEW s \in States \ unheeded, NEW v \in Range(Frame[s])
        PROVE  mem[v] = state[s] \/ Corrected(s, v)'
    <3>1. mem[v] = state[s] \/ UpHas(s) \/ Pending(s)
      BY <2>1, <2>4 DEF ShownInv, Corrected
    <3>2. Pending(s) => Pending(s)'
      BY <2>1, PendingStays DEF PendingKept
    <3>3. ASSUME UpHas(s)
          PROVE  Corrected(s, v)'
      <4>1. PICK i \in DOMAIN up : up[i].state = s
        BY <3>3 DEF UpHas, OfState
      <4>2. CASE i = 1
        <5>1. packet'.state = s
          BY <2>3, <4>1, <4>2
        <5>2. \E k \in DOMAIN Frame[s] : Frame[s][k] = v /\ k >= 1
          BY Frames DEF Range
        <5>3. Reaches(v)'
          BY <2>1, <5>1, <5>2 DEF Reaches
        <5>4. QED
          BY <2>1, <5>1, <5>3 DEF Corrected
      <4>3. CASE i # 1
        <5>1. i - 1 \in DOMAIN up' /\ up'[i - 1] = up[i]
          BY <2>2, <2>3, <4>3
        <5>2. UpHas(s)'
          BY <4>1, <5>1 DEF UpHas, OfState
        <5>3. QED
          BY <5>2 DEF Corrected
      <4>4. QED
        BY <4>2, <4>3
    <3>4. QED
      BY <3>1, <3>2, <3>3 DEF Corrected
  <2>5. QED
    BY <2>1, <2>4 DEF ShownInv
<1>8. CASE Compare
  <2>1. /\ lpc = "compare" /\ lpc' \in {"compare", "write"} /\ packet' = packet
        /\ at' = at \/ (at' = at + 1 /\ mem[Variable] = packet.value)
        /\ at \in Nat /\ packet.state \in States
        /\ UNCHANGED <<mem, threadVars, wireVars, unheeded>>
    BY <1>0, <1>8 DEF Compare, TypeOK, Message, peerVars, history
  <2>2. ASSUME NEW s \in States \ unheeded, NEW v \in Range(Frame[s]),
               connected, ~UpHas(s), packet.state = s, Reaches(v)
        PROVE  mem[v] = state[s] \/ Reaches(v)'
    <3>1. packet.value = state[s]
      BY <2>1, <2>2 DEF LastInv
    <3>2. PICK i \in DOMAIN Frame[s] : Frame[s][i] = v /\ i >= at
      BY <2>2 DEF Reaches
    <3>3. i \in Nat
      BY <3>2, Frames
    <3>4. CASE i = at
      <4>1. CASE at' = at
        BY <2>1, <2>2, <3>2, <4>1 DEF Reaches
      <4>2. CASE mem[Variable] = packet.value
        BY <2>2, <3>1, <3>2, <3>4, <4>2 DEF Variable
      <4>3. QED
        BY <2>1, <4>1, <4>2
    <3>5. CASE i # at
      <4>1. i >= at'
        BY <2>1, <3>2, <3>3, <3>5
      <4>2. QED
        BY <2>1, <2>2, <3>2, <4>1 DEF Reaches
    <3>6. QED
      BY <3>4, <3>5
  <2>3. QED
    BY <2>1, <2>2, ShownUnchanged
<1>9. CASE PacketWrites
  <2>1. packet.state \in States /\ Variable \in Vars /\ Variable \in Range(Frame[packet.state])
    BY <1>0, <1>9, Frames DEF PacketWrites, ListenInv, TypeOK, Message, Variable
  <2>2. /\ lpc = "write" /\ lpc' = "save" /\ UNCHANGED <<packet, at, threadVars, wireVars, unheeded>>
        /\ mem' = [mem EXCEPT ![Variable] = packet.value] /\ mem \in [Vars -> Values]
        /\ at \in Nat
    BY <1>0, <1>9 DEF PacketWrites, Write, TypeOK
  <2>3. ASSUME connected, NEW s \in States \ unheeded, NEW v \in Range(Frame[s])
        PROVE  mem'[v] = state[s] \/ Corrected(s, v)'
    <3>1. (Pending(s) => Pending(s)') /\ (UpHas(s)' <=> UpHas(s))
      BY <2>2, PendingStays DEF PendingKept, wireVars, UpHas, OfState
    <3>2. CASE v = Variable
      <4>1. packet.state = s /\ mem'[v] = packet.value
        BY <2>1, <2>2, <3>2, Frames
      <4>2. UpHas(s) \/ packet.value = state[s]
        BY <2>2, <2>3, <4>1 DEF LastInv
      <4>3. QED
        BY <3>1, <4>1, <4>2 DEF Corrected
    <3>3. CASE v # Variable
      <4>1. mem'[v] = mem[v] /\ (mem[v] = state[s] \/ Corrected(s, v))
        BY <2>2, <2>3, <3>3, Frames DEF ShownInv
      <4>2. ASSUME packet.state = s, Reaches(v)
            PROVE  Reaches(v)'
        <5>1. PICK i \in DOMAIN Frame[s] : Frame[s][i] = v /\ i >= at
          BY <4>2 DEF Reaches
        <5>2. i \in Nat /\ i # at
          BY <3>3, <4>2, <5>1, Frames DEF Variable
        <5>3. i > at
          BY <2>2, <5>1, <5>2
        <5>4. QED
          BY <2>2, <4>2, <5>1, <5>3 DEF Reaches
      <4>3. QED
        BY <2>2, <3>1, <4>1, <4>2 DEF Corrected
    <3>4. QED
      BY <3>2, <3>3
  <2>4. QED
    BY <2>2, <2>3 DEF ShownInv, wireVars
<1>10. CASE PacketSaves
  <2>1. /\ lpc = "save" /\ lpc' = "compare" /\ at' = at + 1 /\ packet' = packet
        /\ at \in Nat /\ packet.state \in States
        /\ UNCHANGED <<mem, threadVars, wireVars, unheeded>>
    BY <1>0, <1>10 DEF PacketSaves, TypeOK, Message, history
  <2>2. ASSUME NEW v, Reaches(v)
        PROVE  Reaches(v)'
    <3>1. PICK i \in DOMAIN Frame[packet.state] :
            Frame[packet.state][i] = v /\ i >= at /\ i > at
      BY <2>1, <2>2 DEF Reaches
    <3>2. i \in Nat
      BY <2>1, <3>1, Frames
    <3>3. i >= at'
      BY <2>1, <3>1, <3>2
    <3>4. QED
      BY <2>1, <3>1, <3>3 DEF Reaches
  <2>3. QED
    BY <2>1, <2>2, ShownUnchanged
<1>11. CASE PacketRaises
  <2>1. /\ at > Len(Frame[packet.state]) /\ at \in Nat /\ packet.state \in States
        /\ UNCHANGED <<mem, threadVars, wireVars, unheeded>>
    BY <1>0, <1>11 DEF PacketRaises, TypeOK, Message
  <2>2. \A v : ~Reaches(v)
    BY <2>1, Frames DEF Reaches
  <2>3. QED
    BY <2>1, <2>2, ShownUnchanged
<1>12. ASSUME NEW s \in States, Change(s)
       PROVE  ShownInv'
  <2>1. PICK value \in Values : Becomes(s, value)
    BY <1>12 DEF Change
  <2>2. UNCHANGED <<mem, threadVars, listenVars, connected, down>>
    BY <1>12 DEF Change, peerVars
  <2>3. \A r \in States \ {s} : PendingKept(r)
    BY <1>0, <2>1, <2>2, StateBecomes DEF PendingKept
  <2>4. QED
    BY <1>0, <2>1, <2>2, <2>3, ShownBecomes
<1>13. CASE Command
  <2> DEFINE c == Head(down)
  <2>1. /\ c \in Message /\ UNCHANGED <<mem, threadVars, listenVars, connected>>
        /\ Becomes(c.state, c.value) \/ Ignored(c.state, c.value)
    BY <1>0, <1>13, CommandEffect DEF peerVars
  <2>2. c.state \in States /\ c.value \in Values
    BY <2>1 DEF Message
  <2>3. CASE Becomes(c.state, c.value)
    <3>1. \A r \in States \ {c.state} : state'[r] = state[r]
      BY <1>0, <2>2, <2>3, StateBecomes
    <3>2. \A r \in States \ {c.state} : PendingKept(r)
      BY <1>0, <1>13, <3>1, CommandLeaves
    <3>3. QED
      BY <1>0, <2>1, <2>2, <2>3, <3>2, ShownBecomes
  <2>4. CASE Ignored(c.state, c.value)
    BY <1>0, <1>13, <2>1, <2>4, ShownIgnored
  <2>5. QED
    BY <2>1, <2>3, <2>4
<1>14. CASE Lose
  BY <1>14 DEF Lose, ShownInv
<1>15. CASE Reconnect
  <2>1. PICK q \in SetToSeqs(States) :
          up' = [i \in DOMAIN q |-> [state |-> q[i], value |-> state[q[i]]]]
    BY <1>15 DEF Reconnect
  <2>2. ASSUME NEW s \in States
        PROVE  UpHas(s)'
    <3>1. PICK i \in DOMAIN q : q[i] = s
      BY Orders
    <3>2. i \in DOMAIN up' /\ up'[i].state = s
      BY <2>1, <3>1
    <3>3. QED
      BY <3>2 DEF UpHas, OfState
  <2>3. QED
    BY <2>2 DEF ShownInv, Corrected
<1>16. CASE Restart
  BY <1>16 DEF Restart, ShownInv
<1>17. CASE UNCHANGED vars
  <2>1. UNCHANGED <<mem, threadVars, listenVars, wireVars, unheeded>>
    BY <1>17 DEF vars, peerVars, history
  <2>2. QED
    BY <2>1, ShownUnchanged DEF listenVars, Reaches
<1>18. QED
  BY <1>1, <1>2, <1>3, <1>4, <1>5, <1>6, <1>7, <1>8, <1>9, <1>10, <1>11, <1>12,
     <1>13,
     <1>14, <1>15, <1>16, <1>17, Zenon DEF Next, SetValue, PacketReceived

-----------------------------------------------------------------------------
(* The invariant *)

LEMMA IInvInit == Init => IInv
<1> SUFFICES ASSUME Init
             PROVE  IInv
  OBVIOUS
<1>1. PICK value \in Values : mem = [v \in Vars |-> value]
  BY DEF Init
<1>2. PICK s \in States : packet = [state |-> s, value |-> state[s]]
  BY DEF Init
<1>3. PeerTyped /\ CallsTyped
  BY <1>1, EmptySeq DEF Init, PeerTyped, CallsTyped
<1>4. PacketTyped /\ WireTyped /\ CountsTyped
  <2>1. packet \in Message
    BY <1>2 DEF Init, Message
  <2>2. PacketTyped
    BY <2>1 DEF Init, PacketTyped
  <2>3. WireTyped
    BY EmptySeq DEF Init, WireTyped
  <2>4. CountsTyped
    BY BoundsAssumption DEF Init, CountsTyped
  <2>5. QED
    BY <2>2, <2>3, <2>4
<1>5. PlanInv /\ ListenInv
  BY DEF Init, PlanInv, ListenInv
<1>6. DbInv
  BY WritersAre DEF Init, DbInv, Does
<1>7. EventInv
  BY DEF Init, EventInv
<1>8. LastInv /\ ShownInv
  BY DEF Init, LastInv, ShownInv
<1>9. QED
  BY <1>3, <1>4, <1>5, <1>6, <1>7, <1>8, Typed DEF IInv, PlaceInv

LEMMA IInvStep == IInv /\ [Next]_vars => IInv'
BY PlaceStep, DbStep, EventStep, LastStep, ShownStep DEF IInv

LEMMA Invariant == Spec => []IInv
<1>1. QED
  BY IInvInit, IInvStep, PTL DEF Spec

(* The memory, the database, the events, the calls and the packets stay what
   they are declared to be, whatever fails. *)
THEOREM TypeCorrect == Spec => []TypeOK
<1>1. IInv => TypeOK
  BY DEF IInv, PlaceInv
<1>2. QED
  BY <1>1, Invariant, PTL

(* When nothing is under way every variable has the value of its state, unless
   a command of it was not carried out (LoxonePeer.cpp, lines 594, 914). *)
THEOREM PeersShowTheirStates == Spec => []ValuesAgree
<1>1. IInv => ValuesAgree
  <2> SUFFICES ASSUME IInv, Quiet, connected, up = <<>>, down = <<>>,
                      NEW s \in States \ unheeded, NEW v \in Range(Frame[s])
               PROVE  mem[v] = state[s]
    BY DEF ValuesAgree
  <2>1. \A t \in Threads : plan[t] = <<>>
    BY DEF IInv, PlaceInv, PlanInv, Quiet
  <2>2. ~Pending(s) /\ ~UpHas(s)
    BY <2>1 DEF Pending, Commands, Does, UpHas
  <2>3. QED
    BY <2>2 DEF IInv, ShownInv, Corrected, Quiet
<1>2. QED
  BY <1>1, Invariant, PTL

(* What is saved is what the peer has, unless two threads wrote it at once
   (LoxonePeer.cpp, lines 594 and 595, 914 and 915). *)
THEOREM ValuesAreSaved == Spec => []DatabaseFollows
<1>1. IInv => DatabaseFollows
  <2> SUFFICES ASSUME IInv, Quiet, NEW v \in Vars \ crossed
               PROVE  db[v] = mem[v]
    BY DEF DatabaseFollows
  <2>1. \A t \in Threads : plan[t] = <<>>
    BY DEF IInv, PlaceInv, PlanInv, Quiet
  <2>2. Writers(v) = {}
    BY <2>1, WritersAre DEF Does, Quiet
  <2>3. QED
    BY <2>2 DEF IInv, DbInv
<1>2. QED
  BY <1>1, Invariant, PTL

(* The clients were told the value a variable has, unless a call raised the
   event of a value a packet had changed, or returned with an error
   (LoxonePeer.cpp, lines 989, 998). *)
THEOREM ValuesAreTold == Spec => []EventsFollow
<1>1. IInv => EventsFollow
  <2> SUFFICES ASSUME IInv, Quiet, NEW v \in Vars \ stale
               PROVE  seen[v] = mem[v]
    BY DEF EventsFollow
  <2>1. \A t \in Threads : plan[t] = <<>>
    BY DEF IInv, PlaceInv, PlanInv, Quiet
  <2>2. ~Due(v)
    BY <2>1 DEF IInv, PlaceInv, ListenInv, Due, Raises, Does, Quiet
  <2>3. QED
    BY <2>2 DEF IInv, EventInv
<1>2. QED
  BY <1>1, Invariant, PTL
=============================================================================
