------------------------- MODULE RequestReplyProofs -------------------------
(***************************************************************************)
(* Proofs about RequestReply: its inductive invariant, in four layers,     *)
(* each of them inductive relative to the ones before it; the safety       *)
(* properties of the rendezvous follow from them.                          *)
(***************************************************************************)
EXTENDS RequestReply, TLAPS

-----------------------------------------------------------------------------
(* The inductive invariant *)

(* Layer 1, control: the thread in the exchange holds the mutexes, its
   request is the last one registered, and its counters keep step. *)

HolderInv == \A t \in Threads : InExchange(t) <=> holder = t

AskedInv ==
  \A t \in Threads :
    IF pc[t] \in {"idle", "fail"} THEN asked[t] = None ELSE asked[t] \in Commands

InFlightInv ==
  \A t \in Threads :
    /\ pc[t] = "register" => calls < MaxCalls
    /\ InFlight(t) => req[t] = calls /\ req[t] \in Requests /\ cmd[req[t]] = asked[t]

CounterInv ==
  \A t \in Threads :
    /\ 2 * waited[t] <= evals[t]
    /\ pc[t] = "wait" => 2 * waited[t] + 1 <= evals[t]
    /\ pc[t] \in {"send", "check", "wait"} => evals[t] < WaitForSeconds
    /\ pc[t] \notin {"check", "wait", "take", "erase"} => evals[t] = 0 /\ waited[t] = 0

RegisteredInv ==
  /\ \A r \in Requests : r <= calls => cmd[r] \in Commands
  /\ \A r \in sent : r <= calls
  /\ \A c \in Commands : responses[c] <= calls
  /\ pending \subseteq sent
  /\ lpc \in {"lookup", "write"} => lpkt \in sent
  /\ lpc \in {"write", "ready"} => lreq \in Requests /\ lreq <= calls

ControlInv ==
  TypeOK /\ HolderInv /\ AskedInv /\ InFlightInv /\ CounterInv /\ RegisteredInv

(* Layer 2, routing: entries belong to their command, the newest request of
   a command is the only one that can have it. *)

MapInv ==
  /\ \A c \in Commands : responses[c] # NoRequest => cmd[responses[c]] = c
  /\ \A r \in Requests : r <= calls =>
       responses[cmd[r]] = NoRequest \/ r <= responses[cmd[r]]
  /\ lpc = "write" => cmd[lreq] = cmd[lpkt] /\ lpkt <= lreq

(* Layer 3, answers: an answer is in the air, or in one or more request
   objects and results of its own command, never both. *)

InAir == pending \cup (IF lpc \in {"lookup", "write"} THEN {lpkt} ELSE {})

AnswerInv ==
  /\ \A t \in Threads : pc[t] = "send" => req[t] \notin sent
  /\ lpc \in {"lookup", "write"} => lpkt \notin pending
  /\ \A r \in Requests : response[r] # NoRequest =>
       /\ r <= calls
       /\ response[r] \in sent \ InAir
       /\ cmd[response[r]] = cmd[r]
  /\ \A t \in Threads : result[t] # NoRequest =>
       /\ pc[t] \in {"idle", "erase"}
       /\ req[t] \in Requests /\ req[t] <= calls
       /\ result[t] \in sent \ InAir
       /\ cmd[result[t]] = cmd[req[t]]
  /\ \A t \in Threads : pc[t] = "erase" => result[t] # NoRequest

(* Layer 4, blame: an answer nobody waits for any more is in the air only
   because some call for its command gave up. *)

Blamed(p) == \E q \in gaveUp : q <= p /\ cmd[q] = cmd[p]

BlamedBefore(r) == \E q \in gaveUp : q < r /\ cmd[q] = cmd[r]

StaleInv ==
  /\ \A q \in gaveUp : q <= calls
  /\ \A p \in InAir : Blamed(p) \/ \E t \in Threads : InFlight(t) /\ req[t] = p
  /\ \A r \in Requests : response[r] \notin {NoRequest, r} => BlamedBefore(r)
  /\ StaleNeedsGiveUp

IInv == ControlInv /\ MapInv /\ AnswerInv /\ StaleInv

USE ThreadsAssumption, CommandsAssumption, BoundsAssumption

-----------------------------------------------------------------------------
(* Layer 1 *)

(* The control layer holds before the first call. *)
LEMMA ControlInit == Init => ControlInv
<1> SUFFICES ASSUME Init PROVE ControlInv
  OBVIOUS
<1> USE DEF Init, PCs, ListenPCs, Requests, Answers, NoRequest
<1>0. 0 \in 0..WaitForSeconds /\ 0 \in 0..MaxCalls
  OBVIOUS
<1>1. TypeOK
  BY <1>0 DEF TypeOK
<1>2. HolderInv /\ AskedInv /\ InFlightInv
  BY DEF HolderInv, AskedInv, InFlightInv, InFlight, InExchange
<1>3. CounterInv
  <2>1. ASSUME NEW t \in Threads
        PROVE evals[t] = 0 /\ waited[t] = 0 /\ pc[t] = "idle"
    OBVIOUS
  <2>2. 2 * 0 <= 0
    OBVIOUS
  <2>3. QED
    BY <2>1, <2>2, Zenon DEF CounterInv
<1>4. RegisteredInv
  BY DEF RegisteredInv
<1>5. QED
  BY <1>1, <1>2, <1>3, <1>4 DEF ControlInv

(* What Return leaves behind is well typed. *)
LEMMA ReturnType ==
  ASSUME TypeOK, NEW t \in Threads, NEW next \in PCs, Return(t, next)
  PROVE  /\ pc' \in [Threads -> PCs]
         /\ asked' \in [Threads -> Commands \cup {None}]
         /\ req' \in [Threads -> Answers]
         /\ evals' \in [Threads -> 0..WaitForSeconds]
         /\ waited' \in [Threads -> Nat]
         /\ result' \in [Threads -> Answers]
         /\ holder' \in Threads \cup {None}
  BY DEF TypeOK, Return

(* Every step of getResponse, the listen thread and init() keeps the types. *)
LEMMA TypeStep == ControlInv /\ [Next]_vars => TypeOK'
<1> SUFFICES ASSUME ControlInv, [Next]_vars PROVE TypeOK'
  OBVIOUS
<1> USE DEF ControlInv, TypeOK, PCs, ListenPCs, Requests, Answers, NoRequest,
            callVars, mapVars, objectVars, histVars, listenVars, connVars
<1>1. ASSUME NEW t \in Threads, NEW c \in Commands, Call(t, c) PROVE TypeOK'
  BY <1>1 DEF Call
<1>2. ASSUME NEW t \in Threads, CallStopped(t) PROVE TypeOK'
  BY <1>2 DEF CallStopped
<1>3. ASSUME NEW t \in Threads, Acquire(t) PROVE TypeOK'
  BY <1>3 DEF Acquire
<1>4. ASSUME NEW t \in Threads, Register(t) PROVE TypeOK'
  <2>1. calls + 1 \in Requests
    BY <1>4 DEF Register, InFlightInv
  <2>2. asked[t] \in Commands
    BY <1>4 DEF Register, AskedInv
  <2>3. /\ calls' \in 0..MaxCalls
        /\ cmd' \in [Requests -> Commands \cup {None}]
        /\ responses' \in [Commands -> Answers]
        /\ req' \in [Threads -> Answers]
    BY <1>4, <2>1, <2>2 DEF Register
  <2>4. QED
    BY <1>4, <2>3 DEF Register
<1>5. ASSUME NEW t \in Threads, Send(t) PROVE TypeOK'
  BY <1>5 DEF Send, InFlightInv, InFlight, InExchange
<1>6. ASSUME NEW t \in Threads, SendFails(t) PROVE TypeOK'
  BY <1>6 DEF SendFails
<1>7. ASSUME NEW t \in Threads, Restarted(t) PROVE TypeOK'
  <2>1. req[t] \in Requests
    BY <1>7 DEF Restarted, InFlightInv, InFlight, InExchange
  <2>2. Return(t, "fail") /\ "fail" \in PCs
    BY <1>7 DEF Restarted
  <2>3. QED
    BY <1>7, <2>1, <2>2, ReturnType DEF Restarted
<1>8. ASSUME NEW t \in Threads, Check(t) PROVE TypeOK'
  <2>1. evals[t] + 1 \in 0..WaitForSeconds
    BY <1>8 DEF Check, CounterInv
  <2>2. pc' \in [Threads -> PCs]
    BY <1>8 DEF Check
  <2>3. QED
    BY <1>8, <2>1, <2>2 DEF Check
<1>9. ASSUME NEW t \in Threads, Wake(t) PROVE TypeOK'
  BY <1>9 DEF Wake
<1>10. ASSUME NEW t \in Threads, TimeOut(t) PROVE TypeOK'
  <2>1. evals[t] + 1 \in 0..WaitForSeconds
    BY <1>10 DEF TimeOut, CounterInv
  <2>2. pc' \in [Threads -> PCs] /\ waited' \in [Threads -> Nat]
    BY <1>10 DEF TimeOut
  <2>3. QED
    BY <1>10, <2>1, <2>2 DEF TimeOut
<1>11. ASSUME NEW t \in Threads, TakeNothing(t) PROVE TypeOK'
  <2>1. req[t] \in Requests
    BY <1>11 DEF TakeNothing, InFlightInv, InFlight, InExchange
  <2>2. Return(t, "fail") /\ "fail" \in PCs
    BY <1>11 DEF TakeNothing
  <2>3. QED
    BY <1>11, <2>1, <2>2, ReturnType DEF TakeNothing
<1>12. ASSUME NEW t \in Threads, Take(t) PROVE TypeOK'
  BY <1>12 DEF Take, InFlightInv, InFlight, InExchange
<1>13. ASSUME NEW t \in Threads, Erase(t) PROVE TypeOK'
  <2>1. Return(t, "idle") /\ "idle" \in PCs
    BY <1>13 DEF Erase
  <2>2. responses' \in [Commands -> Answers]
    BY <1>13 DEF Erase
  <2>3. QED
    BY <1>13, <2>1, <2>2, ReturnType DEF Erase
<1>14. ASSUME NEW t \in Threads, Fail(t) PROVE TypeOK'
  BY <1>14 DEF Fail
<1>15. ASSUME NEW r \in Requests, Read(r) PROVE TypeOK'
  BY <1>15 DEF Read
<1>16. CASE Lookup
  BY <1>16 DEF Lookup, RegisteredInv
<1>17. CASE WriteResponse
  BY <1>17 DEF WriteResponse
<1>18. CASE MarkReady
  BY <1>18 DEF MarkReady
<1>19. CASE ConnectionLost
  BY <1>19 DEF ConnectionLost
<1>20. CASE Reconnect
  BY <1>20 DEF Reconnect
<1>21. CASE ClearResponses
  BY <1>21 DEF ClearResponses
<1>22. CASE UNCHANGED vars
  BY <1>22 DEF vars
<1>23. QED
  BY <1>1, <1>2, <1>3, <1>4, <1>5, <1>6, <1>7, <1>8, <1>9, <1>10, <1>11, <1>12,
     <1>13, <1>14, <1>15, <1>16, <1>17, <1>18, <1>19, <1>20, <1>21, <1>22
  DEF Next, CallStep, DeliverStep

(* Steps of the listen thread and the Miniserver leave the calls alone. *)
LEMMA CallFrame ==
  ASSUME HolderInv, AskedInv, InFlightInv, CounterInv,
         UNCHANGED <<callVars, calls, cmd>>
  PROVE  (HolderInv /\ AskedInv /\ InFlightInv /\ CounterInv)'
  BY DEF HolderInv, AskedInv, InFlightInv, CounterInv, InExchange, InFlight,
         callVars

(* Every step keeps the mutexes, the requests and the counters in line. *)
LEMMA ControlStep == ControlInv /\ [Next]_vars => ControlInv'
<1> SUFFICES ASSUME ControlInv, [Next]_vars PROVE ControlInv'
  OBVIOUS
<1>0. TypeOK /\ TypeOK'
  BY TypeStep DEF ControlInv
<1> SUFFICES (HolderInv /\ AskedInv /\ InFlightInv /\ CounterInv /\ RegisteredInv)'
  BY <1>0 DEF ControlInv
<1>a. HolderInv /\ AskedInv /\ InFlightInv /\ CounterInv /\ RegisteredInv
  BY DEF ControlInv
<1> DEFINE Goal == HolderInv /\ AskedInv /\ InFlightInv /\ CounterInv /\ RegisteredInv
<1> USE DEF InExchange, InFlight, PCs, ListenPCs, Requests, Answers, NoRequest,
            callVars, mapVars, objectVars, histVars, listenVars, connVars
<1>1. ASSUME NEW t \in Threads, NEW c \in Commands, Call(t, c) PROVE Goal'
  <2>1. HolderInv'
    BY <1>0, <1>a, <1>1 DEF Call, HolderInv, TypeOK
  <2>2. AskedInv'
    BY <1>0, <1>a, <1>1 DEF Call, AskedInv, TypeOK
  <2>3. InFlightInv'
    BY <1>0, <1>a, <1>1 DEF Call, InFlightInv, AskedInv, HolderInv, TypeOK
  <2>4. CounterInv'
    BY <1>0, <1>a, <1>1 DEF Call, CounterInv, TypeOK
  <2>5. RegisteredInv'
    BY <1>0, <1>a, <1>1 DEF Call, RegisteredInv, InFlightInv, AskedInv, TypeOK
  <2>6. QED
    BY <2>1, <2>2, <2>3, <2>4, <2>5
<1>2. ASSUME NEW t \in Threads, CallStopped(t) PROVE Goal'
  <2>1. HolderInv'
    BY <1>0, <1>a, <1>2 DEF CallStopped, HolderInv, TypeOK
  <2>2. AskedInv'
    BY <1>0, <1>a, <1>2 DEF CallStopped, AskedInv, TypeOK
  <2>3. InFlightInv'
    BY <1>0, <1>a, <1>2 DEF CallStopped, InFlightInv, AskedInv, HolderInv,
       TypeOK
  <2>4. CounterInv'
    BY <1>0, <1>a, <1>2 DEF CallStopped, CounterInv, TypeOK
  <2>5. RegisteredInv'
    BY <1>0, <1>a, <1>2 DEF CallStopped, RegisteredInv, InFlightInv, AskedInv,
       TypeOK
  <2>6. QED
    BY <2>1, <2>2, <2>3, <2>4, <2>5
<1>3. ASSUME NEW t \in Threads, Acquire(t) PROVE Goal'
  <2>1. HolderInv'
    BY <1>0, <1>a, <1>3 DEF Acquire, HolderInv, TypeOK
  <2>2. AskedInv'
    BY <1>0, <1>a, <1>3 DEF Acquire, AskedInv, TypeOK
  <2>3. InFlightInv'
    BY <1>0, <1>a, <1>3 DEF Acquire, InFlightInv, AskedInv, HolderInv, TypeOK
  <2>4. CounterInv'
    BY <1>0, <1>a, <1>3 DEF Acquire, CounterInv, TypeOK
  <2>5. RegisteredInv'
    BY <1>0, <1>a, <1>3 DEF Acquire, RegisteredInv, InFlightInv, AskedInv,
       TypeOK
  <2>6. QED
    BY <2>1, <2>2, <2>3, <2>4, <2>5
<1>4. ASSUME NEW t \in Threads, Register(t) PROVE Goal'
  <2>1. HolderInv'
    BY <1>0, <1>a, <1>4 DEF Register, HolderInv, TypeOK
  <2>2. AskedInv'
    BY <1>0, <1>a, <1>4 DEF Register, AskedInv, TypeOK
  <2>3. InFlightInv'
    BY <1>0, <1>a, <1>4 DEF Register, InFlightInv, AskedInv, HolderInv, TypeOK
  <2>4. CounterInv'
    BY <1>0, <1>a, <1>4 DEF Register, CounterInv, TypeOK
  <2>5. RegisteredInv'
    BY <1>0, <1>a, <1>4 DEF Register, RegisteredInv, InFlightInv, AskedInv,
       TypeOK
  <2>6. QED
    BY <2>1, <2>2, <2>3, <2>4, <2>5
<1>5. ASSUME NEW t \in Threads, Send(t) PROVE Goal'
  <2>1. HolderInv'
    BY <1>0, <1>a, <1>5 DEF Send, HolderInv, TypeOK
  <2>2. AskedInv'
    BY <1>0, <1>a, <1>5 DEF Send, AskedInv, TypeOK
  <2>3. InFlightInv'
    BY <1>0, <1>a, <1>5 DEF Send, InFlightInv, AskedInv, HolderInv, TypeOK
  <2>4. CounterInv'
    BY <1>0, <1>a, <1>5 DEF Send, CounterInv, TypeOK
  <2>5. RegisteredInv'
    <3>1. req[t] = calls
      BY <1>a, <1>5 DEF Send, InFlightInv
    <3>2. \A r \in sent' : r <= calls'
      BY <1>0, <1>a, <1>5, <3>1 DEF Send, RegisteredInv, TypeOK
    <3>3. QED
      BY <1>a, <1>5, <3>2 DEF Send, RegisteredInv
  <2>6. QED
    BY <2>1, <2>2, <2>3, <2>4, <2>5
<1>6. ASSUME NEW t \in Threads, SendFails(t) PROVE Goal'
  <2>1. HolderInv'
    BY <1>0, <1>a, <1>6 DEF SendFails, HolderInv, TypeOK
  <2>2. AskedInv'
    BY <1>0, <1>a, <1>6 DEF SendFails, AskedInv, TypeOK
  <2>3. InFlightInv'
    BY <1>0, <1>a, <1>6 DEF SendFails, InFlightInv, AskedInv, HolderInv, TypeOK
  <2>4. CounterInv'
    BY <1>0, <1>a, <1>6 DEF SendFails, CounterInv, TypeOK
  <2>5. RegisteredInv'
    BY <1>0, <1>a, <1>6 DEF SendFails, RegisteredInv, InFlightInv, AskedInv,
       TypeOK
  <2>6. QED
    BY <2>1, <2>2, <2>3, <2>4, <2>5
<1>7. ASSUME NEW t \in Threads, Restarted(t) PROVE Goal'
  <2>1. HolderInv'
    BY <1>0, <1>a, <1>7 DEF Restarted, Return, HolderInv, TypeOK
  <2>2. AskedInv'
    BY <1>0, <1>a, <1>7 DEF Restarted, Return, AskedInv, TypeOK
  <2>3. InFlightInv'
    BY <1>0, <1>a, <1>7 DEF Restarted, Return, InFlightInv, AskedInv, HolderInv,
       TypeOK
  <2>4. CounterInv'
    BY <1>0, <1>a, <1>7 DEF Restarted, Return, CounterInv, TypeOK
  <2>5. RegisteredInv'
    BY <1>0, <1>a, <1>7 DEF Restarted, Return, RegisteredInv, InFlightInv,
       AskedInv, TypeOK
  <2>6. QED
    BY <2>1, <2>2, <2>3, <2>4, <2>5
<1>8. ASSUME NEW t \in Threads, Check(t) PROVE Goal'
  <2>1. HolderInv'
    BY <1>0, <1>a, <1>8 DEF Check, HolderInv, TypeOK
  <2>2. AskedInv'
    BY <1>0, <1>a, <1>8 DEF Check, AskedInv, TypeOK
  <2>3. InFlightInv'
    BY <1>0, <1>a, <1>8 DEF Check, InFlightInv, AskedInv, HolderInv, TypeOK
  <2>4. CounterInv'
    <3> SUFFICES ASSUME NEW u \in Threads
                 PROVE  /\ 2 * waited'[u] <= evals'[u]
                        /\ pc'[u] = "wait" => 2 * waited'[u] + 1 <= evals'[u]
                        /\ pc'[u] \in {"send", "check", "wait"} => evals'[u] < WaitForSeconds
                        /\ pc'[u] \notin {"check", "wait", "take", "erase"}
                             => evals'[u] = 0 /\ waited'[u] = 0
      BY DEF CounterInv
    <3>1. CASE u = t
      <4>1. /\ evals[t] \in Nat /\ waited[t] \in Nat
            /\ 2 * waited[t] <= evals[t]
            /\ evals[t] < WaitForSeconds
        BY <1>0, <1>a, <1>8 DEF Check, CounterInv, TypeOK
      <4>2. /\ evals'[t] = evals[t] + 1
            /\ waited'[t] = waited[t]
            /\ pc'[t] = IF Awake(t, evals[t] + 1) THEN "take" ELSE "wait"
        BY <1>0, <1>8 DEF Check, TypeOK
      <4>3. ~Awake(t, evals[t] + 1) => evals[t] + 1 # WaitForSeconds
        BY DEF Awake
      <4> HIDE DEF PCs, callVars
      <4>4. QED
        BY <3>1, <4>1, <4>2, <4>3
    <3>2. CASE u # t
      <4>1. /\ pc'[u] = pc[u] /\ evals'[u] = evals[u] /\ waited'[u] = waited[u]
        BY <1>0, <1>8, <3>2 DEF Check, TypeOK
      <4>2. QED
        BY <1>a, <4>1 DEF CounterInv
    <3>3. QED
      BY <3>1, <3>2
  <2>5. RegisteredInv'
    BY <1>0, <1>a, <1>8 DEF Check, RegisteredInv, InFlightInv, AskedInv, TypeOK
  <2>6. QED
    BY <2>1, <2>2, <2>3, <2>4, <2>5
<1>9. ASSUME NEW t \in Threads, Wake(t) PROVE Goal'
  <2>1. HolderInv'
    BY <1>0, <1>a, <1>9 DEF Wake, HolderInv, TypeOK
  <2>2. AskedInv'
    BY <1>0, <1>a, <1>9 DEF Wake, AskedInv, TypeOK
  <2>3. InFlightInv'
    BY <1>0, <1>a, <1>9 DEF Wake, InFlightInv, AskedInv, HolderInv, TypeOK
  <2>4. CounterInv'
    BY <1>0, <1>a, <1>9 DEF Wake, CounterInv, TypeOK
  <2>5. RegisteredInv'
    BY <1>0, <1>a, <1>9 DEF Wake, RegisteredInv, InFlightInv, AskedInv, TypeOK
  <2>6. QED
    BY <2>1, <2>2, <2>3, <2>4, <2>5
<1>10. ASSUME NEW t \in Threads, TimeOut(t) PROVE Goal'
  <2>1. HolderInv'
    BY <1>0, <1>a, <1>10 DEF TimeOut, HolderInv, TypeOK
  <2>2. AskedInv'
    BY <1>0, <1>a, <1>10 DEF TimeOut, AskedInv, TypeOK
  <2>3. InFlightInv'
    BY <1>0, <1>a, <1>10 DEF TimeOut, InFlightInv, AskedInv, HolderInv, TypeOK
  <2>4. CounterInv'
    <3> SUFFICES ASSUME NEW u \in Threads
                 PROVE  /\ 2 * waited'[u] <= evals'[u]
                        /\ pc'[u] = "wait" => 2 * waited'[u] + 1 <= evals'[u]
                        /\ pc'[u] \in {"send", "check", "wait"} => evals'[u] < WaitForSeconds
                        /\ pc'[u] \notin {"check", "wait", "take", "erase"}
                             => evals'[u] = 0 /\ waited'[u] = 0
      BY DEF CounterInv
    <3>1. CASE u = t
      <4>1. /\ evals[t] \in Nat /\ waited[t] \in Nat
            /\ 2 * waited[t] + 1 <= evals[t]
            /\ evals[t] < WaitForSeconds
        BY <1>0, <1>a, <1>10 DEF TimeOut, CounterInv, TypeOK
      <4>2. /\ evals'[t] = evals[t] + 1
            /\ waited'[t] = waited[t] + 1
            /\ pc'[t] = IF Awake(t, evals[t] + 1) THEN "take" ELSE "check"
        BY <1>0, <1>10 DEF TimeOut, TypeOK
      <4>3. ~Awake(t, evals[t] + 1) => evals[t] + 1 # WaitForSeconds
        BY DEF Awake
      <4> HIDE DEF PCs, callVars
      <4>4. QED
        BY <3>1, <4>1, <4>2, <4>3
    <3>2. CASE u # t
      <4>1. /\ pc'[u] = pc[u] /\ evals'[u] = evals[u] /\ waited'[u] = waited[u]
        BY <1>0, <1>10, <3>2 DEF TimeOut, TypeOK
      <4>2. QED
        BY <1>a, <4>1 DEF CounterInv
    <3>3. QED
      BY <3>1, <3>2
  <2>5. RegisteredInv'
    BY <1>0, <1>a, <1>10 DEF TimeOut, RegisteredInv, InFlightInv, AskedInv,
       TypeOK
  <2>6. QED
    BY <2>1, <2>2, <2>3, <2>4, <2>5
<1>11. ASSUME NEW t \in Threads, TakeNothing(t) PROVE Goal'
  <2>1. HolderInv'
    BY <1>0, <1>a, <1>11 DEF TakeNothing, Return, HolderInv, TypeOK
  <2>2. AskedInv'
    BY <1>0, <1>a, <1>11 DEF TakeNothing, Return, AskedInv, TypeOK
  <2>3. InFlightInv'
    BY <1>0, <1>a, <1>11 DEF TakeNothing, Return, InFlightInv, AskedInv,
       HolderInv, TypeOK
  <2>4. CounterInv'
    BY <1>0, <1>a, <1>11 DEF TakeNothing, Return, CounterInv, TypeOK
  <2>5. RegisteredInv'
    BY <1>0, <1>a, <1>11 DEF TakeNothing, Return, RegisteredInv, InFlightInv,
       AskedInv, TypeOK
  <2>6. QED
    BY <2>1, <2>2, <2>3, <2>4, <2>5
<1>12. ASSUME NEW t \in Threads, Take(t) PROVE Goal'
  <2>1. HolderInv'
    BY <1>0, <1>a, <1>12 DEF Take, HolderInv, TypeOK
  <2>2. AskedInv'
    BY <1>0, <1>a, <1>12 DEF Take, AskedInv, TypeOK
  <2>3. InFlightInv'
    BY <1>0, <1>a, <1>12 DEF Take, InFlightInv, AskedInv, HolderInv, TypeOK
  <2>4. CounterInv'
    BY <1>0, <1>a, <1>12 DEF Take, CounterInv, TypeOK
  <2>5. RegisteredInv'
    BY <1>0, <1>a, <1>12 DEF Take, RegisteredInv, InFlightInv, AskedInv, TypeOK
  <2>6. QED
    BY <2>1, <2>2, <2>3, <2>4, <2>5
<1>13. ASSUME NEW t \in Threads, Erase(t) PROVE Goal'
  <2>1. HolderInv'
    BY <1>0, <1>a, <1>13 DEF Erase, Return, HolderInv, TypeOK
  <2>2. AskedInv'
    BY <1>0, <1>a, <1>13 DEF Erase, Return, AskedInv, TypeOK
  <2>3. InFlightInv'
    BY <1>0, <1>a, <1>13 DEF Erase, Return, InFlightInv, AskedInv, HolderInv,
       TypeOK
  <2>4. CounterInv'
    BY <1>0, <1>a, <1>13 DEF Erase, Return, CounterInv, TypeOK
  <2>5. RegisteredInv'
    BY <1>0, <1>a, <1>13 DEF Erase, Return, RegisteredInv, InFlightInv,
       AskedInv, TypeOK
  <2>6. QED
    BY <2>1, <2>2, <2>3, <2>4, <2>5
<1>14. ASSUME NEW t \in Threads, Fail(t) PROVE Goal'
  <2>1. HolderInv'
    BY <1>0, <1>a, <1>14 DEF Fail, HolderInv, TypeOK
  <2>2. AskedInv'
    BY <1>0, <1>a, <1>14 DEF Fail, AskedInv, TypeOK
  <2>3. InFlightInv'
    BY <1>0, <1>a, <1>14 DEF Fail, InFlightInv, AskedInv, HolderInv, TypeOK
  <2>4. CounterInv'
    BY <1>0, <1>a, <1>14 DEF Fail, CounterInv, TypeOK
  <2>5. RegisteredInv'
    BY <1>0, <1>a, <1>14 DEF Fail, RegisteredInv, InFlightInv, AskedInv, TypeOK
  <2>6. QED
    BY <2>1, <2>2, <2>3, <2>4, <2>5
<1>15. ASSUME NEW r \in Requests, Read(r) PROVE Goal'
  <2>1. RegisteredInv'
    BY <1>0, <1>a, <1>15 DEF Read, RegisteredInv, TypeOK
  <2>2. QED
    BY <1>a, <1>15, <2>1, CallFrame DEF Read
<1>16. ASSUME Lookup PROVE Goal'
  <2>1. RegisteredInv'
    BY <1>0, <1>a, <1>16 DEF Lookup, RegisteredInv, TypeOK
  <2>2. QED
    BY <1>a, <1>16, <2>1, CallFrame DEF Lookup
<1>17. ASSUME WriteResponse PROVE Goal'
  <2>1. RegisteredInv'
    BY <1>0, <1>a, <1>17 DEF WriteResponse, RegisteredInv, TypeOK
  <2>2. QED
    BY <1>a, <1>17, <2>1, CallFrame DEF WriteResponse
<1>18. ASSUME MarkReady PROVE Goal'
  <2>1. RegisteredInv'
    BY <1>0, <1>a, <1>18 DEF MarkReady, RegisteredInv, TypeOK
  <2>2. QED
    BY <1>a, <1>18, <2>1, CallFrame DEF MarkReady
<1>19. ASSUME ConnectionLost PROVE Goal'
  <2>1. RegisteredInv'
    BY <1>0, <1>a, <1>19 DEF ConnectionLost, RegisteredInv, TypeOK
  <2>2. QED
    BY <1>a, <1>19, <2>1, CallFrame DEF ConnectionLost
<1>20. ASSUME Reconnect PROVE Goal'
  <2>1. RegisteredInv'
    BY <1>0, <1>a, <1>20 DEF Reconnect, RegisteredInv, TypeOK
  <2>2. QED
    BY <1>a, <1>20, <2>1, CallFrame DEF Reconnect
<1>21. ASSUME ClearResponses PROVE Goal'
  <2>1. RegisteredInv'
    BY <1>0, <1>a, <1>21 DEF ClearResponses, RegisteredInv, TypeOK
  <2>2. QED
    BY <1>a, <1>21, <2>1, CallFrame DEF ClearResponses
<1>22. CASE UNCHANGED vars
  BY <1>a, <1>22, CallFrame DEF vars, RegisteredInv
<1>23. QED
  BY <1>1, <1>2, <1>3, <1>4, <1>5, <1>6, <1>7, <1>8, <1>9, <1>10, <1>11, <1>12,
     <1>13, <1>14, <1>15, <1>16, <1>17, <1>18, <1>19, <1>20, <1>21, <1>22
  DEF Next, CallStep, DeliverStep

-----------------------------------------------------------------------------
(* Layer 2 *)

(* An empty _responses is routed correctly. *)
LEMMA MapInit == Init => MapInv
  BY DEF Init, MapInv, Requests, NoRequest

(* Routing depends on _responses and on what the listen thread delivers. *)
LEMMA MapFrame ==
  ASSUME MapInv, UNCHANGED <<mapVars, listenVars>>
  PROVE  MapInv'
  BY DEF MapInv, mapVars, listenVars

(* Every step keeps each entry of _responses with its own command. *)
LEMMA MapStep ==
  ControlInv /\ MapInv /\ [Next]_vars => MapInv'
<1> SUFFICES ASSUME ControlInv /\ MapInv, [Next]_vars PROVE MapInv'
  OBVIOUS
<1>0. ControlInv'
  BY ControlStep
<1> USE DEF callVars, mapVars, objectVars, histVars, listenVars, connVars
<1>1. ASSUME NEW t \in Threads, NEW c \in Commands, Call(t, c) PROVE MapInv'
  BY <1>1, MapFrame DEF Call
<1>2. ASSUME NEW t \in Threads, CallStopped(t) PROVE MapInv'
  BY <1>2, MapFrame DEF CallStopped
<1>3. ASSUME NEW t \in Threads, Acquire(t) PROVE MapInv'
  BY <1>3, MapFrame DEF Acquire
<1>4. ASSUME NEW t \in Threads, Register(t) PROVE MapInv'
  <2> DEFINE r == calls + 1
  <2>1. /\ r \in Requests /\ calls \in Nat /\ calls' = r
        /\ asked[t] \in Commands
        /\ cmd' = [cmd EXCEPT ![r] = asked[t]]
        /\ responses' = [responses EXCEPT ![asked[t]] = r]
        /\ UNCHANGED listenVars
    BY <1>4 DEF Register, ControlInv, TypeOK, InFlightInv, AskedInv, Requests
  <2>2. /\ cmd \in [Requests -> Commands \cup {None}]
        /\ responses \in [Commands -> Answers]
        /\ \A c \in Commands : responses[c] <= calls
        /\ \A q \in Requests : q <= calls => cmd[q] \in Commands
    BY DEF ControlInv, TypeOK, RegisteredInv
  <2>3. /\ cmd'[r] = asked[t] /\ responses'[asked[t]] = r
        /\ \A q \in Requests : q # r => cmd'[q] = cmd[q]
        /\ \A c \in Commands : c # asked[t] => responses'[c] = responses[c]
    BY <2>1, <2>2
  <2> HIDE DEF r
  <2>4. \A c \in Commands : responses'[c] # NoRequest => cmd'[responses'[c]] = c
    BY <2>1, <2>2, <2>3 DEF MapInv, Requests, Answers, NoRequest, r
  <2>5. \A q \in Requests : q <= calls' =>
          responses'[cmd'[q]] = NoRequest \/ q <= responses'[cmd'[q]]
    BY <2>1, <2>2, <2>3 DEF MapInv, Requests, Answers, NoRequest, r
  <2>6. lpc' = "write" => cmd'[lreq'] = cmd'[lpkt'] /\ lpkt' <= lreq'
    <3>1. lpc = "write" => lreq \in Requests /\ lreq # r /\ lpkt \in Requests /\ lpkt # r
      BY <2>1 DEF ControlInv, RegisteredInv, TypeOK, Requests, Answers,
         NoRequest, r
    <3>2. QED
      BY <2>1, <2>3, <3>1 DEF MapInv
  <2>7. QED
    BY <2>4, <2>5, <2>6 DEF MapInv
<1>5. ASSUME NEW t \in Threads, Send(t) PROVE MapInv'
  BY <1>5, MapFrame DEF Send
<1>6. ASSUME NEW t \in Threads, SendFails(t) PROVE MapInv'
  BY <1>6, MapFrame DEF SendFails
<1>7. ASSUME NEW t \in Threads, Restarted(t) PROVE MapInv'
  BY <1>7, MapFrame DEF Restarted, Return
<1>8. ASSUME NEW t \in Threads, Check(t) PROVE MapInv'
  BY <1>8, MapFrame DEF Check
<1>9. ASSUME NEW t \in Threads, Wake(t) PROVE MapInv'
  BY <1>9, MapFrame DEF Wake
<1>10. ASSUME NEW t \in Threads, TimeOut(t) PROVE MapInv'
  BY <1>10, MapFrame DEF TimeOut
<1>11. ASSUME NEW t \in Threads, TakeNothing(t) PROVE MapInv'
  BY <1>11, MapFrame DEF TakeNothing, Return
<1>12. ASSUME NEW t \in Threads, Take(t) PROVE MapInv'
  BY <1>12, MapFrame DEF Take
<1>13. ASSUME NEW t \in Threads, Erase(t) PROVE MapInv'
  BY <1>13 DEF Erase, Return, MapInv, ControlInv, TypeOK, RegisteredInv,
     Requests, Answers, NoRequest
<1>14. ASSUME NEW t \in Threads, Fail(t) PROVE MapInv'
  BY <1>14, MapFrame DEF Fail
<1>15. ASSUME NEW r \in Requests, Read(r) PROVE MapInv'
  BY <1>15 DEF Read, MapInv, ControlInv, TypeOK, RegisteredInv, Requests,
     Answers, NoRequest
<1>16. ASSUME Lookup PROVE MapInv'
  BY <1>16 DEF Lookup, MapInv, ControlInv, TypeOK, RegisteredInv, Requests,
     Answers, NoRequest
<1>17. ASSUME WriteResponse PROVE MapInv'
  BY <1>17 DEF WriteResponse, MapInv, ControlInv, TypeOK, RegisteredInv,
     Requests, Answers, NoRequest
<1>18. ASSUME MarkReady PROVE MapInv'
  BY <1>18 DEF MarkReady, MapInv, ControlInv, TypeOK, RegisteredInv, Requests,
     Answers, NoRequest
<1>19. ASSUME ConnectionLost PROVE MapInv'
  BY <1>19, MapFrame DEF ConnectionLost
<1>20. ASSUME Reconnect PROVE MapInv'
  BY <1>20, MapFrame DEF Reconnect
<1>21. ASSUME ClearResponses PROVE MapInv'
  BY <1>21 DEF ClearResponses, MapInv, ControlInv, TypeOK, RegisteredInv,
     Requests, Answers, NoRequest
<1>22. CASE UNCHANGED vars
  BY <1>22, MapFrame DEF vars
<1>23. QED
  BY <1>1, <1>2, <1>3, <1>4, <1>5, <1>6, <1>7, <1>8, <1>9, <1>10, <1>11, <1>12,
     <1>13, <1>14, <1>15, <1>16, <1>17, <1>18, <1>19, <1>20, <1>21, <1>22
  DEF Next, CallStep, DeliverStep

-----------------------------------------------------------------------------
(* Layer 3 *)

(* Before the first call there is no answer. *)
LEMMA AnswerInit == Init => AnswerInv
  BY DEF Init, AnswerInv, InAir, Requests, NoRequest

(* Answers are undisturbed by steps that change the map or the flags only. *)
LEMMA AnswerFrame ==
  ASSUME AnswerInv,
         UNCHANGED <<callVars, calls, cmd, objectVars, histVars, listenVars, pending>>
  PROVE  AnswerInv'
  BY DEF AnswerInv, InAir, callVars, objectVars, histVars, listenVars

(* Every step keeps an answer with requests and calls of its command. *)
LEMMA AnswerStep ==
  ControlInv /\ MapInv /\ AnswerInv /\ [Next]_vars => AnswerInv'
<1> SUFFICES ASSUME ControlInv /\ MapInv /\ AnswerInv, [Next]_vars PROVE AnswerInv'
  OBVIOUS
<1>0. ControlInv'
  BY ControlStep
<1> USE DEF callVars, mapVars, objectVars, histVars, listenVars, connVars
<1>1. ASSUME NEW t \in Threads, NEW c \in Commands, Call(t, c) PROVE AnswerInv'
  BY <1>1 DEF Call, AnswerInv, InAir, ControlInv, TypeOK, InFlightInv,
     RegisteredInv, InFlight, InExchange, PCs, ListenPCs, Requests, Answers,
     NoRequest
<1>2. ASSUME NEW t \in Threads, CallStopped(t) PROVE AnswerInv'
  BY <1>2 DEF CallStopped, AnswerInv, InAir, ControlInv, TypeOK, InFlightInv,
     RegisteredInv, InFlight, InExchange, PCs, ListenPCs, Requests, Answers,
     NoRequest
<1>3. ASSUME NEW t \in Threads, Acquire(t) PROVE AnswerInv'
  BY <1>3 DEF Acquire, AnswerInv, InAir, ControlInv, TypeOK, InFlightInv,
     RegisteredInv, InFlight, InExchange, PCs, ListenPCs, Requests, Answers,
     NoRequest
<1>4. ASSUME NEW t \in Threads, Register(t) PROVE AnswerInv'
  BY <1>4 DEF Register, AnswerInv, InAir, ControlInv, TypeOK, InFlightInv,
     RegisteredInv, InFlight, InExchange, PCs, ListenPCs, Requests, Answers,
     NoRequest
<1>5. ASSUME NEW t \in Threads, Send(t) PROVE AnswerInv'
  <2>1. /\ pc[t] = "send" /\ req[t] \notin sent
        /\ pc' = [pc EXCEPT ![t] = "check"]
        /\ sent' = sent \cup {req[t]} /\ pending' = pending \cup {req[t]}
        /\ UNCHANGED <<req, result, calls, cmd, response, lpc, lpkt>>
    BY <1>5 DEF Send, AnswerInv
  <2>2. \A u \in Threads : pc'[u] = "send" => req'[u] \notin sent'
    <3>1. \A u \in Threads : u # t => pc[u] # "send"
      BY <2>1 DEF ControlInv, HolderInv, InExchange, PCs
    <3>2. QED
      BY <2>1, <3>1 DEF ControlInv, TypeOK
  <2>3. InAir' \subseteq InAir \cup {req[t]}
    BY <2>1 DEF InAir
  <2>4. lpc \in {"lookup", "write"} => lpkt \in sent
    BY DEF ControlInv, RegisteredInv
  <2>5. /\ \A r \in Requests : response[r] \in sent \ InAir => response[r] \in sent' \ InAir'
        /\ \A u \in Threads : result[u] \in sent \ InAir => result[u] \in sent' \ InAir'
    BY <2>1, <2>3
  <2>6. \A u \in Threads : pc[u] \in {"idle", "erase"} <=> pc'[u] \in {"idle", "erase"}
    BY <2>1 DEF ControlInv, TypeOK
  <2>7. lpc' \in {"lookup", "write"} => lpkt' \notin pending'
    BY <2>1, <2>4 DEF AnswerInv
  <2>8. \A u \in Threads : pc'[u] = "erase" => result'[u] # NoRequest
    BY <2>1 DEF AnswerInv, ControlInv, TypeOK
  <2>9. QED
    BY <2>1, <2>2, <2>5, <2>6, <2>7, <2>8 DEF AnswerInv
<1>6. ASSUME NEW t \in Threads, SendFails(t) PROVE AnswerInv'
  BY <1>6 DEF SendFails, AnswerInv, InAir, ControlInv, TypeOK, InFlightInv,
     RegisteredInv, InFlight, InExchange, PCs, ListenPCs, Requests, Answers,
     NoRequest
<1>7. ASSUME NEW t \in Threads, Restarted(t) PROVE AnswerInv'
  BY <1>7 DEF Restarted, Return, AnswerInv, InAir, ControlInv, TypeOK,
     InFlightInv, RegisteredInv, InFlight, InExchange, PCs, ListenPCs, Requests,
     Answers, NoRequest
<1>8. ASSUME NEW t \in Threads, Check(t) PROVE AnswerInv'
  BY <1>8 DEF Check, AnswerInv, InAir, ControlInv, TypeOK, InFlightInv,
     RegisteredInv, InFlight, InExchange, PCs, ListenPCs, Requests, Answers,
     NoRequest
<1>9. ASSUME NEW t \in Threads, Wake(t) PROVE AnswerInv'
  BY <1>9 DEF Wake, AnswerInv, InAir, ControlInv, TypeOK, InFlightInv,
     RegisteredInv, InFlight, InExchange, PCs, ListenPCs, Requests, Answers,
     NoRequest
<1>10. ASSUME NEW t \in Threads, TimeOut(t) PROVE AnswerInv'
  BY <1>10 DEF TimeOut, AnswerInv, InAir, ControlInv, TypeOK, InFlightInv,
     RegisteredInv, InFlight, InExchange, PCs, ListenPCs, Requests, Answers,
     NoRequest
<1>11. ASSUME NEW t \in Threads, TakeNothing(t) PROVE AnswerInv'
  BY <1>11 DEF TakeNothing, Return, AnswerInv, InAir, ControlInv, TypeOK,
     InFlightInv, RegisteredInv, InFlight, InExchange, PCs, ListenPCs, Requests,
     Answers, NoRequest
<1>12. ASSUME NEW t \in Threads, Take(t) PROVE AnswerInv'
  <2>1. /\ pc[t] = "take" /\ response[req[t]] # NoRequest
        /\ pc' = [pc EXCEPT ![t] = "erase"]
        /\ result' = [result EXCEPT ![t] = response[req[t]]]
        /\ UNCHANGED <<req, calls, cmd, sent, response, lpc, lpkt, pending>>
    BY <1>12 DEF Take
  <2>2. /\ req[t] \in Requests /\ req[t] <= calls
        /\ pc \in [Threads -> PCs] /\ result \in [Threads -> Answers]
    <3>1. req[t] = calls /\ req[t] \in Requests
      BY <2>1 DEF ControlInv, InFlightInv, InFlight, InExchange, PCs
    <3>2. calls \in Nat
      BY DEF ControlInv, TypeOK
    <3>3. QED
      BY <3>1, <3>2 DEF ControlInv, TypeOK
  <2>3. response[req[t]] \in sent \ InAir /\ cmd[response[req[t]]] = cmd[req[t]]
    BY <2>1, <2>2 DEF AnswerInv
  <2>4. InAir' = InAir
    BY <2>1 DEF InAir
  <2>5. /\ \A u \in Threads \ {t} : pc'[u] = pc[u] /\ result'[u] = result[u]
        /\ pc'[t] = "erase" /\ result'[t] = response[req[t]]
    BY <2>1, <2>2
  <2>6. QED
    BY <2>1, <2>2, <2>3, <2>4, <2>5 DEF AnswerInv
<1>13. ASSUME NEW t \in Threads, Erase(t) PROVE AnswerInv'
  BY <1>13 DEF Erase, Return, AnswerInv, InAir, ControlInv, TypeOK, InFlightInv,
     RegisteredInv, InFlight, InExchange, PCs, ListenPCs, Requests, Answers,
     NoRequest
<1>14. ASSUME NEW t \in Threads, Fail(t) PROVE AnswerInv'
  BY <1>14 DEF Fail, AnswerInv, InAir, ControlInv, TypeOK, InFlightInv,
     RegisteredInv, InFlight, InExchange, PCs, ListenPCs, Requests, Answers,
     NoRequest
<1>15. ASSUME NEW r \in Requests, Read(r) PROVE AnswerInv'
  BY <1>15 DEF Read, AnswerInv, InAir, ControlInv, TypeOK, InFlightInv,
     RegisteredInv, InFlight, InExchange, PCs, ListenPCs, Requests, Answers,
     NoRequest
<1>16. ASSUME Lookup PROVE AnswerInv'
  BY <1>16 DEF Lookup, AnswerInv, InAir, ControlInv, TypeOK, InFlightInv,
     RegisteredInv, InFlight, InExchange, PCs, ListenPCs, Requests, Answers,
     NoRequest
<1>17. ASSUME WriteResponse PROVE AnswerInv'
  <2>1. /\ lpc = "write" /\ lpc' = "ready"
        /\ response' = [response EXCEPT ![lreq] = lpkt]
        /\ UNCHANGED <<pc, req, result, calls, cmd, sent, pending>>
    BY <1>17 DEF WriteResponse
  <2>2. /\ lpkt \in sent \ pending /\ cmd[lpkt] = cmd[lreq]
        /\ lreq \in Requests /\ lreq <= calls
        /\ response \in [Requests -> Answers]
    BY <2>1 DEF ControlInv, RegisteredInv, AnswerInv, MapInv, TypeOK
  <2>3. InAir' = pending /\ pending \subseteq InAir
    BY <2>1 DEF InAir
  <2>4. /\ response'[lreq] = lpkt
        /\ \A r \in Requests \ {lreq} : response'[r] = response[r]
    BY <2>1, <2>2
  <2>5. QED
    BY <2>1, <2>2, <2>3, <2>4 DEF AnswerInv
<1>18. ASSUME MarkReady PROVE AnswerInv'
  BY <1>18 DEF MarkReady, AnswerInv, InAir, ControlInv, TypeOK, InFlightInv,
     RegisteredInv, InFlight, InExchange, PCs, ListenPCs, Requests, Answers,
     NoRequest
<1>19. ASSUME ConnectionLost PROVE AnswerInv'
  BY <1>19, AnswerFrame DEF ConnectionLost
<1>20. ASSUME Reconnect PROVE AnswerInv'
  BY <1>20 DEF Reconnect, AnswerInv, InAir, ControlInv, TypeOK, InFlightInv,
     RegisteredInv, InFlight, InExchange, PCs, ListenPCs, Requests, Answers,
     NoRequest
<1>21. ASSUME ClearResponses PROVE AnswerInv'
  BY <1>21, AnswerFrame DEF ClearResponses
<1>22. CASE UNCHANGED vars
  BY <1>22, AnswerFrame DEF vars
<1>23. QED
  BY <1>1, <1>2, <1>3, <1>4, <1>5, <1>6, <1>7, <1>8, <1>9, <1>10, <1>11, <1>12,
     <1>13, <1>14, <1>15, <1>16, <1>17, <1>18, <1>19, <1>20, <1>21, <1>22
  DEF Next, CallStep, DeliverStep

-----------------------------------------------------------------------------
(* Layer 4 *)

(* Before the first call nothing is stale. *)
LEMMA StaleInit == Init => StaleInv
  BY DEF Init, StaleInv, StaleNeedsGiveUp, InAir, Requests, NoRequest

(* Steps that write no response, take no answer, register, send and finish
   no request. *)
LEMMA StaleFrame ==
  ASSUME StaleInv,
         UNCHANGED <<gaveUp, calls, cmd, response, req>>,
         \A t \in Threads : result'[t] \in {result[t], NoRequest},
         \A t \in Threads : InFlight(t) => InFlight(t)',
         InAir' \subseteq InAir
  PROVE  StaleInv'
  BY DEF StaleInv, StaleNeedsGiveUp, Blamed, BlamedBefore

(* A request that gave up blames itself. *)
LEMMA GiveUpStep ==
  ASSUME ControlInv, StaleInv, NEW t \in Threads, InFlight(t),
         gaveUp' = gaveUp \cup {req[t]},
         UNCHANGED <<calls, cmd, response, req, result>>,
         \A u \in Threads \ {t} : InFlight(u) => InFlight(u)',
         InAir' \subseteq InAir
  PROVE  StaleInv'
<1>1. req[t] \in Nat /\ req[t] = calls
  BY DEF ControlInv, InFlightInv, Requests
<1>2. \A p \in InAir : Blamed(p) => Blamed(p)'
  BY DEF Blamed
<1>3. Blamed(req[t])'
  BY <1>1 DEF Blamed
<1>4. \A p \in InAir' : Blamed(p)' \/ \E u \in Threads : InFlight(u)' /\ req'[u] = p
  BY <1>2, <1>3 DEF StaleInv
<1>5. \A r \in Requests : BlamedBefore(r) => BlamedBefore(r)'
  BY DEF BlamedBefore
<1>6. \A q \in gaveUp' : q <= calls'
  BY <1>1 DEF StaleInv
<1>7. StaleNeedsGiveUp'
  BY DEF StaleInv, StaleNeedsGiveUp
<1>8. QED
  BY <1>4, <1>5, <1>6, <1>7 DEF StaleInv

(* Every step keeps a call that gave up behind each stale answer. *)
LEMMA StaleStep ==
  ControlInv /\ MapInv /\ AnswerInv /\ StaleInv /\ [Next]_vars => StaleInv'
<1> SUFFICES ASSUME ControlInv, MapInv, AnswerInv, StaleInv, [Next]_vars
             PROVE  StaleInv'
  OBVIOUS
<1> USE DEF callVars, mapVars, objectVars, histVars, listenVars, connVars
<1>1. ASSUME NEW t \in Threads, NEW c \in Commands, Call(t, c) PROVE StaleInv'
  <2>1. \A u \in Threads : InFlight(u) => InFlight(u)'
    BY <1>1 DEF Call, InFlight, InExchange, PCs, ControlInv, TypeOK
  <2>2. InAir' \subseteq InAir /\ \A u \in Threads : result'[u] \in {result[u], NoRequest}
    BY <1>1 DEF Call, InAir, ControlInv, TypeOK
  <2>3. QED
    BY <1>1, <2>1, <2>2, StaleFrame DEF Call
<1>2. ASSUME NEW t \in Threads, CallStopped(t) PROVE StaleInv'
  <2>1. \A u \in Threads : InFlight(u) => InFlight(u)'
    BY <1>2 DEF CallStopped, InFlight, InExchange, PCs, ControlInv, TypeOK
  <2>2. InAir' \subseteq InAir /\ \A u \in Threads : result'[u] \in {result[u], NoRequest}
    BY <1>2 DEF CallStopped, InAir, ControlInv, TypeOK
  <2>3. QED
    BY <1>2, <2>1, <2>2, StaleFrame DEF CallStopped
<1>3. ASSUME NEW t \in Threads, Acquire(t) PROVE StaleInv'
  <2>1. \A u \in Threads : InFlight(u) => InFlight(u)'
    BY <1>3 DEF Acquire, InFlight, InExchange, PCs, ControlInv, TypeOK
  <2>2. InAir' \subseteq InAir /\ \A u \in Threads : result'[u] \in {result[u], NoRequest}
    BY <1>3 DEF Acquire, InAir, ControlInv, TypeOK
  <2>3. QED
    BY <1>3, <2>1, <2>2, StaleFrame DEF Acquire
<1>4. ASSUME NEW t \in Threads, Register(t) PROVE StaleInv'
  <2> DEFINE r == calls + 1
  <2>1. /\ pc[t] = "register" /\ pc' = [pc EXCEPT ![t] = "send"]
        /\ cmd' = [cmd EXCEPT ![r] = asked[t]] /\ calls' = r
        /\ req' = [req EXCEPT ![t] = r]
        /\ UNCHANGED <<result, response, gaveUp, pending, lpc, lpkt>>
    BY <1>4 DEF Register
  <2>2. /\ calls \in Nat /\ pc \in [Threads -> PCs] /\ req \in [Threads -> Answers]
        /\ cmd \in [Requests -> Commands \cup {None}]
        /\ gaveUp \subseteq Requests /\ sent \subseteq Requests
        /\ \A q \in gaveUp \cup sent : q <= calls
    BY DEF ControlInv, TypeOK, RegisteredInv, StaleInv
  <2>3. \A q \in Requests : q <= calls => cmd'[q] = cmd[q]
    BY <2>1, <2>2 DEF Requests
  <2>4. \A p \in Requests : p <= calls =>
          (Blamed(p) => Blamed(p)') /\ (BlamedBefore(p) => BlamedBefore(p)')
    BY <2>1, <2>2, <2>3 DEF Blamed, BlamedBefore
  <2>5. InAir' = InAir /\ \A p \in InAir : p \in Requests /\ p <= calls
    BY <2>1, <2>2 DEF InAir, ControlInv, RegisteredInv
  <2>6. \A u \in Threads : InFlight(u) => InFlight(u)' /\ req'[u] = req[u]
    BY <2>1, <2>2 DEF InFlight, InExchange, PCs
  <2>7. \A q \in gaveUp' : q <= calls'
    BY <2>1, <2>2 DEF Requests
  <2>8. \A p \in InAir' : Blamed(p)' \/ \E u \in Threads : InFlight(u)' /\ req'[u] = p
    BY <2>4, <2>5, <2>6 DEF StaleInv
  <2>9. \A q \in Requests : response'[q] \notin {NoRequest, q} => BlamedBefore(q)'
    BY <2>1, <2>4 DEF StaleInv, AnswerInv
  <2>10. StaleNeedsGiveUp'
    <3> SUFFICES ASSUME NEW u \in Threads, result'[u] \notin {NoRequest, req'[u]}
                 PROVE  BlamedBefore(req[u])' /\ req'[u] = req[u]
      BY DEF StaleNeedsGiveUp, BlamedBefore
    <3>1. result[u] # NoRequest /\ u # t
      BY <2>1 DEF AnswerInv
    <3>2. req'[u] = req[u]
      BY <2>1, <2>2, <3>1
    <3>3. BlamedBefore(req[u])
      BY <2>1, <3>2 DEF StaleInv, StaleNeedsGiveUp, BlamedBefore
    <3>4. req[u] \in Requests /\ req[u] <= calls
      BY <3>1 DEF AnswerInv
    <3>5. \E q \in gaveUp : q < req[u] /\ cmd'[q] = cmd'[req[u]]
      BY <2>2, <2>3, <3>3, <3>4 DEF BlamedBefore
    <3>6. QED
      BY <2>1, <3>2, <3>5 DEF BlamedBefore
  <2>11. QED
    BY <2>7, <2>8, <2>9, <2>10 DEF StaleInv
<1>5. ASSUME NEW t \in Threads, Send(t) PROVE StaleInv'
  <2>1. /\ pc[t] = "send" /\ pc' = [pc EXCEPT ![t] = "check"]
        /\ pending' = pending \cup {req[t]}
        /\ UNCHANGED <<req, result, calls, cmd, response, gaveUp, lpc, lpkt>>
    BY <1>5 DEF Send
  <2>2. InAir' \subseteq InAir \cup {req[t]}
    BY <2>1 DEF InAir
  <2>3. InFlight(t)' /\ \A u \in Threads : InFlight(u) => InFlight(u)'
    BY <2>1 DEF InFlight, InExchange, PCs, ControlInv, TypeOK
  <2>4. \A p \in InAir' : Blamed(p)' \/ \E u \in Threads : InFlight(u)' /\ req'[u] = p
    BY <2>1, <2>2, <2>3 DEF StaleInv, Blamed
  <2>5. QED
    BY <2>1, <2>4 DEF StaleInv, StaleNeedsGiveUp, BlamedBefore
<1>6. ASSUME NEW t \in Threads, SendFails(t) PROVE StaleInv'
  <2>1. \A u \in Threads : InFlight(u) => InFlight(u)'
    BY <1>6 DEF SendFails, InFlight, InExchange, PCs, ControlInv, TypeOK
  <2>2. InAir' \subseteq InAir /\ \A u \in Threads : result'[u] \in {result[u], NoRequest}
    BY <1>6 DEF SendFails, InAir, ControlInv, TypeOK
  <2>3. QED
    BY <1>6, <2>1, <2>2, StaleFrame DEF SendFails
<1>7. ASSUME NEW t \in Threads, Restarted(t) PROVE StaleInv'
  <2>1. InFlight(t) /\ \A u \in Threads \ {t} : InFlight(u) => InFlight(u)'
    BY <1>7 DEF Restarted, Return, InFlight, InExchange, PCs, ControlInv, TypeOK
  <2>2. InAir' \subseteq InAir
    BY <1>7 DEF Restarted, InAir
  <2>3. QED
    BY <1>7, <2>1, <2>2, GiveUpStep DEF Restarted, Return
<1>8. ASSUME NEW t \in Threads, Check(t) PROVE StaleInv'
  <2>1. \A u \in Threads : InFlight(u) => InFlight(u)'
    BY <1>8 DEF Check, InFlight, InExchange, PCs, ControlInv, TypeOK
  <2>2. InAir' \subseteq InAir /\ \A u \in Threads : result'[u] \in {result[u], NoRequest}
    BY <1>8 DEF Check, InAir, ControlInv, TypeOK
  <2>3. QED
    BY <1>8, <2>1, <2>2, StaleFrame DEF Check
<1>9. ASSUME NEW t \in Threads, Wake(t) PROVE StaleInv'
  <2>1. \A u \in Threads : InFlight(u) => InFlight(u)'
    BY <1>9 DEF Wake, InFlight, InExchange, PCs, ControlInv, TypeOK
  <2>2. InAir' \subseteq InAir /\ \A u \in Threads : result'[u] \in {result[u], NoRequest}
    BY <1>9 DEF Wake, InAir, ControlInv, TypeOK
  <2>3. QED
    BY <1>9, <2>1, <2>2, StaleFrame DEF Wake
<1>10. ASSUME NEW t \in Threads, TimeOut(t) PROVE StaleInv'
  <2>1. \A u \in Threads : InFlight(u) => InFlight(u)'
    BY <1>10 DEF TimeOut, InFlight, InExchange, PCs, ControlInv, TypeOK
  <2>2. InAir' \subseteq InAir /\ \A u \in Threads : result'[u] \in {result[u], NoRequest}
    BY <1>10 DEF TimeOut, InAir, ControlInv, TypeOK
  <2>3. QED
    BY <1>10, <2>1, <2>2, StaleFrame DEF TimeOut
<1>11. ASSUME NEW t \in Threads, TakeNothing(t) PROVE StaleInv'
  <2>1. InFlight(t) /\ \A u \in Threads \ {t} : InFlight(u) => InFlight(u)'
    BY <1>11 DEF TakeNothing, Return, InFlight, InExchange, PCs, ControlInv,
       TypeOK
  <2>2. InAir' \subseteq InAir
    BY <1>11 DEF TakeNothing, InAir
  <2>3. QED
    BY <1>11, <2>1, <2>2, GiveUpStep DEF TakeNothing, Return
<1>12. ASSUME NEW t \in Threads, Take(t) PROVE StaleInv'
  <2>1. /\ pc[t] = "take" /\ pc' = [pc EXCEPT ![t] = "erase"]
        /\ result' = [result EXCEPT ![t] = response[req[t]]]
        /\ UNCHANGED <<req, calls, cmd, response, gaveUp, pending, lpc, lpkt>>
    BY <1>12 DEF Take
  <2>2. req[t] \in Requests /\ \A u \in Threads : InFlight(u) => InFlight(u)'
    BY <2>1 DEF InFlight, InExchange, PCs, ControlInv, TypeOK, InFlightInv
  <2>3. response[req[t]] \notin {NoRequest, req[t]} => BlamedBefore(req[t])
    BY <2>2 DEF StaleInv
  <2>4. StaleNeedsGiveUp'
    BY <2>1, <2>3 DEF StaleInv, StaleNeedsGiveUp, BlamedBefore, ControlInv,
       TypeOK
  <2>5. InAir' = InAir
    BY <2>1 DEF InAir
  <2>6. QED
    BY <2>1, <2>2, <2>4, <2>5 DEF StaleInv, Blamed, BlamedBefore
<1>13. ASSUME NEW t \in Threads, Erase(t) PROVE StaleInv'
  <2>1. /\ pc[t] = "erase" /\ pc' = [pc EXCEPT ![t] = "idle"]
        /\ UNCHANGED <<req, result, calls, cmd, response, gaveUp, pending, lpc, lpkt>>
    BY <1>13 DEF Erase, Return
  <2>2. InAir' = InAir /\ \A u \in Threads \ {t} : InFlight(u) => InFlight(u)'
    BY <2>1 DEF InAir, InFlight, InExchange, PCs, ControlInv, TypeOK
  <2>3. req[t] \in InAir => Blamed(req[t])
    <3>1. result[t] # NoRequest /\ result[t] \notin InAir
      BY <2>1 DEF AnswerInv
    <3>2. req[t] \in InAir => BlamedBefore(req[t])
      BY <3>1 DEF StaleInv, StaleNeedsGiveUp, BlamedBefore
    <3>3. QED
      BY <3>2 DEF Blamed, BlamedBefore, ControlInv, TypeOK, Answers, NoRequest,
         Requests
  <2>4. \A p \in InAir' : Blamed(p)' \/ \E u \in Threads : InFlight(u)' /\ req'[u] = p
    BY <2>1, <2>2, <2>3 DEF StaleInv, Blamed
  <2>5. QED
    BY <2>1, <2>4 DEF StaleInv, StaleNeedsGiveUp, BlamedBefore
<1>14. ASSUME NEW t \in Threads, Fail(t) PROVE StaleInv'
  <2>1. \A u \in Threads : InFlight(u) => InFlight(u)'
    BY <1>14 DEF Fail, InFlight, InExchange, PCs, ControlInv, TypeOK
  <2>2. InAir' \subseteq InAir /\ \A u \in Threads : result'[u] \in {result[u], NoRequest}
    BY <1>14 DEF Fail, InAir, ControlInv, TypeOK
  <2>3. QED
    BY <1>14, <2>1, <2>2, StaleFrame DEF Fail
<1>15. ASSUME NEW r \in Requests, Read(r) PROVE StaleInv'
  <2>1. InAir' \subseteq InAir
    BY <1>15 DEF Read, InAir
  <2>2. QED
    BY <1>15, <2>1, StaleFrame DEF Read, InFlight, InExchange
<1>16. ASSUME Lookup PROVE StaleInv'
  <2>1. InAir' \subseteq InAir
    BY <1>16 DEF Lookup, InAir
  <2>2. QED
    BY <1>16, <2>1, StaleFrame DEF Lookup, InFlight, InExchange
<1>17. ASSUME WriteResponse PROVE StaleInv'
  <2>1. /\ lpc = "write" /\ lpc' = "ready"
        /\ response' = [response EXCEPT ![lreq] = lpkt]
        /\ UNCHANGED <<pc, req, result, calls, cmd, gaveUp, pending>>
    BY <1>17 DEF WriteResponse
  <2>2. /\ lreq \in Requests /\ lpkt \in Requests /\ lreq <= calls
        /\ cmd[lpkt] = cmd[lreq] /\ lpkt <= lreq /\ lpkt \in InAir
        /\ calls \in Nat /\ gaveUp \subseteq Requests
    BY <2>1 DEF ControlInv, RegisteredInv, MapInv, TypeOK, InAir
  <2>3. lpkt # lreq => BlamedBefore(lreq)
    <3>1. CASE Blamed(lpkt)
      BY <2>2, <3>1 DEF Blamed, BlamedBefore, Requests
    <3>2. CASE \E u \in Threads : InFlight(u) /\ req[u] = lpkt
      <4>1. lpkt = calls
        BY <3>2 DEF ControlInv, InFlightInv
      <4>2. QED
        BY <2>2, <4>1 DEF Requests
    <3>3. QED
      BY <2>2, <3>1, <3>2 DEF StaleInv
  <2>4. InAir' \subseteq InAir /\ \A u \in Threads : InFlight(u) => InFlight(u)'
    BY <2>1 DEF InAir, InFlight, InExchange
  <2>5. \A r \in Requests : response'[r] \notin {NoRequest, r} => BlamedBefore(r)
    BY <2>1, <2>2, <2>3 DEF StaleInv, ControlInv, TypeOK
  <2>6. QED
    BY <2>1, <2>4, <2>5 DEF StaleInv, StaleNeedsGiveUp, Blamed, BlamedBefore
<1>18. ASSUME MarkReady PROVE StaleInv'
  <2>1. InAir' \subseteq InAir
    BY <1>18 DEF MarkReady, InAir
  <2>2. QED
    BY <1>18, <2>1, StaleFrame DEF MarkReady, InFlight, InExchange
<1>19. ASSUME ConnectionLost PROVE StaleInv'
  <2>1. InAir' \subseteq InAir
    BY <1>19 DEF ConnectionLost, InAir
  <2>2. QED
    BY <1>19, <2>1, StaleFrame DEF ConnectionLost, InFlight, InExchange
<1>20. ASSUME Reconnect PROVE StaleInv'
  <2>1. InAir' \subseteq InAir
    BY <1>20 DEF Reconnect, InAir
  <2>2. QED
    BY <1>20, <2>1, StaleFrame DEF Reconnect, InFlight, InExchange
<1>21. ASSUME ClearResponses PROVE StaleInv'
  <2>1. InAir' \subseteq InAir
    BY <1>21 DEF ClearResponses, InAir
  <2>2. QED
    BY <1>21, <2>1, StaleFrame DEF ClearResponses, InFlight, InExchange
<1>22. CASE UNCHANGED vars
  BY <1>22, StaleFrame DEF vars, InAir, InFlight, InExchange
<1>23. QED
  BY <1>1, <1>2, <1>3, <1>4, <1>5, <1>6, <1>7, <1>8, <1>9, <1>10, <1>11, <1>12,
     <1>13, <1>14, <1>15, <1>16, <1>17, <1>18, <1>19, <1>20, <1>21, <1>22
  DEF Next, CallStep, DeliverStep

-----------------------------------------------------------------------------
(* The theorems *)

(* The inductive invariant holds in every state of the rendezvous. *)
LEMMA Invariance == Spec => []IInv
<1>1. Init => IInv
  BY ControlInit, MapInit, AnswerInit, StaleInit DEF IInv
<1>2. IInv /\ [Next]_vars => IInv'
  BY ControlStep, MapStep, AnswerStep, StaleStep DEF IInv
<1>3. QED
  BY <1>1, <1>2, PTL DEF Spec

(* Every variable keeps its type, for any number of threads, commands and
   requests. *)
THEOREM TypeCorrect == Spec => []TypeOK
<1>1. IInv => TypeOK
  BY DEF IInv, ControlInv
<1>2. QED
  BY <1>1, Invariance, PTL

(* No two threads are between registering a request and returning. *)
THEOREM ExchangesAreSerial == Spec => []OneExchange
<1>1. IInv => OneExchange
  BY DEF IInv, ControlInv, HolderInv, OneExchange
<1>2. QED
  BY <1>1, Invariance, PTL

(* During an exchange _responses holds the thread's own request under its
   command or nothing, so that erase() removes no other thread's entry. *)
THEOREM EntriesAreOwned == Spec => []EntryOwned
<1>1. IInv => EntryOwned
  <2> SUFFICES ASSUME IInv, NEW t \in Threads, InFlight(t),
                      responses[asked[t]] # NoRequest
               PROVE  responses[asked[t]] = req[t]
    BY DEF EntryOwned
  <2>1. /\ asked[t] \in Commands /\ req[t] = calls /\ req[t] \in Requests
        /\ cmd[req[t]] = asked[t]
    BY DEF IInv, ControlInv, AskedInv, InFlightInv, InFlight, InExchange
  <2>2. req[t] <= responses[asked[t]] /\ responses[asked[t]] <= calls
    BY <2>1 DEF IInv, MapInv, ControlInv, RegisteredInv, Requests
  <2>3. responses[asked[t]] \in Nat
    BY <2>1 DEF IInv, ControlInv, TypeOK, Answers, Requests, NoRequest
  <2>4. QED
    BY <2>1, <2>2, <2>3 DEF Requests
<1>2. QED
  BY <1>1, Invariance, PTL

(* The answer a call takes was sent and is for the command it asked. *)
THEOREM AnswersAreForTheCommand == Spec => []AnswersMatch
<1>1. IInv => AnswersMatch
  BY DEF IInv, AnswerInv, AnswersMatch
<1>2. QED
  BY <1>1, Invariance, PTL

(* A call takes another call's answer only after a call gave up. *)
THEOREM StaleAnswersHaveACause == Spec => []StaleNeedsGiveUp
<1>1. IInv => StaleNeedsGiveUp
  BY DEF IInv, StaleInv
<1>2. QED
  BY <1>1, Invariance, PTL

(* No call sleeps longer than half of waitForSeconds. *)
THEOREM WaitIsHalved == Spec => []WaitsAtMostHalf
<1>1. IInv => WaitsAtMostHalf
  <2> SUFFICES ASSUME IInv, NEW t \in Threads PROVE 2 * waited[t] <= WaitForSeconds
    BY DEF WaitsAtMostHalf
  <2>1. 2 * waited[t] <= evals[t] /\ evals[t] \in 0..WaitForSeconds /\ waited[t] \in Nat
    BY DEF IInv, ControlInv, CounterInv, TypeOK
  <2>2. QED
    BY <2>1
<1>2. QED
  BY <1>1, Invariance, PTL

(* A request in progress loses its entry only to the clear() of init(). *)
THEOREM EntriesAreKept == Spec => EntryKept
<1>1. ASSUME IInv, [Next]_vars, NEW u \in Threads, InFlight(u), InFlight(u)',
             responses'[asked[u]] # responses[asked[u]]
      PROVE  clearDue /\ ~clearDue'
  <2>1. \A t \in Threads : InExchange(t) => t = u
    BY <1>1 DEF IInv, ControlInv, HolderInv, InFlight
  <2>2. ASSUME NEW t \in Threads, Register(t) PROVE FALSE
    BY <1>1, <2>1, <2>2 DEF Register, InFlight, InExchange, PCs
  <2>3. ASSUME NEW t \in Threads, Erase(t) PROVE FALSE
    BY <1>1, <2>1, <2>3 DEF Erase, Return, InFlight, InExchange, PCs, IInv,
       ControlInv, TypeOK
  <2>4. CASE ClearResponses
    BY <2>4 DEF ClearResponses
  <2>5. \/ \E t \in Threads : Register(t) \/ Erase(t)
        \/ ClearResponses
        \/ UNCHANGED responses
    BY <1>1 DEF Next, CallStep, DeliverStep, Call, CallStopped, Acquire, Send,
       SendFails, Restarted, Check, Wake, TimeOut, TakeNothing, Take, Fail, Read,
       Lookup, WriteResponse, MarkReady, ConnectionLost, Reconnect, vars, mapVars
  <2>6. QED
    BY <1>1, <2>2, <2>3, <2>4, <2>5
<1> DEFINE Kept == \A t \in Threads :
                     /\ InFlight(t) /\ InFlight(t)'
                     /\ responses[asked[t]] = req[t]
                     /\ responses'[asked[t]] # req[t]
                     => clearDue /\ ~clearDue'
<1>2. IInv /\ [Next]_vars => [Kept]_vars
  BY <1>1
<1>3. QED
  BY <1>2, Invariance, PTL DEF EntryKept, Spec

-----------------------------------------------------------------------------
(* The refinement *)

(* The initial state of the rendezvous is one of SerialCalls. *)
LEMMA SerialInit == Init => Serial!Init
  BY DEF Init, Serial!Init, CommandOf

(* A step that leaves the mutexes, the commands, the history of sends and
   the results alone is no step of SerialCalls. *)
LEMMA SerialStutter ==
  ASSUME UNCHANGED <<asked, holder, cmd, sent, result>>
  PROVE  UNCHANGED Serial!vars
  BY DEF Serial!vars, CommandOf

(* Every step of the rendezvous is a step of SerialCalls or a stutter. *)
LEMMA SerialStep == IInv /\ [Next]_vars => [Serial!Next]_(Serial!vars)
<1> SUFFICES ASSUME IInv, [Next]_vars PROVE [Serial!Next]_(Serial!vars)
  OBVIOUS
<1> DEFINE answered == [t \in Threads |-> CommandOf(result[t])]
<1>0. TypeOK /\ HolderInv /\ AskedInv /\ InFlightInv /\ RegisteredInv /\ AnswerInv
  BY DEF IInv, ControlInv
<1> USE DEF callVars, mapVars, objectVars, histVars, listenVars, connVars
<1>1. ASSUME NEW t \in Threads, NEW c \in Commands, Call(t, c) PROVE Serial!Ask(t, c)
  <2>1. asked[t] = None
    BY <1>0, <1>1 DEF Call, AskedInv
  <2>2. answered' = [answered EXCEPT ![t] = None]
    BY <1>0, <1>1 DEF Call, CommandOf, TypeOK
  <2>3. QED
    BY <1>1, <2>1, <2>2 DEF Call, Serial!Ask
<1>2. ASSUME NEW t \in Threads, CallStopped(t) PROVE Serial!Refuse(t)
  <2>1. asked[t] = None
    BY <1>0, <1>2 DEF CallStopped, AskedInv
  <2>2. answered' = [answered EXCEPT ![t] = None]
    BY <1>0, <1>2 DEF CallStopped, CommandOf, TypeOK
  <2>3. QED
    BY <1>2, <2>1, <2>2 DEF CallStopped, Serial!Refuse
<1>3. ASSUME NEW t \in Threads, Acquire(t) PROVE Serial!OpenExchange(t)
  <2>1. asked[t] # None
    BY <1>0, <1>3 DEF Acquire, AskedInv
  <2>2. QED
    BY <1>3, <2>1 DEF Acquire, Serial!OpenExchange, CommandOf
<1>4. ASSUME NEW t \in Threads, Register(t) PROVE UNCHANGED Serial!vars
  <2>1. \A r \in Requests : r <= calls => cmd'[r] = cmd[r]
    BY <1>0, <1>4 DEF Register, TypeOK, Requests
  <2>2. {cmd[r] : r \in sent}' = {cmd[r] : r \in sent}
    BY <1>0, <1>4, <2>1 DEF Register, RegisteredInv, TypeOK
  <2>3. \A u \in Threads : CommandOf(result[u])' = CommandOf(result[u])
    BY <1>0, <1>4, <2>1 DEF Register, CommandOf, AnswerInv, RegisteredInv,
       TypeOK
  <2>4. QED
    BY <1>4, <2>2, <2>3 DEF Register, Serial!vars
<1>5. ASSUME NEW t \in Threads, Send(t) PROVE Serial!Put(t)
  <2>1. holder = t /\ cmd[req[t]] = asked[t]
    BY <1>0, <1>5 DEF Send, HolderInv, InFlightInv, InFlight, InExchange, PCs
  <2>2. {cmd[r] : r \in sent}' = {cmd[r] : r \in sent} \cup {asked[t]}
    BY <1>5, <2>1 DEF Send
  <2>3. QED
    BY <1>5, <2>1, <2>2 DEF Send, Serial!Put, CommandOf
<1>6. ASSUME NEW t \in Threads, SendFails(t) \/ Check(t) \/ Wake(t) \/ TimeOut(t) \/ Fail(t)
      PROVE UNCHANGED Serial!vars
  BY <1>6, SerialStutter DEF SendFails, Check, Wake, TimeOut, Fail
<1>7. ASSUME NEW t \in Threads, Restarted(t) \/ TakeNothing(t) \/ Erase(t)
      PROVE Serial!Close(t)
  <2>1. holder = t
    BY <1>0, <1>7 DEF Restarted, TakeNothing, Erase, HolderInv, InExchange, PCs
  <2>2. Return(t, "fail") \/ Return(t, "idle")
    BY <1>7 DEF Restarted, TakeNothing, Erase
  <2>3. UNCHANGED <<cmd, sent>>
    BY <1>7 DEF Restarted, TakeNothing, Erase
  <2>4. QED
    BY <2>1, <2>2, <2>3 DEF Return, Serial!Close, CommandOf
<1>8. ASSUME NEW t \in Threads, Take(t) PROVE Serial!Answer(t)
  <2> DEFINE a == response[req[t]]
  <2>1. holder = t /\ cmd[req[t]] = asked[t] /\ req[t] \in Requests
    BY <1>0, <1>8 DEF Take, HolderInv, InFlightInv, InFlight, InExchange, PCs
  <2>2. a # NoRequest /\ a \in sent /\ cmd[a] = asked[t]
    BY <1>0, <1>8, <2>1 DEF Take, AnswerInv
  <2>3. result' = [result EXCEPT ![t] = a] /\ UNCHANGED <<asked, holder, cmd, sent>>
    BY <1>8 DEF Take
  <2>4. answered' = [answered EXCEPT ![t] = asked[t]]
    BY <1>0, <2>2, <2>3 DEF CommandOf, TypeOK
  <2>5. asked[t] \in {cmd[r] : r \in sent}
    BY <2>2
  <2>6. QED
    BY <2>1, <2>3, <2>4, <2>5 DEF Serial!Answer
<1>9. ASSUME NEW r \in Requests, Read(r) PROVE UNCHANGED Serial!vars
  BY <1>9, SerialStutter DEF Read
<1>10. CASE DeliverStep \/ ConnectionLost \/ Reconnect \/ ClearResponses
  BY <1>10, SerialStutter DEF DeliverStep, Lookup, WriteResponse, MarkReady,
     ConnectionLost, Reconnect, ClearResponses
<1>11. CASE UNCHANGED vars
  BY <1>11, SerialStutter DEF vars
<1>12. QED
  BY <1>1, <1>2, <1>3, <1>4, <1>5, <1>6, <1>7, <1>8, <1>9, <1>10, <1>11
  DEF Next, CallStep, Serial!Next

(* getResponse implements the abstract serial calls: exchanges are opened one
   at a time and end with an answer to the asked command that was sent, or
   with none. *)
THEOREM Refinement == Spec => ImplementsSerialCalls
<1>1. QED
  BY SerialInit, SerialStep, Invariance, PTL
  DEF Spec, ImplementsSerialCalls, Serial!Spec
=============================================================================
