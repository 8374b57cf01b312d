---------------------------- MODULE RequestReply ----------------------------
(***************************************************************************)
(* The rendezvous between the threads that call Miniserver::getResponse    *)
(* (keepAlive, refreshToken, init and the RPC threads) and the listen      *)
(* thread that delivers the Miniserver's answers through _responses.       *)
(*                                                                         *)
(* A request object is the Request of Miniserver.h; objects are numbered   *)
(* in the order in which they are registered, and an answer carries the    *)
(* number of the request it was sent for, which the program cannot see:    *)
(* it finds the request by the command alone.                              *)
(*                                                                         *)
(* _getResponseMutex is only ever taken directly under _sendPacketMutex    *)
(* and is one lock with it here.  The joins inside startListening() are    *)
(* the subject of module Miniserver: a restart may finish or hang here.    *)
(***************************************************************************)
EXTENDS Naturals

CONSTANTS Threads,         (* threads that call getResponse                *)
          Commands,        (* response commands, the keys of _responses    *)
          CloseCommand,    (* the command answered by a close frame        *)
          WaitForSeconds,  (* evaluations of the predicate before give-up  *)
          MaxCalls,        (* bound on the requests registered             *)
          None             (* no thread, no command                        *)

ASSUME ThreadsAssumption == None \notin Threads
ASSUME CommandsAssumption == None \notin Commands
ASSUME BoundsAssumption == MaxCalls \in Nat /\ WaitForSeconds \in Nat \ {0}

Requests == 1..MaxCalls    (* the request objects *)
NoRequest == 0             (* a null pointer: no entry, no response *)
Answers == Requests \cup {NoRequest}

VARIABLES
  pc,         (* where each thread is in getResponse                       *)
  asked,      (* its responseCommand                                       *)
  req,        (* its request object                                        *)
  evals,      (* its i: evaluations of the predicate of wait_for           *)
  waited,     (* whole seconds it slept in wait_for                        *)
  result,     (* the answer its call took, NoRequest for null              *)
  holder,     (* the thread holding _sendPacketMutex and _getResponseMutex *)
  calls,      (* number of requests registered so far                      *)
  cmd,        (* the command each request object was registered for        *)
  responses,  (* the map _responses                                        *)
  response,   (* Request::response of each object                          *)
  ready,      (* Request::mutexReady of each object                        *)
  gaveUp,     (* requests whose call returned null (history)               *)
  sent,       (* requests put on the wire (history)                        *)
  lpc,        (* where the listen thread is in delivering a packet         *)
  lreq,       (* the request object it delivers to                         *)
  lpkt,       (* the answer it delivers                                    *)
  stopped,    (* _stopped                                                  *)
  clearDue,   (* init() was started and has not cleared _responses yet     *)
  pending     (* requests the Miniserver received and has not answered     *)

callVars == <<pc, asked, req, evals, waited, result, holder>>
mapVars == <<calls, cmd, responses>>
objectVars == <<response, ready>>
listenVars == <<lpc, lreq, lpkt>>
connVars == <<stopped, clearDue, pending>>
histVars == <<gaveUp, sent>>
vars == <<callVars, mapVars, objectVars, histVars, listenVars, connVars>>

PCs == {"idle", "acquire", "register", "send", "check", "wait", "take",
        "erase", "restart", "fail"}
ListenPCs == {"read", "lookup", "write", "ready"}

-----------------------------------------------------------------------------
(* Init *)

Init ==
  /\ pc = [t \in Threads |-> "idle"]
  /\ asked = [t \in Threads |-> None]
  /\ req = [t \in Threads |-> NoRequest]
  /\ evals = [t \in Threads |-> 0]
  /\ waited = [t \in Threads |-> 0]
  /\ result = [t \in Threads |-> NoRequest]
  /\ holder = None
  /\ calls = 0
  /\ cmd = [r \in Requests |-> None]
  /\ responses = [c \in Commands |-> NoRequest]
  /\ response = [r \in Requests |-> NoRequest]
  /\ ready = [r \in Requests |-> FALSE]
  /\ gaveUp = {}
  /\ sent = {}
  /\ lpc = "read"
  /\ lreq = NoRequest
  /\ lpkt = NoRequest
  /\ stopped = TRUE
  /\ clearDue = FALSE
  /\ pending = {}

-----------------------------------------------------------------------------
(* getResponse *)

(* Mutant of Awake: the wait has no end of its own. *)
AwakeForever(t, k) == ready[req[t]] \/ stopped

(* The predicate of wait_for, evaluated for the k-th time. *)
Awake(t, k) == ready[req[t]] \/ stopped \/ k = WaitForSeconds

(* getResponse(c) on a live connection: the call queues for the mutex. *)
Call(t, c) ==
  /\ pc[t] = "idle"
  /\ ~stopped
  /\ pc' = [pc EXCEPT ![t] = "acquire"]
  /\ asked' = [asked EXCEPT ![t] = c]
  /\ result' = [result EXCEPT ![t] = NoRequest]
  /\ UNCHANGED <<req, evals, waited, holder, mapVars, objectVars, histVars,
                 listenVars, connVars>>

(* getResponse on a stopped connection returns null at once. *)
CallStopped(t) ==
  /\ pc[t] = "idle"
  /\ stopped
  /\ pc' = [pc EXCEPT ![t] = "fail"]
  /\ result' = [result EXCEPT ![t] = NoRequest]
  /\ UNCHANGED <<asked, req, evals, waited, holder, mapVars, objectVars,
                 histVars, listenVars, connVars>>

(* Mutant of Acquire: the lock of _sendPacketMutex is missing. *)
AcquireUnlocked(t) ==
  /\ pc[t] = "acquire"
  /\ calls < MaxCalls
  /\ holder' = t
  /\ pc' = [pc EXCEPT ![t] = "register"]
  /\ UNCHANGED <<asked, req, evals, waited, result, mapVars, objectVars,
                 histVars, listenVars, connVars>>

Acquire(t) ==
  /\ pc[t] = "acquire"
  /\ holder = None
  /\ calls < MaxCalls
  /\ holder' = t
  /\ pc' = [pc EXCEPT ![t] = "register"]
  /\ UNCHANGED <<asked, req, evals, waited, result, mapVars, objectVars,
                 histVars, listenVars, connVars>>

(* Mutant of Register: emplace() instead of operator[] keeps an old entry. *)
RegisterEmplacing(t) ==
  /\ pc[t] = "register"
  /\ LET r == calls + 1
         old == responses[asked[t]] IN
       /\ calls' = r
       /\ cmd' = [cmd EXCEPT ![r] = asked[t]]
       /\ responses' = [responses EXCEPT
                          ![asked[t]] = IF old = NoRequest THEN r ELSE old]
       /\ req' = [req EXCEPT ![t] = r]
  /\ pc' = [pc EXCEPT ![t] = "send"]
  /\ UNCHANGED <<asked, evals, waited, result, holder, objectVars, histVars,
                 listenVars, connVars>>

(* A new Request replaces whatever entry the command had. *)
Register(t) ==
  /\ pc[t] = "register"
  /\ LET r == calls + 1 IN
       /\ calls' = r
       /\ cmd' = [cmd EXCEPT ![r] = asked[t]]
       /\ responses' = [responses EXCEPT ![asked[t]] = r]
       /\ req' = [req EXCEPT ![t] = r]
  /\ pc' = [pc EXCEPT ![t] = "send"]
  /\ UNCHANGED <<asked, evals, waited, result, holder, objectVars, histVars,
                 listenVars, connVars>>

(* The request's mutex is locked and the command reaches the Miniserver. *)
Send(t) ==
  /\ pc[t] = "send"
  /\ pending' = pending \cup {req[t]}
  /\ sent' = sent \cup {req[t]}
  /\ pc' = [pc EXCEPT ![t] = "check"]
  /\ UNCHANGED <<asked, req, evals, waited, result, holder, mapVars,
                 objectVars, gaveUp, listenVars, stopped, clearDue>>

(* Send throws: startListening() is called with the mutexes held. *)
SendFails(t) ==
  /\ pc[t] = "send"
  /\ pc' = [pc EXCEPT ![t] = "restart"]
  /\ UNCHANGED <<asked, req, evals, waited, result, holder, mapVars,
                 objectVars, histVars, listenVars, connVars>>

(* The call returns: its mutexes are released and its locals are gone (req
   is kept for the properties). *)
Return(t, next) ==
  /\ pc' = [pc EXCEPT ![t] = next]
  /\ holder' = None
  /\ asked' = [asked EXCEPT ![t] = None]
  /\ evals' = [evals EXCEPT ![t] = 0]
  /\ waited' = [waited EXCEPT ![t] = 0]
  /\ UNCHANGED <<req, result>>

(* startListening() came back: the old listen thread was joined between two
   packets, the socket is new, nothing sent on the old one is answered. *)
Restarted(t) ==
  /\ pc[t] = "restart"
  /\ lpc = "read"
  /\ stopped' = TRUE
  /\ pending' = {}
  /\ gaveUp' = gaveUp \cup {req[t]}
  /\ UNCHANGED sent
  /\ Return(t, "fail")
  /\ UNCHANGED <<mapVars, objectVars, listenVars, clearDue>>

(* The predicate on entry to wait_for, and after a wake-up without time-out;
   a false predicate releases the request's mutex and sleeps. *)
Check(t) ==
  /\ pc[t] = "check"
  /\ evals' = [evals EXCEPT ![t] = evals[t] + 1]
  /\ pc' = [pc EXCEPT ![t] = IF Awake(t, evals[t] + 1) THEN "take" ELSE "wait"]
  /\ UNCHANGED <<asked, req, waited, result, holder, mapVars, objectVars,
                 histVars, listenVars, connVars>>

(* notify_one, or a spurious wake-up. *)
Wake(t) ==
  /\ pc[t] = "wait"
  /\ pc' = [pc EXCEPT ![t] = "check"]
  /\ UNCHANGED <<asked, req, evals, waited, result, holder, mapVars,
                 objectVars, histVars, listenVars, connVars>>

(* Mutant of TimeOut: the predicate is not evaluated when the wait times out. *)
TimeOutUncounted(t) ==
  /\ pc[t] = "wait"
  /\ waited' = [waited EXCEPT ![t] = waited[t] + 1]
  /\ pc' = [pc EXCEPT ![t] = "check"]
  /\ UNCHANGED <<asked, req, evals, result, holder, mapVars, objectVars,
                 histVars, listenVars, connVars>>

(* One second passed: wait_for evaluates the predicate, returns its value,
   and the loop enters wait_for again without releasing the mutex. *)
TimeOut(t) ==
  /\ pc[t] = "wait"
  /\ waited' = [waited EXCEPT ![t] = waited[t] + 1]
  /\ evals' = [evals EXCEPT ![t] = evals[t] + 1]
  /\ pc' = [pc EXCEPT ![t] = IF Awake(t, evals[t] + 1) THEN "take" ELSE "check"]
  /\ UNCHANGED <<asked, req, result, holder, mapVars, objectVars, histVars,
                 listenVars, connVars>>

(* Mutant of TakeNothing: the call waits again instead of giving up. *)
TakeNothingRetries(t) ==
  /\ pc[t] = "take"
  /\ evals[t] = WaitForSeconds \/ response[req[t]] = NoRequest
  /\ pc' = [pc EXCEPT ![t] = "check"]
  /\ evals' = [evals EXCEPT ![t] = 0]
  /\ waited' = [waited EXCEPT ![t] = 0]
  /\ UNCHANGED <<asked, req, result, holder, mapVars, objectVars, histVars,
                 listenVars, connVars>>

(* i == waitForSeconds or no response: null, and the entry stays. *)
TakeNothing(t) ==
  /\ pc[t] = "take"
  /\ evals[t] = WaitForSeconds \/ response[req[t]] = NoRequest
  /\ gaveUp' = gaveUp \cup {req[t]}
  /\ UNCHANGED sent
  /\ Return(t, "fail")
  /\ UNCHANGED <<mapVars, objectVars, listenVars, connVars>>

(* The response is copied while the listen thread may still write it. *)
Take(t) ==
  /\ pc[t] = "take"
  /\ evals[t] # WaitForSeconds
  /\ response[req[t]] # NoRequest
  /\ result' = [result EXCEPT ![t] = response[req[t]]]
  /\ pc' = [pc EXCEPT ![t] = "erase"]
  /\ UNCHANGED <<asked, req, evals, waited, holder, mapVars, objectVars,
                 histVars, listenVars, connVars>>

(* _responses.erase(responseCommand), whatever the entry is; then return. *)
Erase(t) ==
  /\ pc[t] = "erase"
  /\ responses' = [responses EXCEPT ![asked[t]] = NoRequest]
  /\ Return(t, "idle")
  /\ UNCHANGED <<calls, cmd, objectVars, histVars, listenVars, connVars>>

(* Every caller of getResponse answers null with _stopped = true. *)
Fail(t) ==
  /\ pc[t] = "fail"
  /\ stopped' = TRUE
  /\ pc' = [pc EXCEPT ![t] = "idle"]
  /\ UNCHANGED <<asked, req, evals, waited, result, holder, mapVars,
                 objectVars, histVars, listenVars, clearDue, pending>>

-----------------------------------------------------------------------------
(* The listen thread and the Miniserver *)

(* An answer arrives, each request being answered at most once, in any order
   or never.  One read may hold several frames, so that a frame is processed
   after _stopped was set.  A close frame sets _stopped before delivery. *)
Read(r) ==
  /\ lpc = "read"
  /\ r \in pending
  /\ pending' = pending \ {r}
  /\ lpkt' = r
  /\ lpc' = "lookup"
  /\ stopped' = (stopped \/ cmd[r] = CloseCommand)
  /\ UNCHANGED <<callVars, mapVars, objectVars, histVars, lreq, clearDue>>

(* Mutant of Lookup: the answer goes to the request registered last. *)
LookupNewest ==
  /\ lpc = "lookup"
  /\ lreq' = calls
  /\ lpc' = "write"
  /\ UNCHANGED <<callVars, mapVars, objectVars, histVars, lpkt, connVars>>

(* Mutant of Lookup: the entry is erased when its answer is delivered. *)
LookupErasing ==
  /\ lpc = "lookup"
  /\ lreq' = responses[cmd[lpkt]]
  /\ responses' = [responses EXCEPT ![cmd[lpkt]] = NoRequest]
  /\ IF lreq' = NoRequest
       THEN lpc' = "read" /\ lpkt' = NoRequest
       ELSE lpc' = "write" /\ UNCHANGED lpkt
  /\ UNCHANGED <<callVars, calls, cmd, objectVars, histVars, connVars>>

(* The entry of the answered command is looked up under _responsesMutex. *)
Lookup ==
  /\ lpc = "lookup"
  /\ lreq' = responses[cmd[lpkt]]
  /\ IF lreq' = NoRequest
       THEN lpc' = "read" /\ lpkt' = NoRequest
       ELSE lpc' = "write" /\ UNCHANGED lpkt
  /\ UNCHANGED <<callVars, mapVars, objectVars, histVars, connVars>>

(* request->response is written without request->mutex. *)
WriteResponse ==
  /\ lpc = "write"
  /\ response' = [response EXCEPT ![lreq] = lpkt]
  /\ lpc' = "ready"
  /\ lpkt' = NoRequest
  /\ UNCHANGED <<callVars, mapVars, ready, histVars, lreq, connVars>>

(* A thread holds its request's mutex from the send to the return, except
   while it sleeps in wait_for. *)
HoldsRequest(t) == pc[t] \in {"check", "take", "erase", "restart"}

(* mutexReady under request->mutex, then notify_one. *)
MarkReady ==
  /\ lpc = "ready"
  /\ \A t \in Threads : ~(HoldsRequest(t) /\ req[t] = lreq)
  /\ ready' = [ready EXCEPT ![lreq] = TRUE]
  /\ lpc' = "read"
  /\ lreq' = NoRequest
  /\ UNCHANGED <<callVars, mapVars, response, histVars, lpkt, connVars>>

(* A read error, an unexpected close frame, or stopListening(). *)
ConnectionLost ==
  /\ lpc = "read"
  /\ ~stopped
  /\ stopped' = TRUE
  /\ UNCHANGED <<callVars, mapVars, objectVars, histVars, listenVars, clearDue,
                 pending>>

(* The listen thread opens a new connection and starts init(). *)
Reconnect ==
  /\ lpc = "read"
  /\ stopped
  /\ stopped' = FALSE
  /\ clearDue' = TRUE
  /\ pending' = {}
  /\ UNCHANGED <<callVars, mapVars, objectVars, histVars, listenVars>>

(* init() clears _responses, requests in progress included. *)
ClearResponses ==
  /\ clearDue
  /\ clearDue' = FALSE
  /\ responses' = [c \in Commands |-> NoRequest]
  /\ UNCHANGED <<callVars, calls, cmd, objectVars, histVars, listenVars,
                 stopped, pending>>

-----------------------------------------------------------------------------

CallStep(t) ==
  \/ Acquire(t)
  \/ Register(t)
  \/ Send(t)
  \/ SendFails(t)
  \/ Restarted(t)
  \/ Check(t)
  \/ Wake(t)
  \/ TimeOut(t)
  \/ TakeNothing(t)
  \/ Take(t)
  \/ Erase(t)
  \/ Fail(t)

DeliverStep ==
  \/ Lookup
  \/ WriteResponse
  \/ MarkReady

Next ==
  \/ \E t \in Threads : \/ CallStep(t)
                        \/ \E c \in Commands : Call(t, c)
                        \/ CallStopped(t)
  \/ \E r \in Requests : Read(r)
  \/ DeliverStep
  \/ ConnectionLost
  \/ Reconnect
  \/ ClearResponses

Spec == Init /\ [][Next]_vars

(* A runnable thread eventually runs: each thread inside getResponse and the
   listen thread while it delivers a packet.  Calls, answers, losses and
   reconnections are never forced. *)
FairSpec ==
  /\ Spec
  /\ \A t \in Threads : WF_vars(CallStep(t))
  /\ WF_vars(DeliverStep)

-----------------------------------------------------------------------------
(* Properties *)

(* The types of the state: the counter of evaluations never passes
   waitForSeconds (Miniserver.cpp:883 compares with ==). *)
TypeOK ==
  /\ pc \in [Threads -> PCs]
  /\ asked \in [Threads -> Commands \cup {None}]
  /\ req \in [Threads -> Answers]
  /\ evals \in [Threads -> 0..WaitForSeconds]
  /\ waited \in [Threads -> Nat]
  /\ result \in [Threads -> Answers]
  /\ holder \in Threads \cup {None}
  /\ calls \in 0..MaxCalls
  /\ cmd \in [Requests -> Commands \cup {None}]
  /\ responses \in [Commands -> Answers]
  /\ response \in [Requests -> Answers]
  /\ ready \in [Requests -> BOOLEAN]
  /\ gaveUp \in SUBSET Requests
  /\ sent \in SUBSET Requests
  /\ lpc \in ListenPCs
  /\ lreq \in Answers
  /\ lpkt \in Answers
  /\ stopped \in BOOLEAN
  /\ clearDue \in BOOLEAN
  /\ pending \in SUBSET Requests

(* t is between taking and releasing _sendPacketMutex. *)
InExchange(t) == pc[t] \in PCs \ {"idle", "acquire", "fail"}

(* t has registered its request and not returned. *)
InFlight(t) == InExchange(t) /\ pc[t] # "register"

(* The two mutexes serialise the exchanges: from registering a request to
   returning, no second thread is inside getResponse (Miniserver.cpp:860). *)
OneExchange ==
  \A t, u \in Threads : InExchange(t) /\ InExchange(u) => t = u

(* _responses is keyed by the command alone and erase() removes whatever the
   key holds: during an exchange that is the thread's own request, or nothing
   once init() has cleared the map, never another thread's request. *)
EntryOwned ==
  \A t \in Threads :
    InFlight(t) => responses[asked[t]] \in {req[t], NoRequest}

(* A call only ever returns an answer to the command it asked for, whatever
   was left in _responses by calls that gave up, and only one that was sent. *)
AnswersMatch ==
  \A t \in Threads :
    result[t] # NoRequest => result[t] \in sent /\ cmd[result[t]] = cmd[req[t]]

(* A call returns the answer to an earlier request of the same command only
   if an earlier call for that command gave up: without time-outs, failed
   sends and lost connections every call gets its own answer. *)
StaleNeedsGiveUp ==
  \A t \in Threads :
    result[t] \notin {NoRequest, req[t]} =>
      \E q \in gaveUp : q < req[t] /\ cmd[q] = cmd[req[t]]

(* The predicate of wait_for is evaluated twice per second, at the end of a
   wait and on entry to the next one, and the count of evaluations is what is
   compared with waitForSeconds: no call sleeps longer than half of it. *)
WaitsAtMostHalf == \A t \in Threads : 2 * waited[t] <= WaitForSeconds

(* A call that gives up because its time is over, with no answer delivered
   and the connection up, has waited for waitForSeconds seconds, as the
   parameter of getResponse is named (Miniserver.h:97). *)
WaitsForSeconds ==
  \A t \in Threads :
    /\ pc[t] = "take"
    /\ evals[t] = WaitForSeconds
    /\ ~ready[req[t]]
    /\ ~stopped
    => waited[t] >= WaitForSeconds

(* A request in progress loses its entry, and with it its answer, only to
   the clear() of init(), never to another call or to a delivery. *)
EntryKept ==
  [][\A t \in Threads :
       /\ InFlight(t) /\ InFlight(t)'
       /\ responses[asked[t]] = req[t]
       /\ responses'[asked[t]] # req[t]
       => clearDue /\ ~clearDue']_vars

(* As long as no send fails, the thread that holds the mutexes releases them:
   no answer, a late answer, a lost connection or a missed notification can
   keep the other callers out for ever. *)
MutexReleased ==
  [](\A t \in Threads : pc[t] # "restart")
    => \A t \in Threads : holder = t ~> holder # t

(* getResponse implements the abstract serial calls. *)
CommandOf(a) == IF a = NoRequest THEN None ELSE cmd[a]

Serial == INSTANCE SerialCalls
  WITH open <- holder,
       sent <- {cmd[r] : r \in sent},
       result <- [t \in Threads |-> CommandOf(result[t])]

(* Every behaviour of the rendezvous is one of SerialCalls: exchanges one at
   a time, answers only to the asked command and only after it was sent. *)
ImplementsSerialCalls == Serial!Spec
=============================================================================
