----------------------------- MODULE Miniserver -----------------------------
(***************************************************************************)
(* The life of a connection to a Miniserver: the threads listen, init,     *)
(* keepAlive and refreshToken, the Homegear threads that call into the     *)
(* interface, the flags they share, who starts whom and who joins whom.    *)
(*                                                                         *)
(* getResponse is reduced to what module RequestReply shows of it: a       *)
(* caller queues for _sendPacketMutex, sends, and gets an answer or null;  *)
(* the mutex is held meanwhile, also while a failed send restarts the      *)
(* interface.  Sleeps take any time.                                       *)
(***************************************************************************)
EXTENDS Naturals

CONSTANTS Rpc,        (* Homegear threads: searchDevices, setValue         *)
          InitSteps,  (* number of exchanges in init()                     *)
          SoftSteps,  (* those whose failure does not end init() at once   *)
          None        (* no thread                                         *)

ASSUME InitAssumption ==
  InitSteps \in Nat \ {0} /\ SoftSteps \subseteq 1..(InitSteps - 1)
ASSUME RpcAssumption ==
  /\ None \notin Rpc \cup {"main", "listen", "init", "keepAlive", "refresh"}
  /\ Rpc \cap {"main", "listen", "init", "keepAlive", "refresh"} = {}

Periodic == {"keepAlive", "refresh"}
Callers == {"main", "init"} \cup Periodic \cup Rpc   (* call getResponse *)
Threads == Callers \cup {"listen"}

VARIABLES
  pc,            (* where each thread is; "dead" before start, after return *)
  sub,           (* where it is in getResponse, startListening,
                    stopListening; "packet" (with code 200) or "null" when
                    getResponse has returned; "none" otherwise              *)
  holder,        (* the thread holding _sendPacketMutex, or None            *)
  stopped,       (* _stopped                                                *)
  stopCallback,  (* _stopCallbackThread                                     *)
  connected,     (* _connected                                              *)
  socket,        (* "open" while _tcpSocket->Connected()                    *)
  step,          (* the exchange init() is at                               *)
  overlap        (* two restarts or stops ran at the same time (history)    *)

flags == <<stopped, stopCallback, connected>>
vars == <<pc, sub, holder, flags, socket, step, overlap>>

Goto(t, l) == pc' = [pc EXCEPT ![t] = l]
Enter(t, s) == sub' = [sub EXCEPT ![t] = s]
At(t, l) == pc[t] = l /\ sub[t] = "none"
Packet(t, l) == pc[t] = l /\ sub[t] = "packet"
Null(t, l) == pc[t] = l /\ sub[t] = "null"
Dead(t) == pc[t] = "dead"

Init ==
  /\ pc = [t \in Threads |-> IF t = "main" THEN "boot"
                             ELSE IF t \in Rpc THEN "idle" ELSE "dead"]
  /\ sub = [t \in Threads |-> "none"]
  /\ holder = None
  /\ stopped = TRUE
  /\ stopCallback = FALSE
  /\ connected = FALSE
  /\ socket = "closed"
  /\ step = 1
  /\ overlap = FALSE

-----------------------------------------------------------------------------
(* getResponse, called from location l of thread t *)

GetResponse(t, l) ==
  /\ Goto(t, l)
  /\ Enter(t, IF stopped THEN "null" ELSE "lock")

Lock(t) ==
  /\ sub[t] = "lock"
  /\ holder = None
  /\ holder' = t
  /\ Enter(t, "send")
  /\ UNCHANGED <<pc, flags, socket, step, overlap>>

SendSucceeds(t) ==
  /\ sub[t] = "send"
  /\ socket = "open"
  /\ Enter(t, "wait")
  /\ UNCHANGED <<pc, holder, flags, socket, step, overlap>>

(* Send throws, on a lost connection or on a write time-out. *)
SendFails(t) ==
  /\ sub[t] = "send"
  /\ Enter(t, "halt")
  /\ UNCHANGED <<pc, holder, flags, socket, step, overlap>>

(* The wait ends with a packet or with none. *)
WaitEnds(t) ==
  /\ sub[t] = "wait"
  /\ \E r \in {"packet", "null"} : Enter(t, r)
  /\ holder' = None
  /\ UNCHANGED <<pc, flags, socket, step, overlap>>

-----------------------------------------------------------------------------
(* stopListening and startListening, run by thread t *)

Restarting(t) ==
  sub[t] \in {"joinListen", "joinKeepAlive", "renew", "launch"}

Halt(t) ==
  /\ sub[t] = "halt"
  /\ overlap' = (overlap \/ \E u \in Callers : Restarting(u))
  /\ stopCallback' = TRUE
  /\ socket' = "closed"
  /\ Enter(t, "joinListen")
  /\ UNCHANGED <<pc, holder, stopped, connected, step>>

(* Mutant of JoinListen: the listen thread is not joined. *)
JoinListenSkipped(t) ==
  /\ sub[t] = "joinListen"
  /\ Enter(t, "joinKeepAlive")
  /\ UNCHANGED <<pc, holder, flags, socket, step, overlap>>

JoinListen(t) ==
  /\ sub[t] = "joinListen"
  /\ Dead("listen")
  /\ Enter(t, "joinKeepAlive")
  /\ UNCHANGED <<pc, holder, flags, socket, step, overlap>>

(* A thread that joins itself gets an error instead of waiting; whether the
   error leaves stopListening before _stopped is set is the library's choice. *)
JoinKeepAlive(t) ==
  /\ sub[t] = "joinKeepAlive"
  /\ IF t = "keepAlive" THEN stopped' \in {TRUE, stopped}
                        ELSE Dead("keepAlive") /\ stopped' = TRUE
  /\ Enter(t, IF pc[t] = "stopping" THEN "none" ELSE "renew")
  /\ UNCHANGED <<pc, holder, stopCallback, connected, socket, step, overlap>>

Renew(t) ==
  /\ sub[t] = "renew"
  /\ socket' = "closed"
  /\ stopCallback' = FALSE
  /\ Enter(t, "launch")
  /\ UNCHANGED <<pc, holder, stopped, connected, step, overlap>>

(* Starting a thread joins its predecessor first.  A restart from within
   getResponse ends the call with null. *)
Launch(t) ==
  /\ sub[t] = "launch"
  /\ Dead("listen")
  /\ Goto("listen", "open")
  /\ Enter(t, IF holder = t THEN "null" ELSE "none")
  /\ holder' = IF holder = t THEN None ELSE holder
  /\ UNCHANGED <<flags, socket, step, overlap>>

SubStep(t) ==
  \/ Lock(t)
  \/ SendSucceeds(t)
  \/ SendFails(t)
  \/ WaitEnds(t)
  \/ Halt(t)
  \/ JoinListen(t)
  \/ JoinKeepAlive(t)
  \/ Renew(t)
  \/ Launch(t)

-----------------------------------------------------------------------------
(* listen *)

(* Open, at the start of the thread and after the pause of a reconnect.  It
   may return without a connection or throw, and the handler of a reconnect
   that threw gives the connection up. *)
OpenSucceeds ==
  /\ pc["listen"] \in {"open", "reopen"}
  /\ socket' = "open"
  /\ stopped' = FALSE
  /\ connected' = FALSE
  /\ Goto("listen", "startInit")
  /\ UNCHANGED <<sub, holder, stopCallback, step, overlap>>

OpenFails ==
  /\ pc["listen"] \in {"open", "reopen"}
  /\ \/ UNCHANGED <<stopped, connected>>
     \/ pc["listen"] = "reopen" /\ stopped' = TRUE /\ connected' = FALSE
  /\ Goto("listen", "loop")
  /\ UNCHANGED <<sub, holder, stopCallback, socket, step, overlap>>

StartInit ==
  /\ pc["listen"] = "startInit"
  /\ Dead("init")
  /\ pc' = [pc EXCEPT !["listen"] = "loop", !["init"] = "begin"]
  /\ UNCHANGED <<sub, holder, flags, socket, step, overlap>>

ListenEnds ==
  /\ pc["listen"] = "loop"
  /\ stopCallback
  /\ Goto("listen", "dead")
  /\ UNCHANGED <<sub, holder, flags, socket, step, overlap>>

(* "Connection to device closed. Trying to reconnect..." *)
NoticeLoss ==
  /\ pc["listen"] = "loop"
  /\ ~stopCallback
  /\ stopped \/ socket # "open"
  /\ Goto("listen", "joinKeepAlive")
  /\ UNCHANGED <<sub, holder, flags, socket, step, overlap>>

ReadBegins ==
  /\ pc["listen"] = "loop"
  /\ ~stopCallback /\ ~stopped
  /\ socket = "open"
  /\ Goto("listen", "read")
  /\ UNCHANGED <<sub, holder, flags, socket, step, overlap>>

(* The read timed out or its frames were processed. *)
ReadEnds ==
  /\ pc["listen"] = "read"
  /\ Goto("listen", "loop")
  /\ UNCHANGED <<sub, holder, flags, socket, step, overlap>>

(* A close frame, or an exception while reading or processing. *)
ReadFails ==
  /\ pc["listen"] = "read"
  /\ stopped' = TRUE
  /\ connected' = FALSE
  /\ Goto("listen", "loop")
  /\ UNCHANGED <<sub, holder, stopCallback, socket, step, overlap>>

ListenJoinsKeepAlive ==
  /\ pc["listen"] = "joinKeepAlive"
  /\ Dead("keepAlive")
  /\ Goto("listen", "joinRefresh")
  /\ UNCHANGED <<sub, holder, flags, socket, step, overlap>>

(* After the join the socket is shut down; the pause before the next Open is
   cut short, not skipped, by _stopCallbackThread. *)
ListenJoinsRefresh ==
  /\ pc["listen"] = "joinRefresh"
  /\ Dead("refresh")
  /\ socket' = "closed"
  /\ Goto("listen", "reopen")
  /\ UNCHANGED <<sub, holder, flags, step, overlap>>

ListenStep ==
  \/ OpenSucceeds
  \/ OpenFails
  \/ StartInit
  \/ ListenEnds
  \/ NoticeLoss
  \/ ReadBegins
  \/ ReadEnds
  \/ ListenJoinsKeepAlive
  \/ ListenJoinsRefresh

-----------------------------------------------------------------------------
(* init *)

InitBegins ==
  /\ At("init", "begin")
  /\ connected' = FALSE
  /\ step' = 1
  /\ Goto("init", "ask")
  /\ UNCHANGED <<sub, holder, stopped, stopCallback, socket, overlap>>

InitAsks ==
  /\ At("init", "ask")
  /\ GetResponse("init", "answer")
  /\ UNCHANGED <<holder, flags, socket, step, overlap>>

(* Whatever happened to a soft step, the next step is next. *)
InitProceeds ==
  /\ Packet("init", "answer") \/ (Null("init", "answer") /\ step \in SoftSteps)
  /\ IF sub["init"] = "null" THEN stopped' = TRUE /\ connected' = FALSE
                             ELSE UNCHANGED <<stopped, connected>>
  /\ IF step = InitSteps THEN Goto("init", "finish") /\ step' = 1
                         ELSE Goto("init", "ask") /\ step' = step + 1
  /\ Enter("init", "none")
  /\ UNCHANGED <<holder, stopCallback, socket, overlap>>

(* Mutant of InitFails: init() returns without giving the connection up. *)
InitFailsQuietly ==
  /\ Null("init", "answer") /\ step \notin SoftSteps
  /\ step' = 1
  /\ Goto("init", "dead")
  /\ Enter("init", "none")
  /\ UNCHANGED <<holder, flags, socket, overlap>>

InitFails ==
  /\ Null("init", "answer") /\ step \notin SoftSteps
  /\ stopped' = TRUE
  /\ step' = 1
  /\ Goto("init", "dead")
  /\ Enter("init", "none")
  /\ UNCHANGED <<holder, stopCallback, connected, socket, overlap>>

(* An answer that cannot be parsed throws: _stopped stays as it is. *)
InitThrows ==
  /\ Packet("init", "answer")
  /\ connected' = FALSE
  /\ step' = 1
  /\ Goto("init", "dead")
  /\ Enter("init", "none")
  /\ UNCHANGED <<holder, stopped, stopCallback, socket, overlap>>

InitFinishes ==
  /\ At("init", "finish")
  /\ connected' = TRUE
  /\ Goto("init", "startKeepAlive")
  /\ UNCHANGED <<sub, holder, stopped, stopCallback, socket, step, overlap>>

StartKeepAlive ==
  /\ At("init", "startKeepAlive")
  /\ Dead("keepAlive")
  /\ pc' = [pc EXCEPT !["init"] = "startRefresh", !["keepAlive"] = "sleep"]
  /\ UNCHANGED <<sub, holder, flags, socket, step, overlap>>

StartRefresh ==
  /\ At("init", "startRefresh")
  /\ Dead("refresh")
  /\ pc' = [pc EXCEPT !["init"] = "dead", !["refresh"] = "sleep"]
  /\ UNCHANGED <<sub, holder, flags, socket, step, overlap>>

InitStep ==
  \/ InitBegins
  \/ InitAsks
  \/ InitProceeds
  \/ InitFails
  \/ InitFinishes
  \/ StartKeepAlive
  \/ StartRefresh

-----------------------------------------------------------------------------
(* keepAlive and refreshToken *)

(* Mutant of PeriodicEnds: the thread sleeps on while _stopped. *)
PeriodicEndsOnStop(w) ==
  /\ At(w, "sleep")
  /\ stopCallback
  /\ Goto(w, "dead")
  /\ UNCHANGED <<sub, holder, flags, socket, step, overlap>>

(* Mutant of PeriodicEnds: the thread sleeps on while _stopCallbackThread. *)
PeriodicEndsOnLoss(w) ==
  /\ At(w, "sleep")
  /\ stopped
  /\ Goto(w, "dead")
  /\ UNCHANGED <<sub, holder, flags, socket, step, overlap>>

(* The check after each second of sleep. *)
PeriodicEnds(w) ==
  /\ At(w, "sleep")
  /\ stopped \/ stopCallback
  /\ Goto(w, "dead")
  /\ UNCHANGED <<sub, holder, flags, socket, step, overlap>>

(* The counter reached its limit: keepAlive asks once, refreshToken twice. *)
PeriodicAsks(w) ==
  /\ At(w, "sleep")
  /\ ~stopped /\ ~stopCallback
  /\ GetResponse(w, IF w = "refresh" THEN "first" ELSE "answer")
  /\ UNCHANGED <<holder, flags, socket, step, overlap>>

RefreshAsksAgain ==
  /\ Packet("refresh", "first")
  /\ GetResponse("refresh", "answer")
  /\ UNCHANGED <<holder, flags, socket, step, overlap>>

PeriodicSucceeds(w) ==
  /\ Packet(w, "answer")
  /\ Goto(w, "sleep")
  /\ Enter(w, "none")
  /\ UNCHANGED <<holder, flags, socket, step, overlap>>

(* Mutant of PeriodicFails: the thread ends without giving the connection up. *)
PeriodicFailsQuietly(w) ==
  /\ Null(w, "answer") \/ Null(w, "first")
  /\ Goto(w, "dead")
  /\ Enter(w, "none")
  /\ UNCHANGED <<holder, flags, socket, step, overlap>>

PeriodicFails(w) ==
  /\ Null(w, "answer") \/ Null(w, "first")
  /\ stopped' = TRUE
  /\ connected' = FALSE
  /\ Goto(w, "dead")
  /\ Enter(w, "none")
  /\ UNCHANGED <<holder, stopCallback, socket, step, overlap>>

PeriodicStep(w) ==
  \/ PeriodicEnds(w)
  \/ PeriodicAsks(w)
  \/ w = "refresh" /\ RefreshAsksAgain
  \/ PeriodicSucceeds(w)
  \/ PeriodicFails(w)

-----------------------------------------------------------------------------
(* Homegear: RPC threads and the main thread *)

(* RPC threads run once the interface was started. *)
Started == pc["main"] # "boot" /\ (pc["main"] = "up" => sub["main"] = "none")

(* searchDevices on a connected interface: getLoxApp3Version. *)
AskVersion(t) ==
  /\ At(t, "idle")
  /\ Started
  /\ connected
  /\ GetResponse(t, "version")
  /\ UNCHANGED <<holder, flags, socket, step, overlap>>

(* An unknown version is followed by getNewStructfile. *)
AskStructfile(t) ==
  /\ Packet(t, "version")
  /\ GetResponse(t, "structfile")
  /\ UNCHANGED <<holder, flags, socket, step, overlap>>

(* sendPacket: a secured command first asks for the visu salt. *)
SendPacket(t) ==
  /\ At(t, "idle")
  /\ Started
  /\ \/ GetResponse(t, "secure")
     \/ Goto(t, "transmit") /\ UNCHANGED sub
  /\ UNCHANGED <<holder, flags, socket, step, overlap>>

(* A null answer gives the connection up; sendPacket goes on regardless,
   unless the answer cannot be parsed. *)
RpcAnswered(t) ==
  /\ pc[t] \in {"version", "structfile", "secure"}
  /\ \/ Packet(t, pc[t]) /\ UNCHANGED <<stopped, connected>>
     \/ Null(t, pc[t]) /\ stopped' = TRUE /\ connected' = FALSE
  /\ \/ pc[t] = "secure" /\ Goto(t, "transmit")
     \/ ~Null(t, "secure") /\ Goto(t, "idle")
  /\ Enter(t, "none")
  /\ UNCHANGED <<holder, stopCallback, socket, step, overlap>>

(* sendPacket sends without the mutex; a failed send restarts. *)
Transmit(t) ==
  /\ At(t, "transmit")
  /\ Goto(t, "idle")
  /\ \/ socket = "open" /\ UNCHANGED sub
     \/ Enter(t, "halt")
  /\ UNCHANGED <<holder, flags, socket, step, overlap>>

RpcStep(t) ==
  \/ RpcAnswered(t)
  \/ Transmit(t)

(* startListening() when the interface is created. *)
Boot ==
  /\ At("main", "boot")
  /\ Goto("main", "up")
  /\ Enter("main", "halt")
  /\ UNCHANGED <<holder, flags, socket, step, overlap>>

(* Homegear shuts down: homegearShuttingDown calls disconnect(). *)
Disconnect ==
  /\ At("main", "up")
  /\ connected
  /\ GetResponse("main", "closing")
  /\ UNCHANGED <<holder, flags, socket, step, overlap>>

(* With an answer to the close request disconnect() stops listening, without
   one it gives the connection up. *)
Disconnected ==
  /\ \/ /\ Packet("main", "closing")
        /\ Goto("main", "stopping") /\ Enter("main", "halt")
        /\ UNCHANGED <<stopped, connected>>
     \/ /\ Null("main", "closing")
        /\ Goto("main", "leaving") /\ Enter("main", "none")
        /\ stopped' = TRUE /\ connected' = FALSE
  /\ UNCHANGED <<holder, stopCallback, socket, step, overlap>>

(* Homegear stops the interface, after disconnect() or without it. *)
StopListening ==
  /\ At("main", "up") \/ At("main", "leaving")
  /\ Goto("main", "stopping")
  /\ Enter("main", "halt")
  /\ UNCHANGED <<holder, flags, socket, step, overlap>>

MainStep == Disconnected

(* The peer or the network closes the connection. *)
LoseConnection ==
  /\ socket = "open"
  /\ socket' = "closed"
  /\ UNCHANGED <<pc, sub, holder, flags, step, overlap>>

-----------------------------------------------------------------------------

ThreadStep ==
  \/ \E t \in Callers : SubStep(t)
  \/ ListenStep
  \/ InitStep
  \/ \E w \in Periodic : PeriodicStep(w)
  \/ \E t \in Rpc : RpcStep(t)
  \/ MainStep

Request ==
  \/ \E t \in Rpc : AskVersion(t) \/ AskStructfile(t) \/ SendPacket(t)
  \/ Boot
  \/ Disconnect
  \/ StopListening

Next ==
  \/ ThreadStep
  \/ Request
  \/ ReadFails
  \/ InitThrows
  \/ LoseConnection

Spec == Init /\ [][Next]_vars

(* Every thread that can go on does: the operating system schedules every
   runnable thread, sleeps end, and getResponse returns (MutexReleased of
   RequestReply).  Requests, losses and answers are not forced. *)
FairSpec ==
  /\ Spec
  /\ \A t \in Callers : WF_vars(SubStep(t))
  /\ WF_vars(ListenStep)
  /\ WF_vars(InitStep)
  /\ \A w \in Periodic : WF_vars(PeriodicStep(w))
  /\ \A t \in Rpc : WF_vars(RpcStep(t))
  /\ WF_vars(MainStep)

-----------------------------------------------------------------------------
(* Properties *)

PCs == {"dead", "boot", "up", "closing", "leaving", "stopping", "idle", "version",
        "structfile", "secure", "transmit", "open", "reopen", "startInit",
        "loop", "read",
        "joinKeepAlive", "joinRefresh", "begin", "ask", "answer", "finish",
        "startKeepAlive", "startRefresh", "sleep", "first"}
SubPCs == {"none", "lock", "send", "wait", "halt", "joinListen",
           "joinKeepAlive", "renew", "launch", "packet", "null"}

(* The types of the state: every thread is somewhere in its own function and
   somewhere, or not, in a function called from there. *)
TypeOK ==
  /\ pc \in [Threads -> PCs]
  /\ sub \in [Threads -> SubPCs]
  /\ holder \in Callers \cup {None}
  /\ stopped \in BOOLEAN
  /\ stopCallback \in BOOLEAN
  /\ connected \in BOOLEAN
  /\ socket \in {"open", "closed"}
  /\ step \in 1..InitSteps
  /\ overlap \in BOOLEAN

(* An initialised connection that is not given up is watched: its keepAlive
   thread runs, or init() is about to start it. *)
Watched ==
  connected /\ ~stopped /\ ~stopCallback /\ ~overlap =>
    ~Dead("keepAlive") \/ pc["init"] = "startKeepAlive"

(* Once stopListening() has returned to the main thread, and as long as no
   other thread restarts the interface, the listener is gone and the interface
   stays closed, whatever init(), keepAlive() and the RPC threads still do. *)
StopHolds ==
  /\ At("main", "stopping")
  /\ stopCallback /\ ~overlap
  /\ \A t \in Callers : ~Restarting(t)
  => stopped /\ Dead("listen")

(* An open connection that is neither initialised nor given up, and that no
   thread works on: only a close from the other side ends it. *)
Stranded ==
  /\ ~connected /\ ~stopped /\ ~stopCallback
  /\ socket = "open"
  /\ pc["listen"] \in {"loop", "read"}
  /\ Dead("init")

(* Nothing but an exception in init(), whose handler leaves _stopped as it is
   (Miniserver.cpp:305), strands a connection; not even a restart that overlaps
   with a stop, as long as no Homegear thread restarts during another restart. *)
OnlyThrowsStrand ==
  [][~Stranded /\ Stranded' /\ (overlap' => Rpc = {}) => Packet("init", "answer")]_vars

(* A send failed: the thread restarts the interface. *)
SendFailed == \E t \in Callers : sub[t] = "halt" /\ pc[t] \notin {"up", "stopping"}

(* "Trying to reconnect..." (Miniserver.cpp:556): a listener without a
   connection, or with one that was given up, gets to opening one again,
   unless it is stopped. *)
Reconnects ==
  ~Dead("listen") /\ (stopped \/ socket # "open")
    ~> pc["listen"] \in {"open", "reopen", "dead"}

(* It does as long as no send fails: every join of the listener returns. *)
ReconnectsUnlessSendFails == []~SendFailed => Reconnects

(* stopListening() returns to the main thread as long as no send fails, from
   whatever the other threads are doing. *)
StopReturns ==
  []~SendFailed => (pc["main"] = "stopping" ~> At("main", "stopping"))
=============================================================================
