-------------------------- MODULE MiniserverProofs --------------------------
(***************************************************************************)
(* Proofs about Miniserver: its inductive invariant, in layers, each of    *)
(* them inductive relative to the ones before it; the safety properties of *)
(* the life cycle follow from them.                                        *)
(***************************************************************************)
EXTENDS Miniserver, TLAPS

-----------------------------------------------------------------------------
(* The inductive invariant *)

(* Inside getResponse called from its own function, not from a restart. *)
Calling(t) ==
  pc[t] \in {"answer", "first", "version", "structfile", "secure", "closing"}

RestartPlaces == {"halt", "joinListen", "joinKeepAlive", "renew", "launch"}

(* startListening() when the interface is created is under way. *)
Booting == pc["main"] = "boot" \/ (pc["main"] = "up" /\ sub["main"] # "none")

(* The history in which two restarts, as opposed to a restart and a stop, have
   not met: only Homegear threads restart without the mutex. *)
Orderly == overlap => Rpc = {}

(* Layer 1, places: where the threads can be. *)

PlaceInv ==
  /\ sub["listen"] = "none"
  /\ pc["listen"] \in {"dead", "open", "reopen", "startInit", "loop", "read",
                       "joinKeepAlive", "joinRefresh"}
  /\ pc["init"] \in {"dead", "begin", "ask", "answer", "finish",
                     "startKeepAlive", "startRefresh"}
  /\ pc["keepAlive"] \in {"dead", "sleep", "answer"}
  /\ pc["refresh"] \in {"dead", "sleep", "first", "answer"}
  /\ pc["main"] \in {"boot", "up", "closing", "leaving", "stopping"}
  /\ \A t \in Rpc :
       pc[t] \in {"idle", "version", "structfile", "secure", "transmit"}

(* A thread that is in a called function is in getResponse, or restarts. *)
CallInv ==
  \A t \in Callers :
    /\ Calling(t) => sub[t] # "none"
    /\ sub[t] # "none" /\ ~Calling(t) =>
         /\ sub[t] \in RestartPlaces
         /\ \/ t \in Rpc /\ pc[t] = "idle"
            \/ t = "main" /\ pc[t] \in {"up", "stopping"}
    /\ pc[t] = "stopping" => sub[t] \notin {"renew", "launch"}

(* _sendPacketMutex is held by the thread that sends, waits, or restarts after
   a failed send. *)
HolderInv ==
  \A t \in Callers :
    holder = t <=> Calling(t) /\ sub[t] \in {"send", "wait"} \cup RestartPlaces

(* Until the interface was created there is no other thread. *)
BootInv ==
  Booting =>
    /\ \A t \in {"listen", "init", "keepAlive", "refresh"} : Dead(t)
    /\ \A t \in Rpc : At(t, "idle")

ControlInv == TypeOK /\ PlaceInv /\ CallInv /\ HolderInv /\ BootInv

(* Layer 2, restarts: one at a time, and what it has joined and set is left
   alone by the others. *)

AloneInv ==
  ~overlap => \A t, u \in Callers : Restarting(t) /\ Restarting(u) => t = u

JoinedInv ==
  \A t \in Callers :
    sub[t] \in {"joinKeepAlive", "renew", "launch"}
      /\ Orderly /\ (pc[t] = "stopping" => ~overlap) => Dead("listen")

RenewedInv ==
  ~overlap => \A t \in Callers :
    /\ sub[t] = "renew" => stopped \/ t = "keepAlive"
    /\ sub[t] = "launch" => ~stopCallback

RestartInv == AloneInv /\ JoinedInv /\ RenewedInv

(* Layer 3, the connection: a new one is opened with the socket of the old one
   closed, and an init() that ends late finds its connection gone. *)

SocketInv ==
  Orderly =>
    /\ pc["listen"] \in {"open", "reopen"} => socket = "closed"
    /\ \A t \in Callers : sub[t] = "launch" => socket = "closed"

LateInitInv ==
  Orderly /\ pc["init"] \in {"startKeepAlive", "startRefresh"} /\ ~connected =>
    \/ stopped \/ stopCallback \/ socket = "closed"
    \/ pc["listen"] \notin {"loop", "read"}

ConnectionInv == SocketInv /\ LateInitInv

IInv == ControlInv /\ RestartInv /\ ConnectionInv /\ Watched /\ StopHolds

-----------------------------------------------------------------------------
(* What the steps with several outcomes do *)

(* Whoever joins keepAlive goes on; stopped is set, unless keepAlive joins
   itself. *)
KeepAliveJoined(c) ==
  /\ sub[c] = "joinKeepAlive"
  /\ sub' = [sub EXCEPT ![c] = IF pc[c] = "stopping" THEN "none" ELSE "renew"]
  /\ stopped' \in {TRUE, stopped}
  /\ c # "keepAlive" => stopped'
  /\ UNCHANGED <<pc, holder, stopCallback, connected, socket, step, overlap>>

LEMMA JoinKeepAliveEffect ==
  ASSUME NEW c, JoinKeepAlive(c) PROVE KeepAliveJoined(c)
  BY DEF JoinKeepAlive, Enter, KeepAliveJoined

(* init() goes on with the next step or the end, whatever the answer was. *)
InitProceeded ==
  /\ pc["init"] = "answer" /\ sub["init"] \in {"packet", "null"}
  /\ \E l \in {"ask", "finish"} : pc' = [pc EXCEPT !["init"] = l]
  /\ sub' = [sub EXCEPT !["init"] = "none"]
  /\ (stopped' = TRUE /\ connected' = FALSE) \/ UNCHANGED <<stopped, connected>>
  /\ UNCHANGED <<holder, stopCallback, socket, overlap>>

LEMMA InitProceedsEffect ==
  ASSUME InitProceeds PROVE InitProceeded
  BY DEF InitProceeds, Packet, Null, Goto, Enter, InitProceeded

(* A Homegear thread goes on, and gives the connection up after a null answer. *)
RpcReturned(r) ==
  /\ pc[r] \in {"version", "structfile", "secure"}
  /\ sub[r] \in {"packet", "null"}
  /\ \E l \in {"transmit", "idle"} : pc' = [pc EXCEPT ![r] = l]
  /\ sub' = [sub EXCEPT ![r] = "none"]
  /\ (stopped' = TRUE /\ connected' = FALSE) \/ UNCHANGED <<stopped, connected>>
  /\ UNCHANGED <<holder, stopCallback, socket, step, overlap>>

LEMMA RpcAnsweredEffect ==
  ASSUME NEW r, RpcAnswered(r) PROVE RpcReturned(r)
  BY DEF RpcAnswered, Packet, Null, Goto, Enter, RpcReturned

(* disconnect() stops listening after an answer, and gives up after none. *)
MainReturned ==
  /\ pc["main"] = "closing" /\ sub["main"] \in {"packet", "null"}
  /\ \/ /\ pc' = [pc EXCEPT !["main"] = "stopping"]
        /\ sub' = [sub EXCEPT !["main"] = "halt"]
        /\ UNCHANGED <<stopped, connected>>
     \/ /\ pc' = [pc EXCEPT !["main"] = "leaving"]
        /\ sub' = [sub EXCEPT !["main"] = "none"]
        /\ stopped' = TRUE /\ connected' = FALSE
  /\ UNCHANGED <<holder, stopCallback, socket, step, overlap>>

LEMMA DisconnectedEffect ==
  ASSUME Disconnected PROVE MainReturned
  BY DEF Disconnected, Packet, Null, Goto, Enter, MainReturned

-----------------------------------------------------------------------------
(* Layer 1 *)

(* Every step keeps the types of the flags, and every thread somewhere. *)
LEMMA TypeStep == TypeOK /\ [Next]_vars => TypeOK'
<1> SUFFICES ASSUME TypeOK, [Next]_vars PROVE TypeOK'
  OBVIOUS
<1> USE InitAssumption DEF TypeOK, Threads, Callers, Periodic, PCs, SubPCs, flags
<1>a. 1 \in 1..InitSteps
  OBVIOUS
<1>1. ASSUME NEW c \in Callers, Lock(c) PROVE TypeOK'
  BY <1>1 DEF Lock, Enter
<1>2. ASSUME NEW c \in Callers, SendSucceeds(c) PROVE TypeOK'
  BY <1>2 DEF SendSucceeds, Enter
<1>3. ASSUME NEW c \in Callers, SendFails(c) PROVE TypeOK'
  BY <1>3 DEF SendFails, Enter
<1>4. ASSUME NEW c \in Callers, WaitEnds(c) PROVE TypeOK'
  BY <1>4 DEF WaitEnds, Enter
<1>5. ASSUME NEW c \in Callers, Halt(c) PROVE TypeOK'
  BY <1>5 DEF Halt, Enter
<1>6. ASSUME NEW c \in Callers, JoinListen(c) PROVE TypeOK'
  BY <1>6 DEF JoinListen, Enter
<1>7. ASSUME NEW c \in Callers, JoinKeepAlive(c) PROVE TypeOK'
  <2>1. KeepAliveJoined(c)
    BY <1>7, JoinKeepAliveEffect
  <2>2. QED
    BY <2>1 DEF KeepAliveJoined
<1>8. ASSUME NEW c \in Callers, Renew(c) PROVE TypeOK'
  BY <1>8 DEF Renew, Enter
<1>9. ASSUME NEW c \in Callers, Launch(c) PROVE TypeOK'
  BY <1>9 DEF Launch, Enter, Goto
<1>10. CASE OpenSucceeds
  BY <1>10 DEF OpenSucceeds, Goto
<1>11. CASE OpenFails
  BY <1>11 DEF OpenFails, Goto
<1>12. CASE StartInit
  BY <1>12 DEF StartInit
<1>13. CASE ListenEnds
  BY <1>13 DEF ListenEnds, Goto
<1>14. CASE NoticeLoss
  BY <1>14 DEF NoticeLoss, Goto
<1>15. CASE ReadBegins
  BY <1>15 DEF ReadBegins, Goto
<1>16. CASE ReadEnds
  BY <1>16 DEF ReadEnds, Goto
<1>17. CASE ListenJoinsKeepAlive
  BY <1>17 DEF ListenJoinsKeepAlive, Goto
<1>18. CASE ListenJoinsRefresh
  BY <1>18 DEF ListenJoinsRefresh, Goto
<1>19. CASE ReadFails
  BY <1>19 DEF ReadFails, Goto
<1>20. CASE InitBegins
  BY <1>20, <1>a DEF InitBegins, At, Goto
<1>21. CASE InitAsks
  BY <1>21 DEF InitAsks, At, GetResponse, Goto, Enter
<1>22. CASE InitProceeds
  <2>1. step' \in 1..InitSteps
    <3>1. CASE step = InitSteps
      BY <1>22, <1>a, <3>1 DEF InitProceeds
    <3>2. CASE step # InitSteps
      BY <1>22, <3>2 DEF InitProceeds
    <3>3. QED
      BY <3>1, <3>2
  <2>2. InitProceeded
    BY <1>22, InitProceedsEffect
  <2>3. stopped' \in BOOLEAN /\ connected' \in BOOLEAN
    BY <2>2 DEF InitProceeded
  <2>4. QED
    BY <2>1, <2>2, <2>3 DEF InitProceeded
<1>23. CASE InitFails
  BY <1>23, <1>a DEF InitFails, Null, Goto, Enter
<1>24. CASE InitThrows
  BY <1>24, <1>a DEF InitThrows, Packet, Goto, Enter
<1>25. CASE InitFinishes
  BY <1>25 DEF InitFinishes, At, Goto
<1>26. CASE StartKeepAlive
  BY <1>26 DEF StartKeepAlive, At
<1>27. CASE StartRefresh
  BY <1>27 DEF StartRefresh, At
<1>28. ASSUME NEW w \in Periodic, PeriodicEnds(w) PROVE TypeOK'
  BY <1>28 DEF PeriodicEnds, At, Goto
<1>29. ASSUME NEW w \in Periodic, PeriodicAsks(w) PROVE TypeOK'
  BY <1>29 DEF PeriodicAsks, At, GetResponse, Goto, Enter
<1>30. CASE RefreshAsksAgain
  BY <1>30 DEF RefreshAsksAgain, Packet, GetResponse, Goto, Enter
<1>31. ASSUME NEW w \in Periodic, PeriodicSucceeds(w) PROVE TypeOK'
  BY <1>31 DEF PeriodicSucceeds, Packet, Goto, Enter
<1>32. ASSUME NEW w \in Periodic, PeriodicFails(w) PROVE TypeOK'
  BY <1>32 DEF PeriodicFails, Null, Goto, Enter
<1>33. ASSUME NEW r \in Rpc, RpcAnswered(r) PROVE TypeOK'
  <2>1. RpcReturned(r)
    BY <1>33, RpcAnsweredEffect
  <2>2. stopped' \in BOOLEAN /\ connected' \in BOOLEAN
    BY <2>1 DEF RpcReturned
  <2>3. QED
    BY <2>1, <2>2 DEF RpcReturned
<1>34. ASSUME NEW r \in Rpc, Transmit(r) PROVE TypeOK'
  BY <1>34 DEF Transmit, Goto, Enter, At
<1>35. ASSUME NEW r \in Rpc, AskVersion(r) PROVE TypeOK'
  BY <1>35 DEF AskVersion, At, GetResponse, Goto, Enter
<1>36. ASSUME NEW r \in Rpc, AskStructfile(r) PROVE TypeOK'
  BY <1>36 DEF AskStructfile, Packet, GetResponse, Goto, Enter
<1>37. ASSUME NEW r \in Rpc, SendPacket(r) PROVE TypeOK'
  <2>1. CASE GetResponse(r, "secure")
    BY <1>37, <2>1 DEF SendPacket, At, GetResponse, Goto, Enter
  <2>2. CASE Goto(r, "transmit") /\ UNCHANGED sub
    BY <1>37, <2>2 DEF SendPacket, At, Goto
  <2>3. QED
    BY <1>37, <2>1, <2>2 DEF SendPacket
<1>38. CASE Boot
  BY <1>38 DEF Boot, At, Goto, Enter
<1>39. CASE Disconnect
  BY <1>39 DEF Disconnect, At, GetResponse, Goto, Enter
<1>40. CASE Disconnected
  <2>1. MainReturned
    BY <1>40, DisconnectedEffect
  <2>2. stopped' \in BOOLEAN /\ connected' \in BOOLEAN
    BY <2>1 DEF MainReturned
  <2>3. pc' \in [Threads -> PCs] /\ sub' \in [Threads -> SubPCs]
    BY <2>1 DEF MainReturned
  <2>4. QED
    BY <2>1, <2>2, <2>3 DEF MainReturned
<1>41. CASE StopListening
  BY <1>41 DEF StopListening, At, Goto, Enter
<1>42. CASE LoseConnection
  BY <1>42 DEF LoseConnection
<1>43. CASE UNCHANGED vars
  BY <1>43 DEF vars, flags
<1>44. QED
  BY <1>1, <1>2, <1>3, <1>4, <1>5, <1>6, <1>7, <1>8, <1>9, <1>10, <1>11,
     <1>12, <1>13, <1>14, <1>15, <1>16, <1>17, <1>18, <1>19, <1>20, <1>21,
     <1>22, <1>23, <1>24, <1>25, <1>26, <1>27, <1>28, <1>29, <1>30, <1>31,
     <1>32, <1>33, <1>34, <1>35, <1>36, <1>37, <1>38, <1>39, <1>40, <1>41,
     <1>42, <1>43, Zenon
     DEF Next, ThreadStep, SubStep, ListenStep, InitStep, PeriodicStep, RpcStep,
     MainStep, Request
(* Every step keeps the threads in their places and the mutex with its holder. *)
LEMMA ControlStep == ControlInv /\ [Next]_vars => ControlInv'
<1> DEFINE Places == PlaceInv /\ CallInv /\ HolderInv /\ BootInv
<1> SUFFICES ASSUME ControlInv, [Next]_vars PROVE Places'
  BY TypeStep DEF ControlInv
<1> USE RpcAssumption DEF ControlInv, TypeOK, PlaceInv, CallInv, HolderInv, BootInv,
        Calling, RestartPlaces, Booting, Dead, At, Threads, Callers, Periodic, flags
<1>1. ASSUME NEW c \in Callers, Lock(c) PROVE Places'
  BY <1>1 DEF Lock, Enter
<1>2. ASSUME NEW c \in Callers, SendSucceeds(c) PROVE Places'
  BY <1>2 DEF SendSucceeds, Enter
<1>3. ASSUME NEW c \in Callers, SendFails(c) PROVE Places'
  BY <1>3 DEF SendFails, Enter
<1>4. ASSUME NEW c \in Callers, WaitEnds(c) PROVE Places'
  BY <1>4 DEF WaitEnds, Enter
<1>5. ASSUME NEW c \in Callers, Halt(c) PROVE Places'
  BY <1>5 DEF Halt, Enter
<1>6. ASSUME NEW c \in Callers, JoinListen(c) PROVE Places'
  BY <1>6 DEF JoinListen, Enter
<1>7. ASSUME NEW c \in Callers, JoinKeepAlive(c) PROVE Places'
  <2>1. KeepAliveJoined(c)
    BY <1>7, JoinKeepAliveEffect
  <2>2. QED
    BY <2>1 DEF KeepAliveJoined
<1>8. ASSUME NEW c \in Callers, Renew(c) PROVE Places'
  BY <1>8 DEF Renew, Enter
<1>9. ASSUME NEW c \in Callers, Launch(c) PROVE Places'
  BY <1>9 DEF Launch, Enter, Goto
<1>10. CASE OpenSucceeds
  BY <1>10 DEF OpenSucceeds, Goto
<1>11. CASE OpenFails
  BY <1>11 DEF OpenFails, Goto
<1>12. CASE StartInit
  <2>1. PlaceInv'
    BY <1>12 DEF StartInit
  <2>2. CallInv'
    BY <1>12 DEF StartInit
  <2>3. HolderInv'
    BY <1>12 DEF StartInit
  <2>4. BootInv'
    BY <1>12 DEF StartInit
  <2>5. QED
    BY <2>1, <2>2, <2>3, <2>4
<1>13. CASE ListenEnds
  BY <1>13 DEF ListenEnds, Goto
<1>14. CASE NoticeLoss
  BY <1>14 DEF NoticeLoss, Goto
<1>15. CASE ReadBegins
  BY <1>15 DEF ReadBegins, Goto
<1>16. CASE ReadEnds
  BY <1>16 DEF ReadEnds, Goto
<1>17. CASE ListenJoinsKeepAlive
  BY <1>17 DEF ListenJoinsKeepAlive, Goto
<1>18. CASE ListenJoinsRefresh
  BY <1>18 DEF ListenJoinsRefresh, Goto
<1>19. CASE ReadFails
  BY <1>19 DEF ReadFails, Goto
<1>20. CASE InitBegins
  BY <1>20 DEF InitBegins, At, Goto
<1>21. CASE InitAsks
  BY <1>21 DEF InitAsks, At, GetResponse, Goto, Enter
<1>22. CASE InitProceeds
  <2>0. InitProceeded
    BY <1>22, InitProceedsEffect
  <2>1. PlaceInv'
    BY <2>0 DEF InitProceeded
  <2>2. CallInv'
    BY <2>0 DEF InitProceeded
  <2>3. HolderInv'
    BY <2>0 DEF InitProceeded
  <2>4. BootInv'
    BY <2>0 DEF InitProceeded
  <2>5. QED
    BY <2>1, <2>2, <2>3, <2>4
<1>23. CASE InitFails
  BY <1>23 DEF InitFails, Null, Goto, Enter
<1>24. CASE InitThrows
  BY <1>24 DEF InitThrows, Packet, Goto, Enter
<1>25. CASE InitFinishes
  BY <1>25 DEF InitFinishes, At, Goto
<1>26. CASE StartKeepAlive
  <2>1. PlaceInv'
    BY <1>26 DEF StartKeepAlive, At
  <2>2. CallInv'
    BY <1>26 DEF StartKeepAlive, At
  <2>3. HolderInv'
    BY <1>26 DEF StartKeepAlive, At
  <2>4. BootInv'
    BY <1>26 DEF StartKeepAlive, At
  <2>5. QED
    BY <2>1, <2>2, <2>3, <2>4
<1>27. CASE StartRefresh
  <2>1. PlaceInv'
    BY <1>27 DEF StartRefresh, At
  <2>2. CallInv'
    BY <1>27 DEF StartRefresh, At
  <2>3. HolderInv'
    BY <1>27 DEF StartRefresh, At
  <2>4. BootInv'
    BY <1>27 DEF StartRefresh, At
  <2>5. QED
    BY <2>1, <2>2, <2>3, <2>4
<1>28. ASSUME NEW w \in Periodic, PeriodicEnds(w) PROVE Places'
  BY <1>28 DEF PeriodicEnds, At, Goto
<1>29. ASSUME NEW w \in Periodic, PeriodicAsks(w) PROVE Places'
  BY <1>29 DEF PeriodicAsks, At, GetResponse, Goto, Enter
<1>30. CASE RefreshAsksAgain
  BY <1>30 DEF RefreshAsksAgain, Packet, GetResponse, Goto, Enter
<1>31. ASSUME NEW w \in Periodic, PeriodicSucceeds(w) PROVE Places'
  BY <1>31 DEF PeriodicSucceeds, Packet, Goto, Enter
<1>32. ASSUME NEW w \in Periodic, PeriodicFails(w) PROVE Places'
  BY <1>32 DEF PeriodicFails, Null, Goto, Enter
<1>33. ASSUME NEW r \in Rpc, RpcAnswered(r) PROVE Places'
  <2>0. RpcReturned(r)
    BY <1>33, RpcAnsweredEffect
  <2>1. PlaceInv'
    BY <2>0 DEF RpcReturned
  <2>2. CallInv'
    BY <2>0 DEF RpcReturned
  <2>3. HolderInv'
    BY <2>0 DEF RpcReturned
  <2>4. BootInv'
    BY <2>0 DEF RpcReturned
  <2>5. QED
    BY <2>1, <2>2, <2>3, <2>4
<1>34. ASSUME NEW r \in Rpc, Transmit(r) PROVE Places'
  BY <1>34 DEF Transmit, Goto, Enter, At
<1>35. ASSUME NEW r \in Rpc, AskVersion(r) PROVE Places'
  BY <1>35 DEF AskVersion, GetResponse, Goto, Enter, Started
<1>36. ASSUME NEW r \in Rpc, AskStructfile(r) PROVE Places'
  BY <1>36 DEF AskStructfile, Packet, GetResponse, Goto, Enter
<1>37. ASSUME NEW r \in Rpc, SendPacket(r) PROVE Places'
  <2>1. CASE GetResponse(r, "secure")
    BY <1>37, <2>1 DEF SendPacket, At, GetResponse, Goto, Enter, Started
  <2>2. CASE Goto(r, "transmit") /\ UNCHANGED sub
    BY <1>37, <2>2 DEF SendPacket, At, Goto, Started
  <2>3. QED
    BY <1>37, <2>1, <2>2 DEF SendPacket
<1>38. CASE Boot
  BY <1>38 DEF Boot, At, Goto, Enter
<1>39. CASE Disconnect
  BY <1>39 DEF Disconnect, At, GetResponse, Goto, Enter
<1>40. CASE Disconnected
  <2>0. MainReturned
    BY <1>40, DisconnectedEffect
  <2>1. PlaceInv'
    <3>0. PICK p \in {"stopping", "leaving"}, q \in {"halt", "none"} :
            pc' = [pc EXCEPT !["main"] = p] /\ sub' = [sub EXCEPT !["main"] = q]
      BY <2>0 DEF MainReturned
    <3>1. /\ pc'["main"] \in {"stopping", "leaving"}
          /\ sub'["listen"] = sub["listen"] /\ pc'["listen"] = pc["listen"]
          /\ pc'["init"] = pc["init"] /\ pc'["keepAlive"] = pc["keepAlive"]
          /\ pc'["refresh"] = pc["refresh"] /\ \A t \in Rpc : pc'[t] = pc[t]
      BY <3>0
    <3>2. QED
      BY <3>1
  <2>2. CallInv'
    BY <2>0 DEF MainReturned
  <2>3. HolderInv'
    BY <2>0 DEF MainReturned
  <2>4. BootInv'
    BY <2>0 DEF MainReturned
  <2>5. QED
    BY <2>1, <2>2, <2>3, <2>4
<1>41. CASE StopListening
  BY <1>41 DEF StopListening, At, Goto, Enter
<1>42. CASE LoseConnection
  BY <1>42 DEF LoseConnection
<1>43. CASE UNCHANGED vars
  BY <1>43 DEF vars, flags
<1>44. QED
  BY <1>1, <1>2, <1>3, <1>4, <1>5, <1>6, <1>7, <1>8, <1>9, <1>10, <1>11,
     <1>12, <1>13, <1>14, <1>15, <1>16, <1>17, <1>18, <1>19, <1>20, <1>21,
     <1>22, <1>23, <1>24, <1>25, <1>26, <1>27, <1>28, <1>29, <1>30, <1>31,
     <1>32, <1>33, <1>34, <1>35, <1>36, <1>37, <1>38, <1>39, <1>40, <1>41,
     <1>42, <1>43, Zenon
     DEF Next, ThreadStep, SubStep, ListenStep, InitStep, PeriodicStep, RpcStep,
     MainStep, Request
-----------------------------------------------------------------------------
(* Layer 2 *)

(* Every step keeps a restart alone with what it has joined and set. *)
LEMMA RestartStep == ControlInv /\ RestartInv /\ [Next]_vars => RestartInv'
<1> DEFINE Restarts == AloneInv /\ JoinedInv /\ RenewedInv
<1> SUFFICES ASSUME ControlInv, RestartInv, [Next]_vars PROVE Restarts'
  BY DEF RestartInv
<1> USE RpcAssumption DEF ControlInv, TypeOK, PlaceInv, CallInv, HolderInv, BootInv,
        Calling, RestartPlaces, Booting, RestartInv, AloneInv, JoinedInv, RenewedInv, Orderly,
        Restarting, Dead, At, Threads, Callers, Periodic, flags
<1>1. ASSUME NEW c \in Callers, Lock(c) PROVE Restarts'
  BY <1>1 DEF Lock, Enter
<1>2. ASSUME NEW c \in Callers, SendSucceeds(c) PROVE Restarts'
  BY <1>2 DEF SendSucceeds, Enter
<1>3. ASSUME NEW c \in Callers, SendFails(c) PROVE Restarts'
  BY <1>3 DEF SendFails, Enter
<1>4. ASSUME NEW c \in Callers, WaitEnds(c) PROVE Restarts'
  BY <1>4 DEF WaitEnds, Enter
<1>5. ASSUME NEW c \in Callers, Halt(c) PROVE Restarts'
  <2>1. AloneInv'
    <3>1. ASSUME ~overlap', NEW t \in Callers, NEW u \in Callers,
                 Restarting(t)', Restarting(u)'
          PROVE  t = u
      <4>1. \A x \in Callers : ~Restarting(x)
        BY <1>5, <3>1, Zenon DEF Halt
      <4>2. \A x \in Callers : x # c => sub'[x] = sub[x]
        BY <1>5 DEF Halt, Enter
      <4>3. QED
        BY <3>1, <4>1, <4>2
    <3>2. QED
      BY <3>1
  <2>2. JoinedInv'
    <3>1. \A t \in Callers :
            sub'[t] \in {"joinKeepAlive", "renew", "launch"} => t # c /\ sub'[t] = sub[t]
      BY <1>5 DEF Halt, Enter
    <3>2. pc' = pc /\ (overlap => overlap')
      BY <1>5 DEF Halt
    <3>3. QED
      BY <3>1, <3>2
  <2>3. RenewedInv'
    <3>1. \A t \in Callers :
            sub'[t] \in {"renew", "launch"} => t # c /\ sub'[t] = sub[t]
      BY <1>5 DEF Halt, Enter
    <3>2. stopped' = stopped /\ (overlap => overlap')
      BY <1>5 DEF Halt
    <3>3. \A t \in Callers : Restarting(t) => overlap'
      BY <1>5 DEF Halt
    <3>4. QED
      BY <3>1, <3>2, <3>3
  <2>4. QED
    BY <2>1, <2>2, <2>3
<1>6. ASSUME NEW c \in Callers, JoinListen(c) PROVE Restarts'
  BY <1>6 DEF JoinListen, Enter
<1>7. ASSUME NEW c \in Callers, JoinKeepAlive(c) PROVE Restarts'
  <2>0. KeepAliveJoined(c)
    BY <1>7, JoinKeepAliveEffect
  <2>1. AloneInv'
    BY <2>0 DEF KeepAliveJoined
  <2>2. JoinedInv'
    BY <2>0 DEF KeepAliveJoined
  <2>3. RenewedInv'
    BY <2>0 DEF KeepAliveJoined
  <2>4. QED
    BY <2>1, <2>2, <2>3
<1>8. ASSUME NEW c \in Callers, Renew(c) PROVE Restarts'
  BY <1>8 DEF Renew, Enter
<1>9. ASSUME NEW c \in Callers, Launch(c) PROVE Restarts'
  BY <1>9 DEF Launch, Enter, Goto
<1>10. CASE OpenSucceeds
  BY <1>10 DEF OpenSucceeds, Goto
<1>11. CASE OpenFails
  BY <1>11 DEF OpenFails, Goto
<1>12. CASE StartInit
  BY <1>12 DEF StartInit
<1>13. CASE ListenEnds
  BY <1>13 DEF ListenEnds, Goto
<1>14. CASE NoticeLoss
  BY <1>14 DEF NoticeLoss, Goto
<1>15. CASE ReadBegins
  BY <1>15 DEF ReadBegins, Goto
<1>16. CASE ReadEnds
  BY <1>16 DEF ReadEnds, Goto
<1>17. CASE ListenJoinsKeepAlive
  BY <1>17 DEF ListenJoinsKeepAlive, Goto
<1>18. CASE ListenJoinsRefresh
  BY <1>18 DEF ListenJoinsRefresh, Goto
<1>19. CASE ReadFails
  BY <1>19 DEF ReadFails, Goto
<1>20. CASE InitBegins
  BY <1>20 DEF InitBegins, At, Goto
<1>21. CASE InitAsks
  BY <1>21 DEF InitAsks, At, GetResponse, Goto, Enter
<1>22. CASE InitProceeds
  <2>1. InitProceeded
    BY <1>22, InitProceedsEffect
  <2>2. QED
    BY <2>1 DEF InitProceeded
<1>23. CASE InitFails
  BY <1>23 DEF InitFails, Null, Goto, Enter
<1>24. CASE InitThrows
  BY <1>24 DEF InitThrows, Packet, Goto, Enter
<1>25. CASE InitFinishes
  BY <1>25 DEF InitFinishes, At, Goto
<1>26. CASE StartKeepAlive
  BY <1>26 DEF StartKeepAlive, At
<1>27. CASE StartRefresh
  BY <1>27 DEF StartRefresh, At
<1>28. ASSUME NEW w \in Periodic, PeriodicEnds(w) PROVE Restarts'
  BY <1>28 DEF PeriodicEnds, At, Goto
<1>29. ASSUME NEW w \in Periodic, PeriodicAsks(w) PROVE Restarts'
  BY <1>29 DEF PeriodicAsks, At, GetResponse, Goto, Enter
<1>30. CASE RefreshAsksAgain
  BY <1>30 DEF RefreshAsksAgain, Packet, GetResponse, Goto, Enter
<1>31. ASSUME NEW w \in Periodic, PeriodicSucceeds(w) PROVE Restarts'
  BY <1>31 DEF PeriodicSucceeds, Packet, Goto, Enter
<1>32. ASSUME NEW w \in Periodic, PeriodicFails(w) PROVE Restarts'
  BY <1>32 DEF PeriodicFails, Null, Goto, Enter
<1>33. ASSUME NEW r \in Rpc, RpcAnswered(r) PROVE Restarts'
  <2>1. RpcReturned(r)
    BY <1>33, RpcAnsweredEffect
  <2>2. QED
    BY <2>1 DEF RpcReturned
<1>34. ASSUME NEW r \in Rpc, Transmit(r) PROVE Restarts'
  BY <1>34 DEF Transmit, Goto, Enter, At
<1>35. ASSUME NEW r \in Rpc, AskVersion(r) PROVE Restarts'
  BY <1>35 DEF AskVersion, At, GetResponse, Goto, Enter
<1>36. ASSUME NEW r \in Rpc, AskStructfile(r) PROVE Restarts'
  BY <1>36 DEF AskStructfile, Packet, GetResponse, Goto, Enter
<1>37. ASSUME NEW r \in Rpc, SendPacket(r) PROVE Restarts'
  <2>1. CASE GetResponse(r, "secure")
    BY <1>37, <2>1 DEF SendPacket, At, GetResponse, Goto, Enter
  <2>2. CASE Goto(r, "transmit") /\ UNCHANGED sub
    BY <1>37, <2>2 DEF SendPacket, At, Goto
  <2>3. QED
    BY <1>37, <2>1, <2>2 DEF SendPacket
<1>38. CASE Boot
  BY <1>38 DEF Boot, At, Goto, Enter
<1>39. CASE Disconnect
  BY <1>39 DEF Disconnect, At, GetResponse, Goto, Enter
<1>40. CASE Disconnected
  <2>1. MainReturned
    BY <1>40, DisconnectedEffect
  <2>2. QED
    BY <2>1 DEF MainReturned
<1>41. CASE StopListening
  BY <1>41 DEF StopListening, At, Goto, Enter
<1>42. CASE LoseConnection
  BY <1>42 DEF LoseConnection
<1>43. CASE UNCHANGED vars
  BY <1>43 DEF vars, flags
<1>44. QED
  BY <1>1, <1>2, <1>3, <1>4, <1>5, <1>6, <1>7, <1>8, <1>9, <1>10, <1>11,
     <1>12, <1>13, <1>14, <1>15, <1>16, <1>17, <1>18, <1>19, <1>20, <1>21,
     <1>22, <1>23, <1>24, <1>25, <1>26, <1>27, <1>28, <1>29, <1>30, <1>31,
     <1>32, <1>33, <1>34, <1>35, <1>36, <1>37, <1>38, <1>39, <1>40, <1>41,
     <1>42, <1>43, Zenon
     DEF Next, ThreadStep, SubStep, ListenStep, InitStep, PeriodicStep, RpcStep,
     MainStep, Request
-----------------------------------------------------------------------------
(* Layer 3 *)

(* A connection is opened with the socket closed, and a late init() finds it
   gone. *)
LEMMA ConnectionStep ==
  ControlInv /\ RestartInv /\ ConnectionInv /\ [Next]_vars => ConnectionInv'
<1> DEFINE Connections == SocketInv /\ LateInitInv
<1> SUFFICES ASSUME ControlInv, RestartInv, ConnectionInv, [Next]_vars PROVE Connections'
  BY DEF ConnectionInv
<1> USE RpcAssumption DEF ControlInv, TypeOK, PlaceInv, CallInv, HolderInv, BootInv,
        Calling, RestartPlaces, Booting, RestartInv, AloneInv, JoinedInv, Orderly,
        ConnectionInv, SocketInv, LateInitInv,
        Restarting, Dead, At, Threads, Callers, Periodic, flags
<1>1. ASSUME NEW c \in Callers, Lock(c) PROVE Connections'
  BY <1>1 DEF Lock, Enter
<1>2. ASSUME NEW c \in Callers, SendSucceeds(c) PROVE Connections'
  BY <1>2 DEF SendSucceeds, Enter
<1>3. ASSUME NEW c \in Callers, SendFails(c) PROVE Connections'
  BY <1>3 DEF SendFails, Enter
<1>4. ASSUME NEW c \in Callers, WaitEnds(c) PROVE Connections'
  BY <1>4 DEF WaitEnds, Enter
<1>5. ASSUME NEW c \in Callers, Halt(c) PROVE Connections'
  BY <1>5 DEF Halt, Enter
<1>6. ASSUME NEW c \in Callers, JoinListen(c) PROVE Connections'
  BY <1>6 DEF JoinListen, Enter
<1>7. ASSUME NEW c \in Callers, JoinKeepAlive(c) PROVE Connections'
  <2>1. KeepAliveJoined(c)
    BY <1>7, JoinKeepAliveEffect
  <2>2. QED
    BY <2>1 DEF KeepAliveJoined
<1>8. ASSUME NEW c \in Callers, Renew(c) PROVE Connections'
  BY <1>8 DEF Renew, Enter
<1>9. ASSUME NEW c \in Callers, Launch(c) PROVE Connections'
  BY <1>9 DEF Launch, Enter, Goto
<1>10. CASE OpenSucceeds
  BY <1>10 DEF OpenSucceeds, Goto
<1>11. CASE OpenFails
  BY <1>11 DEF OpenFails, Goto
<1>12. CASE StartInit
  BY <1>12 DEF StartInit
<1>13. CASE ListenEnds
  BY <1>13 DEF ListenEnds, Goto
<1>14. CASE NoticeLoss
  BY <1>14 DEF NoticeLoss, Goto
<1>15. CASE ReadBegins
  BY <1>15 DEF ReadBegins, Goto
<1>16. CASE ReadEnds
  BY <1>16 DEF ReadEnds, Goto
<1>17. CASE ListenJoinsKeepAlive
  BY <1>17 DEF ListenJoinsKeepAlive, Goto
<1>18. CASE ListenJoinsRefresh
  BY <1>18 DEF ListenJoinsRefresh, Goto
<1>19. CASE ReadFails
  BY <1>19 DEF ReadFails, Goto
<1>20. CASE InitBegins
  BY <1>20 DEF InitBegins, At, Goto
<1>21. CASE InitAsks
  BY <1>21 DEF InitAsks, At, GetResponse, Goto, Enter
<1>22. CASE InitProceeds
  <2>1. InitProceeded
    BY <1>22, InitProceedsEffect
  <2>2. QED
    BY <2>1 DEF InitProceeded
<1>23. CASE InitFails
  BY <1>23 DEF InitFails, Null, Goto, Enter
<1>24. CASE InitThrows
  BY <1>24 DEF InitThrows, Packet, Goto, Enter
<1>25. CASE InitFinishes
  BY <1>25 DEF InitFinishes, At, Goto
<1>26. CASE StartKeepAlive
  BY <1>26 DEF StartKeepAlive, At
<1>27. CASE StartRefresh
  BY <1>27 DEF StartRefresh, At
<1>28. ASSUME NEW w \in Periodic, PeriodicEnds(w) PROVE Connections'
  BY <1>28 DEF PeriodicEnds, At, Goto
<1>29. ASSUME NEW w \in Periodic, PeriodicAsks(w) PROVE Connections'
  BY <1>29 DEF PeriodicAsks, At, GetResponse, Goto, Enter
<1>30. CASE RefreshAsksAgain
  BY <1>30 DEF RefreshAsksAgain, Packet, GetResponse, Goto, Enter
<1>31. ASSUME NEW w \in Periodic, PeriodicSucceeds(w) PROVE Connections'
  BY <1>31 DEF PeriodicSucceeds, Packet, Goto, Enter
<1>32. ASSUME NEW w \in Periodic, PeriodicFails(w) PROVE Connections'
  BY <1>32 DEF PeriodicFails, Null, Goto, Enter
<1>33. ASSUME NEW r \in Rpc, RpcAnswered(r) PROVE Connections'
  <2>1. RpcReturned(r)
    BY <1>33, RpcAnsweredEffect
  <2>2. QED
    BY <2>1 DEF RpcReturned
<1>34. ASSUME NEW r \in Rpc, Transmit(r) PROVE Connections'
  BY <1>34 DEF Transmit, Goto, Enter, At
<1>35. ASSUME NEW r \in Rpc, AskVersion(r) PROVE Connections'
  BY <1>35 DEF AskVersion, At, GetResponse, Goto, Enter
<1>36. ASSUME NEW r \in Rpc, AskStructfile(r) PROVE Connections'
  BY <1>36 DEF AskStructfile, Packet, GetResponse, Goto, Enter
<1>37. ASSUME NEW r \in Rpc, SendPacket(r) PROVE Connections'
  <2>1. CASE GetResponse(r, "secure")
    BY <1>37, <2>1 DEF SendPacket, At, GetResponse, Goto, Enter
  <2>2. CASE Goto(r, "transmit") /\ UNCHANGED sub
    BY <1>37, <2>2 DEF SendPacket, At, Goto
  <2>3. QED
    BY <1>37, <2>1, <2>2 DEF SendPacket
<1>38. CASE Boot
  BY <1>38 DEF Boot, At, Goto, Enter
<1>39. CASE Disconnect
  BY <1>39 DEF Disconnect, At, GetResponse, Goto, Enter
<1>40. CASE Disconnected
  <2>1. MainReturned
    BY <1>40, DisconnectedEffect
  <2>2. QED
    BY <2>1 DEF MainReturned
<1>41. CASE StopListening
  BY <1>41 DEF StopListening, At, Goto, Enter
<1>42. CASE LoseConnection
  BY <1>42 DEF LoseConnection
<1>43. CASE UNCHANGED vars
  BY <1>43 DEF vars, flags
<1>44. QED
  BY <1>1, <1>2, <1>3, <1>4, <1>5, <1>6, <1>7, <1>8, <1>9, <1>10, <1>11,
     <1>12, <1>13, <1>14, <1>15, <1>16, <1>17, <1>18, <1>19, <1>20, <1>21,
     <1>22, <1>23, <1>24, <1>25, <1>26, <1>27, <1>28, <1>29, <1>30, <1>31,
     <1>32, <1>33, <1>34, <1>35, <1>36, <1>37, <1>38, <1>39, <1>40, <1>41,
     <1>42, <1>43, Zenon
     DEF Next, ThreadStep, SubStep, ListenStep, InitStep, PeriodicStep, RpcStep,
     MainStep, Request

(* A step that starts or ends no keepAlive, and changes _stopped and _connected
   only to give the connection up. *)
Unwatched ==
  /\ stopped' = TRUE \/ UNCHANGED <<stopped, connected>>
  /\ UNCHANGED <<stopCallback, overlap>>
  /\ pc'["keepAlive"] = pc["keepAlive"]
  /\ pc["init"] = "startKeepAlive" => pc'["init"] = "startKeepAlive"

LEMMA WatchedKept == Watched /\ Unwatched => Watched'
<1> SUFFICES ASSUME Watched, Unwatched,
                    connected', ~stopped', ~stopCallback', ~overlap'
             PROVE  pc'["keepAlive"] # "dead" \/ pc'["init"] = "startKeepAlive"
  BY DEF Watched, Dead
<1>1. connected /\ ~stopped /\ ~stopCallback /\ ~overlap
  <2>1. UNCHANGED <<stopped, connected, stopCallback, overlap>>
    BY Zenon DEF Unwatched
  <2>2. QED
    BY <2>1, Zenon
<1>2. QED
  BY <1>1 DEF Watched, Unwatched, Dead

(* Every step keeps an initialised connection watched. *)
LEMMA WatchedStep ==
  ControlInv /\ RestartInv /\ Watched /\ [Next]_vars => Watched'
<1> SUFFICES ASSUME ControlInv, RestartInv, Watched, [Next]_vars PROVE Watched'
  OBVIOUS
<1> USE RpcAssumption DEF ControlInv, TypeOK, PlaceInv, CallInv,
        RestartInv, RenewedInv,
        Restarting, Dead, At, Threads, Callers, Periodic, flags
<1>1. ASSUME NEW c \in Callers, Lock(c) PROVE Watched'
  BY <1>1 DEF Lock, Enter, Watched
<1>2. ASSUME NEW c \in Callers, SendSucceeds(c) PROVE Watched'
  BY <1>2 DEF SendSucceeds, Enter, Watched
<1>3. ASSUME NEW c \in Callers, SendFails(c) PROVE Watched'
  BY <1>3 DEF SendFails, Enter, Watched
<1>4. ASSUME NEW c \in Callers, WaitEnds(c) PROVE Watched'
  BY <1>4 DEF WaitEnds, Enter, Watched
<1>5. ASSUME NEW c \in Callers, Halt(c) PROVE Watched'
  BY <1>5 DEF Halt, Enter, Watched
<1>6. ASSUME NEW c \in Callers, JoinListen(c) PROVE Watched'
  BY <1>6 DEF JoinListen, Enter, Watched
<1>7. ASSUME NEW c \in Callers, JoinKeepAlive(c) PROVE Watched'
  <2>1. KeepAliveJoined(c)
    BY <1>7, JoinKeepAliveEffect
  <2>2. Unwatched
    BY <2>1 DEF KeepAliveJoined, Unwatched
  <2>3. QED
    BY <2>2, WatchedKept
<1>8. ASSUME NEW c \in Callers, Renew(c) PROVE Watched'
  <2>1. CASE overlap
    BY <1>8, <2>1 DEF Renew, Watched
  <2>2. CASE ~overlap
    <3>1. stopped \/ c = "keepAlive"
      BY <1>8, <2>2 DEF Renew
    <3>2. c = "keepAlive" => ~Dead("keepAlive")
      <4>1. sub[c] = "renew"
        BY <1>8 DEF Renew
      <4>2. c = "keepAlive" => Calling(c)
        BY <4>1 DEF RestartPlaces
      <4>3. QED
        BY <4>2 DEF Calling
    <3>3. stopped' = stopped /\ pc' = pc /\ overlap' = overlap /\ connected' = connected
      BY <1>8 DEF Renew
    <3>4. QED
      BY <3>1, <3>2, <3>3 DEF Watched
  <2>3. QED
    BY <2>1, <2>2
<1>9. ASSUME NEW c \in Callers, Launch(c) PROVE Watched'
  BY <1>9 DEF Launch, Enter, Goto, Watched
<1>10. CASE OpenSucceeds
  BY <1>10 DEF OpenSucceeds, Goto, Watched
<1>11. CASE OpenFails
  <2>1. /\ stopped' \/ (stopped' = stopped /\ connected' = connected)
        /\ stopCallback' = stopCallback /\ overlap' = overlap
        /\ pc' = [pc EXCEPT !["listen"] = "loop"]
    BY <1>11 DEF OpenFails, Goto
  <2>2. QED
    BY <2>1 DEF Watched
<1>12. CASE StartInit
  BY <1>12 DEF StartInit, Watched
<1>13. CASE ListenEnds
  BY <1>13 DEF ListenEnds, Goto, Watched
<1>14. CASE NoticeLoss
  BY <1>14 DEF NoticeLoss, Goto, Watched
<1>15. CASE ReadBegins
  BY <1>15 DEF ReadBegins, Goto, Watched
<1>16. CASE ReadEnds
  BY <1>16 DEF ReadEnds, Goto, Watched
<1>17. CASE ListenJoinsKeepAlive
  BY <1>17 DEF ListenJoinsKeepAlive, Goto, Watched
<1>18. CASE ListenJoinsRefresh
  BY <1>18 DEF ListenJoinsRefresh, Goto, Watched
<1>19. CASE ReadFails
  BY <1>19 DEF ReadFails, Goto, Watched
<1>20. CASE InitBegins
  BY <1>20 DEF InitBegins, At, Goto, Watched
<1>21. CASE InitAsks
  BY <1>21 DEF InitAsks, At, GetResponse, Goto, Enter, Watched
<1>22. CASE InitProceeds
  <2>1. InitProceeded
    BY <1>22, InitProceedsEffect
  <2>2. Unwatched
    BY <2>1 DEF InitProceeded, Unwatched
  <2>3. QED
    BY <2>2, WatchedKept
<1>23. CASE InitFails
  BY <1>23 DEF InitFails, Null, Goto, Enter, Watched
<1>24. CASE InitThrows
  BY <1>24 DEF InitThrows, Packet, Goto, Enter, Watched
<1>25. CASE InitFinishes
  BY <1>25 DEF InitFinishes, At, Goto, Watched
<1>26. CASE StartKeepAlive
  BY <1>26 DEF StartKeepAlive, At, Watched
<1>27. CASE StartRefresh
  BY <1>27 DEF StartRefresh, At, Watched
<1>28. ASSUME NEW w \in Periodic, PeriodicEnds(w) PROVE Watched'
  BY <1>28 DEF PeriodicEnds, At, Goto, Watched
<1>29. ASSUME NEW w \in Periodic, PeriodicAsks(w) PROVE Watched'
  BY <1>29 DEF PeriodicAsks, At, GetResponse, Goto, Enter, Watched
<1>30. CASE RefreshAsksAgain
  BY <1>30 DEF RefreshAsksAgain, Packet, GetResponse, Goto, Enter, Watched
<1>31. ASSUME NEW w \in Periodic, PeriodicSucceeds(w) PROVE Watched'
  BY <1>31 DEF PeriodicSucceeds, Packet, Goto, Enter, Watched
<1>32. ASSUME NEW w \in Periodic, PeriodicFails(w) PROVE Watched'
  BY <1>32 DEF PeriodicFails, Null, Goto, Enter, Watched
<1>33. ASSUME NEW r \in Rpc, RpcAnswered(r) PROVE Watched'
  <2>1. RpcReturned(r)
    BY <1>33, RpcAnsweredEffect
  <2>2. Unwatched
    BY <2>1 DEF RpcReturned, Unwatched
  <2>3. QED
    BY <2>2, WatchedKept
<1>34. ASSUME NEW r \in Rpc, Transmit(r) PROVE Watched'
  BY <1>34 DEF Transmit, Goto, Enter, At, Watched
<1>35. ASSUME NEW r \in Rpc, AskVersion(r) PROVE Watched'
  BY <1>35 DEF AskVersion, At, GetResponse, Goto, Enter, Watched
<1>36. ASSUME NEW r \in Rpc, AskStructfile(r) PROVE Watched'
  BY <1>36 DEF AskStructfile, Packet, GetResponse, Goto, Enter, Watched
<1>37. ASSUME NEW r \in Rpc, SendPacket(r) PROVE Watched'
  <2>1. CASE GetResponse(r, "secure")
    BY <1>37, <2>1 DEF SendPacket, At, GetResponse, Goto, Enter, Watched
  <2>2. CASE Goto(r, "transmit") /\ UNCHANGED sub
    BY <1>37, <2>2 DEF SendPacket, At, Goto, Watched
  <2>3. QED
    BY <1>37, <2>1, <2>2 DEF SendPacket
<1>38. CASE Boot
  BY <1>38 DEF Boot, At, Goto, Enter, Watched
<1>39. CASE Disconnect
  BY <1>39 DEF Disconnect, At, GetResponse, Goto, Enter, Watched
<1>40. CASE Disconnected
  <2>1. MainReturned
    BY <1>40, DisconnectedEffect
  <2>2. Unwatched
    BY <2>1 DEF MainReturned, Unwatched
  <2>3. QED
    BY <2>2, WatchedKept
<1>41. CASE StopListening
  BY <1>41 DEF StopListening, At, Goto, Enter, Watched
<1>42. CASE LoseConnection
  BY <1>42 DEF LoseConnection, Watched
<1>43. CASE UNCHANGED vars
  BY <1>43 DEF vars, flags, Watched
<1> HIDE DEF ControlInv, TypeOK, PlaceInv, CallInv, RestartInv, RenewedInv,
   Restarting, Dead, At, Threads, Callers, Periodic, flags
<1>44. QED
  BY <1>1, <1>2, <1>3, <1>4, <1>5, <1>6, <1>7, <1>8, <1>9, <1>10, <1>11,
     <1>12, <1>13, <1>14, <1>15, <1>16, <1>17, <1>18, <1>19, <1>20, <1>21,
     <1>22, <1>23, <1>24, <1>25, <1>26, <1>27, <1>28, <1>29, <1>30, <1>31,
     <1>32, <1>33, <1>34, <1>35, <1>36, <1>37, <1>38, <1>39, <1>40, <1>41,
     <1>42, <1>43, Zenon
     DEF Next, ThreadStep, SubStep, ListenStep, InitStep, PeriodicStep, RpcStep,
     MainStep, Request

(* Every step keeps a stopped interface closed. *)
LEMMA StopStep ==
  ControlInv /\ RestartInv /\ StopHolds /\ [Next]_vars => StopHolds'
<1> SUFFICES ASSUME ControlInv, RestartInv, StopHolds, [Next]_vars PROVE StopHolds'
  OBVIOUS
<1> USE RpcAssumption DEF ControlInv, TypeOK, PlaceInv, CallInv,
        RestartInv, AloneInv, JoinedInv, RenewedInv, Orderly,
        Restarting, Dead, At, Threads, Callers, Periodic, flags
<1>1. ASSUME NEW c \in Callers, Lock(c) PROVE StopHolds'
  BY <1>1 DEF Lock, Enter, StopHolds
<1>2. ASSUME NEW c \in Callers, SendSucceeds(c) PROVE StopHolds'
  BY <1>2 DEF SendSucceeds, Enter, StopHolds
<1>3. ASSUME NEW c \in Callers, SendFails(c) PROVE StopHolds'
  BY <1>3 DEF SendFails, Enter, StopHolds
<1>4. ASSUME NEW c \in Callers, WaitEnds(c) PROVE StopHolds'
  BY <1>4 DEF WaitEnds, Enter, StopHolds
<1>5. ASSUME NEW c \in Callers, Halt(c) PROVE StopHolds'
  BY <1>5 DEF Halt, Enter, StopHolds
<1>6. ASSUME NEW c \in Callers, JoinListen(c) PROVE StopHolds'
  BY <1>6 DEF JoinListen, Enter, StopHolds
<1>7. ASSUME NEW c \in Callers, JoinKeepAlive(c) PROVE StopHolds'
  <2>1. KeepAliveJoined(c)
    BY <1>7, JoinKeepAliveEffect
  <2>2. QED
    BY <2>1 DEF KeepAliveJoined, StopHolds
<1>8. ASSUME NEW c \in Callers, Renew(c) PROVE StopHolds'
  BY <1>8 DEF Renew, Enter, StopHolds
<1>9. ASSUME NEW c \in Callers, Launch(c) PROVE StopHolds'
  BY <1>9 DEF Launch, Enter, Goto, StopHolds
<1>10. CASE OpenSucceeds
  BY <1>10 DEF OpenSucceeds, Goto, StopHolds
<1>11. CASE OpenFails
  BY <1>11 DEF OpenFails, Goto, StopHolds
<1>12. CASE StartInit
  BY <1>12 DEF StartInit, StopHolds
<1>13. CASE ListenEnds
  BY <1>13 DEF ListenEnds, Goto, StopHolds
<1>14. CASE NoticeLoss
  BY <1>14 DEF NoticeLoss, Goto, StopHolds
<1>15. CASE ReadBegins
  BY <1>15 DEF ReadBegins, Goto, StopHolds
<1>16. CASE ReadEnds
  BY <1>16 DEF ReadEnds, Goto, StopHolds
<1>17. CASE ListenJoinsKeepAlive
  BY <1>17 DEF ListenJoinsKeepAlive, Goto, StopHolds
<1>18. CASE ListenJoinsRefresh
  BY <1>18 DEF ListenJoinsRefresh, Goto, StopHolds
<1>19. CASE ReadFails
  BY <1>19 DEF ReadFails, Goto, StopHolds
<1>20. CASE InitBegins
  BY <1>20 DEF InitBegins, At, Goto, StopHolds
<1>21. CASE InitAsks
  BY <1>21 DEF InitAsks, At, GetResponse, Goto, Enter, StopHolds
<1>22. CASE InitProceeds
  <2>1. InitProceeded
    BY <1>22, InitProceedsEffect
  <2>2. QED
    BY <2>1 DEF InitProceeded, StopHolds
<1>23. CASE InitFails
  BY <1>23 DEF InitFails, Null, Goto, Enter, StopHolds
<1>24. CASE InitThrows
  BY <1>24 DEF InitThrows, Packet, Goto, Enter, StopHolds
<1>25. CASE InitFinishes
  BY <1>25 DEF InitFinishes, At, Goto, StopHolds
<1>26. CASE StartKeepAlive
  BY <1>26 DEF StartKeepAlive, At, StopHolds
<1>27. CASE StartRefresh
  BY <1>27 DEF StartRefresh, At, StopHolds
<1>28. ASSUME NEW w \in Periodic, PeriodicEnds(w) PROVE StopHolds'
  BY <1>28 DEF PeriodicEnds, At, Goto, StopHolds
<1>29. ASSUME NEW w \in Periodic, PeriodicAsks(w) PROVE StopHolds'
  BY <1>29 DEF PeriodicAsks, At, GetResponse, Goto, Enter, StopHolds
<1>30. CASE RefreshAsksAgain
  BY <1>30 DEF RefreshAsksAgain, Packet, GetResponse, Goto, Enter, StopHolds
<1>31. ASSUME NEW w \in Periodic, PeriodicSucceeds(w) PROVE StopHolds'
  BY <1>31 DEF PeriodicSucceeds, Packet, Goto, Enter, StopHolds
<1>32. ASSUME NEW w \in Periodic, PeriodicFails(w) PROVE StopHolds'
  BY <1>32 DEF PeriodicFails, Null, Goto, Enter, StopHolds
<1>33. ASSUME NEW r \in Rpc, RpcAnswered(r) PROVE StopHolds'
  <2>1. RpcReturned(r)
    BY <1>33, RpcAnsweredEffect
  <2>2. QED
    BY <2>1 DEF RpcReturned, StopHolds
<1>34. ASSUME NEW r \in Rpc, Transmit(r) PROVE StopHolds'
  BY <1>34 DEF Transmit, Goto, Enter, At, StopHolds
<1>35. ASSUME NEW r \in Rpc, AskVersion(r) PROVE StopHolds'
  BY <1>35 DEF AskVersion, At, GetResponse, Goto, Enter, StopHolds
<1>36. ASSUME NEW r \in Rpc, AskStructfile(r) PROVE StopHolds'
  BY <1>36 DEF AskStructfile, Packet, GetResponse, Goto, Enter, StopHolds
<1>37. ASSUME NEW r \in Rpc, SendPacket(r) PROVE StopHolds'
  <2>1. CASE GetResponse(r, "secure")
    BY <1>37, <2>1 DEF SendPacket, At, GetResponse, Goto, Enter, StopHolds
  <2>2. CASE Goto(r, "transmit") /\ UNCHANGED sub
    BY <1>37, <2>2 DEF SendPacket, At, Goto, StopHolds
  <2>3. QED
    BY <1>37, <2>1, <2>2 DEF SendPacket
<1>38. CASE Boot
  BY <1>38 DEF Boot, At, Goto, Enter, StopHolds
<1>39. CASE Disconnect
  BY <1>39 DEF Disconnect, At, GetResponse, Goto, Enter, StopHolds
<1>40. CASE Disconnected
  <2>1. MainReturned
    BY <1>40, DisconnectedEffect
  <2>2. QED
    BY <2>1 DEF MainReturned, StopHolds
<1>41. CASE StopListening
  BY <1>41 DEF StopListening, At, Goto, Enter, StopHolds
<1>42. CASE LoseConnection
  BY <1>42 DEF LoseConnection, StopHolds
<1>43. CASE UNCHANGED vars
  BY <1>43 DEF vars, flags, StopHolds
<1> HIDE DEF ControlInv, TypeOK, PlaceInv, CallInv, RestartInv, AloneInv,
   JoinedInv, RenewedInv, Orderly, Restarting, Dead, At, Threads, Callers,
   Periodic, flags
<1>44. QED
  BY <1>1, <1>2, <1>3, <1>4, <1>5, <1>6, <1>7, <1>8, <1>9, <1>10, <1>11,
     <1>12, <1>13, <1>14, <1>15, <1>16, <1>17, <1>18, <1>19, <1>20, <1>21,
     <1>22, <1>23, <1>24, <1>25, <1>26, <1>27, <1>28, <1>29, <1>30, <1>31,
     <1>32, <1>33, <1>34, <1>35, <1>36, <1>37, <1>38, <1>39, <1>40, <1>41,
     <1>42, <1>43, Zenon
     DEF Next, ThreadStep, SubStep, ListenStep, InitStep, PeriodicStep, RpcStep,
     MainStep, Request
-----------------------------------------------------------------------------
(* The invariant, and what follows from it *)

(* The invariant holds before the interface is created. *)
LEMMA IInvInit == Init => IInv
<1> SUFFICES ASSUME Init PROVE IInv
  OBVIOUS
<1> USE InitAssumption, RpcAssumption DEF Init, Threads, Callers, Periodic
<1>1. TypeOK
  <2>1. 1 \in 1..InitSteps
    OBVIOUS
  <2>2. QED
    BY <2>1 DEF TypeOK, PCs, SubPCs
<1>2. PlaceInv /\ CallInv /\ HolderInv /\ BootInv
  BY DEF PlaceInv, CallInv, HolderInv, BootInv, Calling, RestartPlaces, Dead, At
<1>3. RestartInv /\ ConnectionInv
  BY DEF RestartInv, AloneInv, JoinedInv, RenewedInv, Restarting, ConnectionInv,
         SocketInv, LateInitInv
<1>4. Watched /\ StopHolds
  BY DEF Watched, StopHolds, At
<1>5. QED
  BY <1>1, <1>2, <1>3, <1>4 DEF IInv, ControlInv

(* Every step keeps it. *)
LEMMA IInvStep == IInv /\ [Next]_vars => IInv'
  BY ControlStep, RestartStep, ConnectionStep, WatchedStep, StopStep DEF IInv

(* The invariant holds in every state of a behavior. *)
LEMMA Invariant == Spec => []IInv
<1>1. QED
  BY IInvInit, IInvStep, PTL DEF Spec

(* Every flag and counter has its type, and every thread is somewhere in its
   own function and in one it calls. *)
THEOREM TypeCorrect == Spec => []TypeOK
<1>1. IInv => TypeOK
  BY DEF IInv, ControlInv
<1>2. QED
  BY <1>1, Invariant, PTL

(* An initialised connection that is not given up has a keepAlive, or init()
   is about to start it: for any number of Homegear threads and any length of
   init(). *)
THEOREM ConnectionsAreWatched == Spec => []Watched
<1>1. IInv => Watched
  BY DEF IInv
<1>2. QED
  BY <1>1, Invariant, PTL

(* When stopListening() has returned to the main thread and nobody restarts
   the interface, the listener is gone and the interface stays closed. *)
THEOREM StopIsFinal == Spec => []StopHolds
<1>1. IInv => StopHolds
  BY DEF IInv
<1>2. QED
  BY <1>1, Invariant, PTL

(* A step that strands a connection is the exception in init(). *)
LEMMA StrandStep ==
  IInv /\ [Next]_vars =>
    [~Stranded /\ Stranded' /\ (overlap' => Rpc = {}) => Packet("init", "answer")]_vars
<1> SUFFICES ASSUME IInv, [Next]_vars, ~Stranded, Stranded', overlap' => Rpc = {}
             PROVE  Packet("init", "answer")
  OBVIOUS
<1>a. ControlInv /\ RestartInv /\ ConnectionInv
  BY DEF IInv
<1> USE <1>a, RpcAssumption DEF ControlInv, TypeOK, PlaceInv, CallInv,
        RestartInv, JoinedInv, ConnectionInv, SocketInv, LateInitInv, Orderly,
        Dead, At, Threads, Callers, Periodic, flags
<1>1. ASSUME NEW c \in Callers, Lock(c) PROVE Packet("init", "answer")
  BY <1>1 DEF Lock, Enter, Stranded
<1>2. ASSUME NEW c \in Callers, SendSucceeds(c) PROVE Packet("init", "answer")
  BY <1>2 DEF SendSucceeds, Enter, Stranded
<1>3. ASSUME NEW c \in Callers, SendFails(c) PROVE Packet("init", "answer")
  BY <1>3 DEF SendFails, Enter, Stranded
<1>4. ASSUME NEW c \in Callers, WaitEnds(c) PROVE Packet("init", "answer")
  BY <1>4 DEF WaitEnds, Enter, Stranded
<1>5. ASSUME NEW c \in Callers, Halt(c) PROVE Packet("init", "answer")
  BY <1>5 DEF Halt, Enter, Stranded
<1>6. ASSUME NEW c \in Callers, JoinListen(c) PROVE Packet("init", "answer")
  BY <1>6 DEF JoinListen, Enter, Stranded
<1>7. ASSUME NEW c \in Callers, JoinKeepAlive(c) PROVE Packet("init", "answer")
  <2>1. KeepAliveJoined(c)
    BY <1>7, JoinKeepAliveEffect
  <2>2. QED
    BY <2>1 DEF KeepAliveJoined, Stranded
<1>8. ASSUME NEW c \in Callers, Renew(c) PROVE Packet("init", "answer")
  BY <1>8 DEF Renew, Enter, Stranded
<1>9. ASSUME NEW c \in Callers, Launch(c) PROVE Packet("init", "answer")
  BY <1>9 DEF Launch, Enter, Goto, Stranded
<1>10. CASE OpenSucceeds
  BY <1>10 DEF OpenSucceeds, Goto, Stranded
<1>11. CASE OpenFails
  BY <1>11 DEF OpenFails, Goto, Stranded
<1>12. CASE StartInit
  BY <1>12 DEF StartInit, Stranded
<1>13. CASE ListenEnds
  BY <1>13 DEF ListenEnds, Goto, Stranded
<1>14. CASE NoticeLoss
  BY <1>14 DEF NoticeLoss, Goto, Stranded
<1>15. CASE ReadBegins
  BY <1>15 DEF ReadBegins, Goto, Stranded
<1>16. CASE ReadEnds
  BY <1>16 DEF ReadEnds, Goto, Stranded
<1>17. CASE ListenJoinsKeepAlive
  BY <1>17 DEF ListenJoinsKeepAlive, Goto, Stranded
<1>18. CASE ListenJoinsRefresh
  BY <1>18 DEF ListenJoinsRefresh, Goto, Stranded
<1>19. CASE ReadFails
  BY <1>19 DEF ReadFails, Goto, Stranded
<1>20. CASE InitBegins
  BY <1>20 DEF InitBegins, At, Goto, Stranded
<1>21. CASE InitAsks
  BY <1>21 DEF InitAsks, At, GetResponse, Goto, Enter, Stranded
<1>22. CASE InitProceeds
  <2>1. InitProceeded
    BY <1>22, InitProceedsEffect
  <2>2. QED
    BY <2>1 DEF InitProceeded, Stranded
<1>23. CASE InitFails
  BY <1>23 DEF InitFails, Null, Goto, Enter, Stranded
<1>24. CASE InitThrows
  BY <1>24 DEF InitThrows, Packet, Goto, Enter, Stranded
<1>25. CASE InitFinishes
  BY <1>25 DEF InitFinishes, At, Goto, Stranded
<1>26. CASE StartKeepAlive
  BY <1>26 DEF StartKeepAlive, At, Stranded
<1>27. CASE StartRefresh
  BY <1>27 DEF StartRefresh, At, Stranded
<1>28. ASSUME NEW w \in Periodic, PeriodicEnds(w) PROVE Packet("init", "answer")
  BY <1>28 DEF PeriodicEnds, At, Goto, Stranded
<1>29. ASSUME NEW w \in Periodic, PeriodicAsks(w) PROVE Packet("init", "answer")
  BY <1>29 DEF PeriodicAsks, At, GetResponse, Goto, Enter, Stranded
<1>30. CASE RefreshAsksAgain
  BY <1>30 DEF RefreshAsksAgain, Packet, GetResponse, Goto, Enter, Stranded
<1>31. ASSUME NEW w \in Periodic, PeriodicSucceeds(w) PROVE Packet("init", "answer")
  BY <1>31 DEF PeriodicSucceeds, Packet, Goto, Enter, Stranded
<1>32. ASSUME NEW w \in Periodic, PeriodicFails(w) PROVE Packet("init", "answer")
  BY <1>32 DEF PeriodicFails, Null, Goto, Enter, Stranded
<1>33. ASSUME NEW r \in Rpc, RpcAnswered(r) PROVE Packet("init", "answer")
  <2>1. RpcReturned(r)
    BY <1>33, RpcAnsweredEffect
  <2>2. QED
    BY <2>1 DEF RpcReturned, Stranded
<1>34. ASSUME NEW r \in Rpc, Transmit(r) PROVE Packet("init", "answer")
  BY <1>34 DEF Transmit, Goto, Enter, At, Stranded
<1>35. ASSUME NEW r \in Rpc, AskVersion(r) PROVE Packet("init", "answer")
  BY <1>35 DEF AskVersion, At, GetResponse, Goto, Enter, Stranded
<1>36. ASSUME NEW r \in Rpc, AskStructfile(r) PROVE Packet("init", "answer")
  BY <1>36 DEF AskStructfile, Packet, GetResponse, Goto, Enter, Stranded
<1>37. ASSUME NEW r \in Rpc, SendPacket(r) PROVE Packet("init", "answer")
  <2>1. CASE GetResponse(r, "secure")
    BY <1>37, <2>1 DEF SendPacket, At, GetResponse, Goto, Enter, Stranded
  <2>2. CASE Goto(r, "transmit") /\ UNCHANGED sub
    BY <1>37, <2>2 DEF SendPacket, At, Goto, Stranded
  <2>3. QED
    BY <1>37, <2>1, <2>2 DEF SendPacket
<1>38. CASE Boot
  BY <1>38 DEF Boot, At, Goto, Enter, Stranded
<1>39. CASE Disconnect
  BY <1>39 DEF Disconnect, At, GetResponse, Goto, Enter, Stranded
<1>40. CASE Disconnected
  <2>1. MainReturned
    BY <1>40, DisconnectedEffect
  <2>2. QED
    BY <2>1 DEF MainReturned, Stranded
<1>41. CASE StopListening
  BY <1>41 DEF StopListening, At, Goto, Enter, Stranded
<1>42. CASE LoseConnection
  BY <1>42 DEF LoseConnection, Stranded
<1>43. CASE UNCHANGED vars
  BY <1>43 DEF vars, flags, Stranded
<1> HIDE DEF ControlInv, TypeOK, PlaceInv, CallInv, RestartInv, JoinedInv,
   ConnectionInv, SocketInv, LateInitInv, Orderly, Dead, At, Threads, Callers,
   Periodic, flags
<1>44. QED
  BY <1>1, <1>2, <1>3, <1>4, <1>5, <1>6, <1>7, <1>8, <1>9, <1>10, <1>11,
     <1>12, <1>13, <1>14, <1>15, <1>16, <1>17, <1>18, <1>19, <1>20, <1>21,
     <1>22, <1>23, <1>24, <1>25, <1>26, <1>27, <1>28, <1>29, <1>30, <1>31,
     <1>32, <1>33, <1>34, <1>35, <1>36, <1>37, <1>38, <1>39, <1>40, <1>41,
     <1>42, <1>43, Zenon
     DEF Next, ThreadStep, SubStep, ListenStep, InitStep, PeriodicStep, RpcStep,
     MainStep, Request

(* No connection is left open, uninitialised and unattended, except by an
   exception in init(). *)
THEOREM OnlyExceptionsStrand == Spec => OnlyThrowsStrand
<1>1. QED
  BY Invariant, StrandStep, PTL DEF Spec, OnlyThrowsStrand
=============================================================================
