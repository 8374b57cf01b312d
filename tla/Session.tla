------------------------------- MODULE Session -------------------------------
(***************************************************************************)
(* The log-in: init() takes a connection from the HTTP requests to the     *)
(* key exchange, gets a key, hashes the password with it and gets a token; *)
(* refreshToken() gets a key and hashes the token.  Key and token are      *)
(* fields of LoxoneEncryption and outlive the connection; a thread may     *)
(* still be at work when the next connection is opened.                    *)
(*                                                                         *)
(* The threads and flags are those of module Miniserver, here with the     *)
(* connection each of them was started for and what they get from it.      *)
(***************************************************************************)
EXTENDS Naturals

CONSTANTS
  InitThread, Refresher,
  MaxConnections,  \* bound
  MaxKeys          \* bound: keys the Miniserver gives

Threads == {InitThread, Refresher}

ThreadsAssumption == InitThread # Refresher
BoundsAssumption == MaxConnections \in Nat /\ MaxKeys \in Nat

VARIABLES
  stopped,    \* _stopped
  listen,     \* the listen thread: "reads", "opens" or "starts" (init)
  connection, \* its number
  level,      \* how far the Miniserver has got with it
  given,      \* the last key it gave on the connection
  issued,     \* and at all
  key,        \* _loxKey: the number of the answer it is of
  token, validUntil,  \* _loxToken, _tokenValidUntil: whether there is one
  pc,
  of,         \* of each thread: the connection it was started for,
  asked,      \* the one that it sent its request on (0: none is sent),
  got,        \* the answer,
  hash,       \* the key a hash is made with, and what was hashed
  what,
  refused,    \* History: a log-in of this connection was refused,
  foreign     \* a restart or a late init() left a refreshToken() of another one

vars == <<stopped, listen, connection, level, given, issued, key, token,
          validUntil, pc, of, asked, got, hash, what, refused, foreign>>
line == <<listen, connection, foreign>>
server == <<level, given, issued, refused>>
client == <<key, token, validUntil>>
local == <<of, got, hash, what>>

\* A request: the level a connection must have for an answer.
Level == [http |-> 0, keyexchange |-> 1, getkey |-> 2, login |-> 2, updates |-> 2]
LoggedIn == 3
Understood(request) ==
  IF request \in {"http", "keyexchange"} THEN level = Level[request] ELSE level >= Level[request]

Goes(t, to) == pc' = [pc EXCEPT ![t] = to]

Returns(t) == asked' = [asked EXCEPT ![t] = 0]

-----------------------------------------------------------------------------
(* getResponse() *)

\* One exchange at a time; on whatever connection there is.
Call(t) ==
  /\ pc[t] \in DOMAIN Level /\ \A u \in Threads : asked[u] = 0
  /\ ~stopped
  /\ asked' = [asked EXCEPT ![t] = connection]
  /\ UNCHANGED <<stopped, line, server, client, pc, local>>

(* Mutant of GiveUp: acquireToken() does not set _stopped. *)
GiveUpQuietly(t) ==
  /\ stopped' = (stopped \/ pc[t] # "login")
  /\ Goes(t, IF t = InitThread /\ pc[t] = "login" THEN "updates" ELSE "none")

\* An error, or no answer: the connection is given up.  acquireToken() returns
\* to init(), which goes on.
GiveUp(t) ==
  /\ stopped' = TRUE
  /\ Goes(t, IF t = InitThread /\ pc[t] = "login" THEN "updates" ELSE "none")

NoAnswer(t) ==
  /\ pc[t] \in DOMAIN Level /\ (asked[t] # 0 \/ stopped)
  /\ GiveUp(t) /\ Returns(t)
  /\ UNCHANGED <<line, server, client, local>>

Answered(t) ==
  /\ pc[t] \in DOMAIN Level /\ asked[t] = connection /\ listen = "reads"
  /\ Understood(pc[t]) /\ Returns(t)
  /\ UNCHANGED <<line, client, of, hash, what>>

\* The requests before the WebSocket, and the key exchange.
Opened(t) ==
  /\ pc[t] \in {"http", "keyexchange"} /\ Answered(t)
  /\ level' = level + 1
  /\ Goes(t, IF pc[t] = "http" THEN "keyexchange" ELSE "getkey")
  /\ UNCHANGED <<stopped, given, issued, refused, got>>

GetKey(t) ==
  /\ pc[t] = "getkey" /\ Answered(t) /\ issued < MaxKeys
  /\ issued' = issued + 1 /\ given' = issued'
  /\ got' = [got EXCEPT ![t] = issued'] /\ Goes(t, "gotkey")
  /\ UNCHANGED <<stopped, level, refused>>

\* The Miniserver accepts the password or a token, hashed with the last key it
\* gave on the connection.
Login(t) ==
  /\ pc[t] = "login" /\ Answered(t)
  /\ IF hash[t] = given /\ what[t] # "nothing"
     THEN level' = LoggedIn /\ Goes(t, "gottoken") /\ UNCHANGED <<stopped, refused>>
     ELSE refused' = TRUE /\ GiveUp(t) /\ UNCHANGED level
  /\ UNCHANGED <<given, issued, got>>

EnableUpdates(t) ==
  /\ pc[t] = "updates" /\ Answered(t) /\ Goes(t, "start")
  /\ UNCHANGED <<stopped, server, got>>

-----------------------------------------------------------------------------
(* init() and refreshToken() between the exchanges *)

SetKey(t) ==
  /\ pc[t] = "gotkey" /\ Goes(t, "hash") /\ key' = got[t]
  /\ UNCHANGED <<stopped, line, server, token, validUntil, asked, local>>

GetToken == token /\ validUntil

\* hashPassword() or hashToken().
Hash(t) ==
  /\ pc[t] = "hash" /\ Goes(t, "login") /\ hash' = [hash EXCEPT ![t] = key]
  /\ what' = [what EXCEPT ![t] =
       CASE t = Refresher /\ ~token -> "nothing"
         [] t = Refresher \/ GetToken -> "token"
         [] OTHER -> "password"]
  /\ UNCHANGED <<stopped, line, server, client, of, asked, got>>

\* How long the token is valid is not stored.
SetToken(t) ==
  /\ pc[t] = "gottoken"
  /\ IF what[t] = "token" /\ t = InitThread THEN UNCHANGED <<token, validUntil>>
     ELSE token' = TRUE /\ validUntil' = FALSE
  /\ Goes(t, IF t = InitThread THEN "updates" ELSE "sleep")
  /\ UNCHANGED <<stopped, line, server, key, asked, local>>

\* The thread manager joins the thread that was there before.
StartRefresh ==
  /\ pc[InitThread] = "start" /\ pc[Refresher] = "none"
  /\ pc' = [pc EXCEPT ![InitThread] = "none", ![Refresher] = "sleep"]
  /\ of' = [of EXCEPT ![Refresher] = of[InitThread]]
  /\ foreign' = (foreign \/ of[InitThread] # connection \/ listen = "opens")
  /\ UNCHANGED <<stopped, listen, connection, server, client, asked, got, hash, what>>

Refresh ==
  /\ pc[Refresher] = "sleep" /\ Goes(Refresher, IF stopped THEN "none" ELSE "getkey")
  /\ UNCHANGED <<stopped, line, server, client, asked, local>>

-----------------------------------------------------------------------------
(* The connection *)

\* keepAlive() and listen() give it up; on a close frame or an exception the
\* token is forgotten.
Lose ==
  /\ listen = "reads" /\ stopped' = TRUE /\ token' \in {token, FALSE}
  /\ UNCHANGED <<line, server, key, validUntil, pc, asked, local>>

(* Mutant of Reconnect: refreshToken() is not joined. *)
ReconnectUnjoined ==
  /\ listen = "reads" /\ stopped /\ listen' = "opens"
  /\ UNCHANGED <<stopped, connection, foreign, server, client, pc, asked, local>>

Reconnect ==
  /\ listen = "reads" /\ stopped /\ pc[Refresher] = "none"
  /\ listen' = "opens"
  /\ UNCHANGED <<stopped, connection, foreign, server, client, pc, asked, local>>

\* A thread of Homegear whose send failed: stopListening() joins neither
\* refreshToken() nor init(), and startListening() opens without a pause.
Restart ==
  /\ listen = "reads" /\ listen' = "opens" /\ stopped' = TRUE /\ foreign' = TRUE
  /\ UNCHANGED <<connection, server, client, pc, asked, local>>

\* The Miniserver knows nothing of the connection before.
Open ==
  /\ listen = "opens" /\ connection < MaxConnections
  /\ listen' = "starts" /\ stopped' = FALSE /\ connection' = connection + 1
  /\ level' = 0 /\ given' = 0 /\ refused' = FALSE
  /\ foreign' = (foreign /\ pc[Refresher] # "none")
  /\ UNCHANGED <<issued, client, pc, asked, local>>

StartInit ==
  /\ listen = "starts" /\ pc[InitThread] = "none"
  /\ listen' = "reads" /\ Goes(InitThread, "http")
  /\ of' = [of EXCEPT ![InitThread] = connection]
  /\ UNCHANGED <<stopped, connection, foreign, server, client, asked, got, hash, what>>

Init ==
  /\ stopped = TRUE /\ listen = "opens" /\ connection = 0 /\ level = 0 /\ given = 0
  /\ issued = 0 /\ key = 0 /\ token \in BOOLEAN /\ validUntil = FALSE
  /\ pc = [t \in Threads |-> "none"] /\ what = [t \in Threads |-> "password"]
  /\ of = [t \in Threads |-> 0] /\ asked = of /\ got = of /\ hash = of
  /\ refused = FALSE /\ foreign = FALSE

Next ==
  \/ \E t \in Threads :
       \/ Call(t) \/ NoAnswer(t) \/ Opened(t) \/ GetKey(t) \/ Login(t)
       \/ EnableUpdates(t) \/ SetKey(t) \/ Hash(t) \/ SetToken(t)
  \/ StartRefresh \/ Refresh
  \/ Lose \/ Reconnect \/ Restart \/ Open \/ StartInit

Spec == Init /\ [][Next]_vars

-----------------------------------------------------------------------------
(* Properties *)

TypeOK ==
  /\ stopped \in BOOLEAN /\ listen \in {"reads", "opens", "starts"}
  /\ connection \in 0 .. MaxConnections /\ level \in 0 .. LoggedIn
  /\ issued \in 0 .. MaxKeys /\ given \in 0 .. issued /\ key \in 0 .. issued
  /\ token \in BOOLEAN /\ validUntil \in BOOLEAN
  /\ pc \in [Threads -> DOMAIN Level \cup {"none", "gotkey", "hash", "gottoken",
                                           "start", "sleep"}]
  /\ of \in [Threads -> 0 .. connection] /\ asked \in [Threads -> 0 .. connection]
  /\ got \in [Threads -> 0 .. issued] /\ hash \in [Threads -> 0 .. issued]
  /\ what \in [Threads -> {"password", "token", "nothing"}]
  /\ refused \in BOOLEAN /\ foreign \in BOOLEAN
  /\ \A t \in Threads : asked[t] # 0 => pc[t] \in DOMAIN Level

\* The right password and the right token are never refused (after too many
\* refusals a Miniserver locks the client out, LoxonePacket.cpp:137), unless a
\* refreshToken() of a connection before replaces the key between the answer
\* and the hash, which only a restart or a late init() leaves running.
NotRefused == refused => foreign

\* init() gets to its end on its own connection only if it is logged in there,
\* although it goes on when the log-in failed.
UpdatesLoggedIn ==
  pc[InitThread] = "start" /\ connection = of[InitThread] => level = LoggedIn \/ stopped
=============================================================================
