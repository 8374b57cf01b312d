--------------------------- MODULE SecuredCommands ---------------------------
(***************************************************************************)
(* Commands to secured controls: sendPacket() asks the Miniserver for a    *)
(* key and a salt, hashes the password of the visualisation with them and  *)
(* inserts the hash into the command.  Key, salt and hash are fields of    *)
(* LoxoneEncryption without a lock, and prepareSecuredCommand() returns    *)
(* nothing: sendPacket() goes on when it failed.  init() prepares a        *)
(* secured command too, which it does not send.                            *)
(***************************************************************************)
EXTENDS Naturals

CONSTANTS
  Senders,   \* threads in sendPacket()
  InitThread,
  MaxSalts,  \* bound: salts the Miniserver gives
  MaxLosses  \* bound: losses of the connection

Threads == Senders \cup {InitThread}

InitThreadAssumption == InitThread \notin Senders
BoundsAssumption == MaxSalts \in Nat /\ MaxLosses \in Nat

VARIABLES
  key, salt,  \* _loxVisuKey, _loxVisuSalt: the number of the answer they are of
  hash,       \* _hashedVisuPassword: the key and salt it is made with
  pc,
  mine,       \* of each thread: the answer it got, and
  made,       \* the hash it made and the one it inserts
  issued,     \* the Miniserver's last answer
  stopped,    \* _stopped
  fresh,      \* init() has not come to the preparation yet
  refused,    \* History: the threads whose command the Miniserver refused,
  gaveUp,     \* that were in a call when the connection was given up,
  crossed,    \* and that were in the preparation with another one
  losses

vars == <<key, salt, hash, pc, mine, made, issued, stopped, fresh, refused,
          gaveUp, crossed, losses>>

Hash == [key : 0 .. MaxSalts, salt : 0 .. MaxSalts]
NoHash == [key |-> 0, salt |-> 0]
Places == {"idle", "asked", "answered", "keyed", "salted", "hashed", "insert", "send"}

\* What a thread does after the preparation.
Then(t) == IF t = InitThread THEN "idle" ELSE "insert"

Busy == {t \in Threads : pc[t] # "idle"}
Goes(t, from, to) == pc[t] = from /\ pc' = [pc EXCEPT ![t] = to]
Record(t, h) == made' = [made EXCEPT ![t] = h]

GiveUp == stopped' = TRUE /\ gaveUp' = gaveUp \cup Busy

-----------------------------------------------------------------------------
(* prepareSecuredCommand() *)

Ask(t) ==
  /\ Goes(t, "idle", "asked")
  /\ IF t = InitThread THEN fresh /\ fresh' = FALSE ELSE UNCHANGED fresh
  /\ crossed' = IF Busy = {} THEN crossed \ {t} ELSE crossed \cup Busy \cup {t}
  /\ gaveUp' = IF stopped THEN gaveUp \cup {t} ELSE gaveUp \ {t}
  /\ refused' = refused \ {t}
  /\ UNCHANGED <<key, salt, hash, mine, made, issued, stopped, losses>>

Answered(t) ==
  /\ Goes(t, "asked", "answered")
  /\ issued < MaxSalts /\ issued' = issued + 1
  /\ mine' = [mine EXCEPT ![t] = issued']
  /\ UNCHANGED <<key, salt, hash, made, stopped, refused, gaveUp, crossed, fresh, losses>>

(* Mutant of Fails: a failure is only printed. *)
FailsQuietly(t) ==
  /\ Goes(t, "asked", Then(t))
  /\ UNCHANGED <<key, salt, hash, mine, made, issued, stopped, refused, gaveUp,
                 crossed, fresh, losses>>

\* No answer, or an error: the connection is given up, and the command is sent
\* all the same.  (The tests of the hash algorithm and of the hash, "< 0" of an
\* unsigned number, are never true.)
Fails(t) ==
  /\ Goes(t, "asked", Then(t))
  /\ GiveUp
  /\ UNCHANGED <<key, salt, hash, mine, made, issued, refused, crossed, fresh, losses>>

SetVisuKey(t) ==
  /\ Goes(t, "answered", "keyed") /\ key' = mine[t]
  /\ UNCHANGED <<salt, hash, mine, made, issued, stopped, refused, gaveUp, crossed, fresh, losses>>

SetVisuSalt(t) ==
  /\ Goes(t, "keyed", "salted") /\ salt' = mine[t] /\ mine' = [mine EXCEPT ![t] = 0]
  /\ UNCHANGED <<key, hash, made, issued, stopped, refused, gaveUp, crossed, fresh, losses>>

(* Mutant of HashVisuPassword: the hash is made before the salt is set. *)
HashVisuPasswordEarly(t) ==
  /\ Goes(t, "keyed", "hashed") /\ Record(t, [key |-> key, salt |-> salt])
  /\ UNCHANGED <<key, salt, hash, mine, issued, stopped, refused, gaveUp, crossed, fresh, losses>>

HashVisuPassword(t) ==
  /\ Goes(t, "salted", "hashed") /\ Record(t, [key |-> key, salt |-> salt])
  /\ UNCHANGED <<key, salt, hash, mine, issued, stopped, refused, gaveUp, crossed, fresh, losses>>

SetHashed(t) ==
  /\ Goes(t, "hashed", Then(t)) /\ hash' = made[t] /\ Record(t, NoHash)
  /\ UNCHANGED <<key, salt, mine, issued, stopped, refused, gaveUp, crossed, fresh, losses>>

-----------------------------------------------------------------------------
(* sendPacket() *)

Insert(t) ==
  /\ Goes(t, "insert", "send") /\ Record(t, hash)
  /\ UNCHANGED <<key, salt, hash, mine, issued, stopped, refused, gaveUp, crossed, fresh, losses>>

\* The Miniserver accepts the hash of the last key and salt it gave.
Accepts(h) == issued > 0 /\ h = [key |-> issued, salt |-> issued]

\* The command arrives, unless the connection is lost; no answer is awaited.
Send(t) ==
  /\ Goes(t, "send", "idle")
  /\ \/ refused' = IF Accepts(made[t]) THEN refused ELSE refused \cup {t}
     \/ stopped /\ UNCHANGED refused
  /\ Record(t, NoHash)
  /\ UNCHANGED <<key, salt, hash, mine, issued, stopped, gaveUp, crossed, fresh, losses>>

-----------------------------------------------------------------------------
Lose ==
  /\ ~stopped /\ losses < MaxLosses /\ losses' = losses + 1
  /\ GiveUp
  /\ UNCHANGED <<key, salt, hash, pc, mine, made, issued, refused, crossed, fresh>>

\* init() of a new connection, after the last one has been joined; what
\* LoxoneEncryption holds stays.
Reconnect ==
  /\ stopped /\ stopped' = FALSE
  /\ pc[InitThread] = "idle" /\ fresh' = TRUE
  /\ UNCHANGED <<key, salt, hash, pc, mine, made, issued, refused, gaveUp, crossed, losses>>

Init ==
  /\ key = 0 /\ salt = 0 /\ hash = NoHash
  /\ pc = [t \in Threads |-> "idle"] /\ mine = [t \in Threads |-> 0]
  /\ made = [t \in Threads |-> NoHash] /\ issued = 0
  /\ stopped = FALSE /\ fresh = TRUE /\ refused = {} /\ gaveUp = {} /\ crossed = {} /\ losses = 0

Next ==
  \/ \E t \in Threads :
       \/ Ask(t) \/ Answered(t) \/ Fails(t) \/ SetVisuKey(t) \/ SetVisuSalt(t)
       \/ HashVisuPassword(t) \/ SetHashed(t) \/ Insert(t) \/ Send(t)
  \/ Lose \/ Reconnect

Spec == Init /\ [][Next]_vars

-----------------------------------------------------------------------------
(* Properties *)

TypeOK ==
  /\ key \in 0 .. issued /\ salt \in 0 .. issued /\ hash \in Hash
  /\ pc \in [Threads -> Places] /\ pc[InitThread] \notin {"insert", "send"}
  /\ mine \in [Threads -> 0 .. issued] /\ made \in [Threads -> Hash]
  /\ issued \in 0 .. MaxSalts /\ stopped \in BOOLEAN /\ fresh \in BOOLEAN
  /\ refused \subseteq Threads /\ gaveUp \subseteq Threads /\ crossed \subseteq Threads
  /\ losses \in 0 .. MaxLosses

\* A command is sent with a hash of the key and the salt of one answer, unless
\* two threads were in the preparation at once, which no lock forbids (lines
\* 403 and 404), or it failed: then the hash is that of an earlier command, and
\* may be one that a race left behind.
OneAnswer ==
  \A t \in Threads \ (crossed \cup gaveUp) :
    pc[t] = "send" => made[t].key = made[t].salt

\* A secured command that the Miniserver refuses is no silent loss: the
\* connection was given up while the command was made, or two threads made
\* commands at once.  Nothing else tells the caller, who gets no error
\* (line 45: the command is sent with whatever hash there is).
NoSilentRefusal == refused \subseteq gaveUp \cup crossed
=============================================================================
