------------------------------ MODULE Encryption ------------------------------
(***************************************************************************)
(* The salt of the encrypted commands and the cipher handle, which all     *)
(* threads use without a lock: sendPacket() on the threads of Homegear,    *)
(* refreshToken(), and listen(), which decrypts what the Miniserver        *)
(* repeats of a command in its answer.  After MaxUses commands a salt is   *)
(* replaced: "nextSalt/<old>/<new>/" instead of "salt/<old>/".             *)
(***************************************************************************)
EXTENDS Naturals, Sequences

CONSTANTS
  Senders,     \* threads in sendPacket()
  Refresher,   \* the thread of refreshToken()
  MaxUses,     \* commands with one salt
  Salts,       \* random numbers
  MaxWire,     \* bound: commands under way when another is sent
  None

Threads == Senders \cup {Refresher}

RefresherAssumption == Refresher \notin Senders /\ None \notin Threads
BoundsAssumption == MaxUses \in Nat /\ MaxWire \in Nat
\* There is always another one.
SaltsAssumption == None \notin Salts /\ \A old, new \in Salts : Salts \ {old, new} # {}

VARIABLES
  salt,        \* _mySalt
  uses,        \* _mySaltUsageCounter
  cipher,      \* _Aes256Handle: "iv", or "chain" after it was used
  pc,          \* the place of each thread in encryptCommand()
  command,     \* and the command it makes
  wire,        \* commands under way
  echo,        \* answers under way
  lpc,         \* the place of the listen thread
  control,     \* what it made of the command in the answer
  server,      \* the salt the Miniserver expects
  stopped,     \* _stopped
  raced,       \* History: two threads were in the encryption at once,
  renewing     \* and refreshToken()'s last command replaced the salt

vars == <<salt, uses, cipher, pc, command, wire, echo, lpc, control, server,
          stopped, raced, renewing>>

Places == {"idle", "read", "salted", "ready", "made", "waits"}
Command == [by : Threads, old : Salts, new : Salts, garbled : BOOLEAN]

Inside(t) == pc[t] \in {"read", "salted", "ready", "made"}
Listens == lpc \in {"encrypted", "ready"}

\* t, or None for the listen thread, takes a step in the encryption.
Overlaps(t) ==
  raced' = (raced \/ (t # None /\ Listens) \/ \E u \in Threads \ {t} : Inside(u))

-----------------------------------------------------------------------------
(* encryptCommand() *)

Goes(t, from, to) == pc[t] = from /\ pc' = [pc EXCEPT ![t] = to] /\ Overlaps(t)

\* getSalt() copies the salt, ...
ReadSalt(t) ==
  /\ Goes(t, "idle", "read")
  /\ IF t = Refresher THEN ~stopped ELSE Len(wire) < MaxWire
  /\ command' = [command EXCEPT ![t] = [by |-> t, old |-> salt, new |-> salt,
                                        garbled |-> FALSE]]
  /\ UNCHANGED <<salt, uses, cipher, wire, echo, lpc, control, server, stopped, renewing>>

\* ... and either counts its use
CountUse(t) ==
  /\ Goes(t, "read", "salted") /\ uses < MaxUses
  /\ uses' = uses + 1
  /\ renewing' = IF t = Refresher THEN FALSE ELSE renewing
  /\ UNCHANGED <<salt, cipher, command, wire, echo, lpc, control, server, stopped>>

(* Mutant of Renew: the first command with the new salt does not announce it. *)
RenewSilently(t) ==
  /\ Goes(t, "read", "salted") /\ uses >= MaxUses
  /\ \E fresh \in Salts \ {salt, command[t].old} :
       /\ salt' = fresh
       /\ command' = [command EXCEPT ![t].old = fresh, ![t].new = fresh]
  /\ uses' = 0
  /\ renewing' = IF t = Refresher THEN TRUE ELSE renewing
  /\ UNCHANGED <<cipher, wire, echo, lpc, control, server, stopped>>

\* or replaces it.
Renew(t) ==
  /\ Goes(t, "read", "salted") /\ uses >= MaxUses
  /\ \E fresh \in Salts \ {salt, command[t].old} :
       /\ salt' = fresh /\ command' = [command EXCEPT ![t].new = fresh]
  /\ uses' = 0
  /\ renewing' = IF t = Refresher THEN TRUE ELSE renewing
  /\ UNCHANGED <<cipher, wire, echo, lpc, control, server, stopped>>

SetIv(t) ==
  /\ Goes(t, "salted", "ready") /\ cipher' = "iv"
  /\ UNCHANGED <<salt, uses, command, wire, echo, lpc, control, server, stopped, renewing>>

\* A handle that was used since its vector was set chains on.
Encrypt(t) ==
  /\ Goes(t, "ready", "made")
  /\ command' = [command EXCEPT ![t].garbled = (cipher # "iv")]
  /\ cipher' = "chain"
  /\ UNCHANGED <<salt, uses, wire, echo, lpc, control, server, stopped, renewing>>

Send(t) ==
  /\ Goes(t, "made", IF t = Refresher THEN "waits" ELSE "idle")
  /\ wire' = IF stopped THEN wire ELSE Append(wire, command[t])
  /\ UNCHANGED <<salt, uses, cipher, command, echo, lpc, control, server, stopped, renewing>>

EncryptCommand(t) ==
  ReadSalt(t) \/ CountUse(t) \/ Renew(t) \/ SetIv(t) \/ Encrypt(t) \/ Send(t)

-----------------------------------------------------------------------------
(* The Miniserver *)

\* A command is understood if it has the salt of the one before.  Its answer
\* may repeat it as it was sent.
Receive ==
  /\ wire # <<>> /\ wire' = Tail(wire)
  /\ LET c == Head(wire) IN
       IF ~c.garbled /\ server \in {None, c.old}
       THEN /\ server' = c.new
            /\ IF c.by = Refresher
               THEN \E encrypted \in BOOLEAN :
                      echo' = Append(echo, [renews |-> c.old # c.new,
                                            encrypted |-> encrypted])
               ELSE UNCHANGED echo
       ELSE UNCHANGED <<server, echo>>
  /\ UNCHANGED <<salt, uses, cipher, pc, command, lpc, control, stopped, raced, renewing>>

-----------------------------------------------------------------------------
(* decryptCommand() in processWsPacket() *)

TakeAnswer ==
  /\ lpc = "read" /\ echo # <<>> /\ ~stopped
  /\ lpc' = IF Head(echo).encrypted THEN "encrypted" ELSE "deliver"
  /\ control' = IF Head(echo).encrypted THEN "none" ELSE "command"
  /\ UNCHANGED <<salt, uses, cipher, pc, command, wire, echo, server, stopped, raced, renewing>>

ListenSetsIv ==
  /\ lpc = "encrypted" /\ lpc' = "ready" /\ cipher' = "iv" /\ Overlaps(None)
  /\ UNCHANGED <<salt, uses, pc, command, wire, echo, control, server, stopped, renewing>>

(* Mutant of RemoveSalt: every salt is taken for a new one. *)
RemoveSaltTwice(renews) == "rest"

\* Of "nextSalt/<old>/<new>/" the first two parts are removed, and then as
\* many bytes as "salt/<old>/" has: five of them are the command's.
RemoveSalt(renews) == IF renews THEN "rest" ELSE "command"

Decrypt ==
  /\ lpc = "ready" /\ lpc' = "deliver" /\ Overlaps(None)
  /\ control' = IF cipher = "iv" THEN RemoveSalt(Head(echo).renews) ELSE "garbled"
  /\ cipher' = "chain"
  /\ UNCHANGED <<salt, uses, pc, command, wire, echo, server, stopped, renewing>>

\* The answer finds the request if its command is the one that was sent.
Deliver ==
  /\ lpc = "deliver" /\ lpc' = "read" /\ control' = "none"
  /\ echo' = IF echo = <<>> THEN echo ELSE Tail(echo)
  /\ pc' = IF control = "command" /\ pc[Refresher] = "waits"
           THEN [pc EXCEPT ![Refresher] = "idle"] ELSE pc
  /\ UNCHANGED <<salt, uses, cipher, command, wire, server, stopped, raced, renewing>>

Listen == TakeAnswer \/ ListenSetsIv \/ Decrypt \/ Deliver

-----------------------------------------------------------------------------
(* The end of a connection *)

Unanswered ==
  /\ pc[Refresher] = "waits"
  /\ \/ stopped
     \/ /\ echo = <<>> /\ lpc = "read"
        /\ \A i \in DOMAIN wire : wire[i].by # Refresher

(* Mutant of TimesOut: refreshToken() tries again an hour later. *)
TimesOutQuietly ==
  /\ Unanswered
  /\ pc' = [pc EXCEPT ![Refresher] = "idle"]
  /\ UNCHANGED <<salt, uses, cipher, command, wire, echo, lpc, control, server, stopped, raced, renewing>>

\* refreshToken() gets no answer and gives the connection up.
TimesOut ==
  /\ Unanswered
  /\ pc' = [pc EXCEPT ![Refresher] = "idle"] /\ stopped' = TRUE
  /\ UNCHANGED <<salt, uses, cipher, command, wire, echo, lpc, control, server, raced, renewing>>

Lose ==
  /\ ~stopped /\ stopped' = TRUE
  /\ UNCHANGED <<salt, uses, cipher, pc, command, wire, echo, lpc, control, server, raced, renewing>>

\* The key is exchanged anew; the Miniserver takes the first salt it is sent.
Reconnect ==
  /\ stopped /\ pc[Refresher] = "idle" /\ lpc = "read"
  /\ stopped' = FALSE /\ server' = None /\ wire' = <<>> /\ echo' = <<>>
  /\ raced' = \E t \in Threads : Inside(t)
  /\ UNCHANGED <<salt, uses, cipher, pc, command, lpc, control, renewing>>

-----------------------------------------------------------------------------
Init ==
  /\ salt \in Salts /\ uses = 0 /\ cipher = "iv"
  /\ pc = [t \in Threads |-> "idle"]
  /\ command = [t \in Threads |-> [by |-> t, old |-> salt, new |-> salt,
                                   garbled |-> FALSE]]
  /\ wire = <<>> /\ echo = <<>> /\ lpc = "read" /\ control = "none"
  /\ server = None /\ stopped = FALSE /\ raced = FALSE /\ renewing = FALSE

Next ==
  \/ \E t \in Threads : EncryptCommand(t)
  \/ Receive \/ Listen \/ TimesOut \/ Lose \/ Reconnect

\* refreshToken() asks every hour, sendPacket() when it is called.
Fairness ==
  /\ WF_vars(EncryptCommand(Refresher))
  /\ \A t \in Senders : WF_vars(pc[t] # "idle" /\ EncryptCommand(t))
  /\ WF_vars(Receive) /\ WF_vars(Listen) /\ WF_vars(TimesOut) /\ WF_vars(Reconnect)

Spec == Init /\ [][Next]_vars /\ Fairness

-----------------------------------------------------------------------------
(* Properties *)

TypeOK ==
  /\ salt \in Salts /\ uses \in 0..MaxUses /\ cipher \in {"iv", "chain"}
  /\ pc \in [Threads -> Places] /\ command \in [Threads -> Command]
  /\ wire \in Seq(Command) /\ server \in Salts \cup {None}
  /\ lpc \in {"read", "encrypted", "ready", "deliver"}
  /\ control \in {"none", "command", "rest", "garbled"}
  /\ echo \in Seq([renews : BOOLEAN, encrypted : BOOLEAN])
  /\ stopped \in BOOLEAN /\ raced \in BOOLEAN /\ renewing \in BOOLEAN
  /\ (lpc # "read" => echo # <<>>)

Quiet == wire = <<>> /\ ~stopped /\ \A t \in Threads : ~Inside(t)

\* The Miniserver expects the salt that the next command will have, through
\* any number of renewals and reconnections (LoxoneEncryption.cpp:66), unless two threads have
\* been in the encryption at once, which no lock forbids (Miniserver.cpp:50,
\* 435, 703).
InStep == Quiet /\ ~raced => server \in {None, salt}

\* Without such a race the only answer that refreshToken() does not get is
\* that of a command that renewed the salt (LoxoneEncryption.cpp:79).
AnswerLostOnly == Unanswered /\ ~stopped /\ ~raced => renewing

Racing == \E t, u \in Threads : t # u /\ Inside(t) /\ Inside(u)

\* What a race has put out of step is in step again, if races do not go on for
\* ever: in the end refreshToken() gets no answer and gives the connection up.
Resynced == server \in {None, salt} \/ Racing
Resyncs == []<>Resynced
=============================================================================
