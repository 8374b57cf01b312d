-------------------------- MODULE EncryptionProofs --------------------------
(***************************************************************************)
(* Proofs about what the threads have in common of LoxoneEncryption, for   *)
(* any threads, salts, keys, connections and losses: an invariant of each  *)
(* of the three modules that MCEncryption composes, and of all of them.    *)
(***************************************************************************)
EXTENDS MCEncryption, Sequences, SequenceTheorems, TLAPS

-----------------------------------------------------------------------------
(* Sequences *)

LEMMA Tails ==
  ASSUME NEW S, NEW s \in Seq(S), s # <<>>
  PROVE  /\ Len(s) \in Nat \ {0} /\ Head(s) = s[1] /\ s[1] \in S
         /\ Tail(s) \in Seq(S) /\ Len(Tail(s)) = Len(s) - 1
         /\ \A i \in 1 .. Len(s) - 1 : Tail(s)[i] = s[i + 1]
         /\ Tail(s) = <<>> <=> Len(s) = 1
<1>1. /\ Head(s) \in S /\ Tail(s) \in Seq(S) /\ Len(Tail(s)) = Len(s) - 1
      /\ \A i \in 1..Len(Tail(s)) : Tail(s)[i] = s[i + 1]
  BY HeadTailProperties
<1>2. Len(s) \in Nat \ {0} /\ Len(<<>>) = 0
  BY EmptySeq
<1>3. Head(s) = s[1]
  BY HeadTailProperties
<1>4. Tail(s) = <<>> <=> Len(s) = 1
  <2>1. Tail(s) = <<>> <=> Len(Tail(s)) = 0
    BY <1>1, EmptySeq
  <2>2. QED
    BY <1>1, <1>2, <2>1
<1>5. QED
  BY <1>1, <1>2, <1>3, <1>4

LEMMA Appended ==
  ASSUME NEW S, NEW s \in Seq(S), NEW x \in S
  PROVE  /\ Append(s, x) \in Seq(S) /\ Append(s, x) # <<>>
         /\ Len(Append(s, x)) = Len(s) + 1 /\ Len(s) \in Nat
         /\ DOMAIN s = 1 .. Len(s) /\ DOMAIN Append(s, x) = 1 .. Len(s) + 1
         /\ \A i \in 1 .. Len(s) : Append(s, x)[i] = s[i]
         /\ Append(s, x)[Len(s) + 1] = x
         /\ s = <<>> <=> Len(s) = 0
BY EmptySeq

-----------------------------------------------------------------------------
(* Encryption: the inductive invariant.  On a calm connection no two       *)
(* threads have been in the encryption at once.                            *)

Calm == ~raced /\ ~stopped

OwnInv == \A t \in Salt!Threads : command[t].by = t

AloneInv == \A t, u \in Salt!Threads : Salt!Inside(t) /\ Salt!Inside(u) => t = u

(* Whoever is about to use the handle has set its vector, ... *)
CipherInv ==
  /\ \A t \in Salt!Threads : pc[t] = "ready" => cipher = "iv"
  /\ lpc = "ready" => cipher = "iv"

(* ... so no command is garbled. *)
PlainInv ==
  /\ \A t \in Salt!Threads : Salt!Inside(t) => ~command[t].garbled
  /\ \A i \in DOMAIN wire : ~wire[i].garbled

(* The salt the Miniserver will expect after all that is under way. *)
Last == IF wire = <<>> THEN server ELSE wire[Len(wire)].new

(* Every command has the salt that the one before leaves. *)
ChainInv ==
  /\ wire # <<>> => server \in {None, wire[1].old}
  /\ \A i \in 1 .. Len(wire) - 1 : wire[i + 1].old = wire[i].new
  /\ (\A t \in Salt!Threads : ~Salt!Inside(t)) => Last \in {None, salt}
  /\ \A t \in Salt!Threads : Salt!Inside(t) =>
       /\ Last \in {None, command[t].old} /\ command[t].new = salt
       /\ pc[t] = "read" => command[t].old = salt

Asks(i) == wire[i].by = Refresher

(* refreshToken() waits for one answer: that of a command under way, or one
   that listen() has got. *)
OneAsked ==
  /\ pc[Refresher] # "waits" =>
       lpc = "read" /\ echo = <<>> /\ \A i \in DOMAIN wire : ~Asks(i)
  /\ echo # <<>> => Len(echo) = 1 /\ \A i \in DOMAIN wire : ~Asks(i)
  /\ \A i, j \in DOMAIN wire : Asks(i) /\ Asks(j) => i = j

(* One of a command that keeps its salt does not get lost. *)
AnswerInv ==
  /\ pc[Refresher] \in {"salted", "ready", "made"} =>
       renewing \/ command[Refresher].old = command[Refresher].new
  /\ pc[Refresher] = "waits" /\ ~renewing =>
       /\ echo # <<>> \/ \E i \in DOMAIN wire : Asks(i)
       /\ \A i \in DOMAIN wire : Asks(i) => wire[i].old = wire[i].new
       /\ echo # <<>> => ~Head(echo).renews
       /\ lpc = "deliver" => control = "command"

CalmInv ==
  Calm => AloneInv /\ CipherInv /\ PlainInv /\ ChainInv /\ OneAsked /\ AnswerInv

SaltInv == Salt!TypeOK /\ OwnInv /\ CalmInv

-----------------------------------------------------------------------------
(* Encryption: types *)

LEMMA SaltTypes ==
  ASSUME Salt!RefresherAssumption, Salt!BoundsAssumption, Salt!SaltsAssumption
  PROVE  Salt!TypeOK /\ [Salt!Next]_Salt!vars => Salt!TypeOK'
<1> SUFFICES ASSUME Salt!TypeOK, [Salt!Next]_Salt!vars
             PROVE  Salt!TypeOK'
  OBVIOUS
<1> USE DEF Salt!RefresherAssumption, Salt!BoundsAssumption, Salt!SaltsAssumption,
        Salt!Places
<1>1. ASSUME NEW t \in Salt!Threads, Salt!ReadSalt(t)
      PROVE  Salt!TypeOK'
  <2>1. pc' \in [Salt!Threads -> Salt!Places]
    BY <1>1 DEF Salt!ReadSalt, Salt!Goes, Salt!TypeOK, Salt!Places
  <2>2. raced' \in BOOLEAN
    BY <1>1 DEF Salt!ReadSalt, Salt!Goes, Salt!Overlaps
  <2>3. command' \in [Salt!Threads -> Salt!Command]
    <3>1. [by |-> t, old |-> salt, new |-> salt, garbled |-> FALSE] \in Salt!Command
      BY DEF Salt!TypeOK, Salt!Command
    <3>2. QED
      BY <1>1, <3>1 DEF Salt!ReadSalt, Salt!TypeOK
  <2>4. QED
    BY <1>1, <2>1, <2>2, <2>3 DEF Salt!ReadSalt, Salt!TypeOK
<1>2. ASSUME NEW t \in Salt!Threads, Salt!CountUse(t)
      PROVE  Salt!TypeOK'
  <2>1. pc' \in [Salt!Threads -> Salt!Places]
    BY <1>2 DEF Salt!CountUse, Salt!Goes, Salt!TypeOK, Salt!Places
  <2>2. raced' \in BOOLEAN
    BY <1>2 DEF Salt!CountUse, Salt!Goes, Salt!Overlaps
  <2>3. UNCHANGED command
    BY <1>2 DEF Salt!CountUse
  <2>4. uses' \in 0 .. MaxUses
    BY <1>2 DEF Salt!CountUse, Salt!TypeOK
  <2>5. renewing' \in BOOLEAN
    BY <1>2 DEF Salt!CountUse, Salt!TypeOK
  <2>6. UNCHANGED <<salt, cipher, wire, echo, lpc, control, server, stopped>>
    BY <1>2 DEF Salt!CountUse
  <2>7. QED
    BY <2>1, <2>2, <2>3, <2>4, <2>5, <2>6 DEF Salt!TypeOK
<1>3. ASSUME NEW t \in Salt!Threads, Salt!Renew(t)
      PROVE  Salt!TypeOK'
  <2>1. pc' \in [Salt!Threads -> Salt!Places]
    BY <1>3 DEF Salt!Renew, Salt!Goes, Salt!TypeOK, Salt!Places
  <2>2. raced' \in BOOLEAN
    BY <1>3 DEF Salt!Renew, Salt!Goes, Salt!Overlaps
  <2>3. command' \in [Salt!Threads -> Salt!Command]
    <3>1. PICK other \in Salts : command' = [command EXCEPT ![t].new = other]
      BY <1>3 DEF Salt!Renew
    <3>2. command[t] \in Salt!Command
      BY DEF Salt!TypeOK
    <3>3. [command[t] EXCEPT !.new = other] \in Salt!Command
      BY <3>2 DEF Salt!Command
    <3>4. QED
      BY <3>1, <3>3 DEF Salt!TypeOK
  <2>4. uses' \in 0 .. MaxUses /\ salt' \in Salts
    BY <1>3 DEF Salt!Renew, Salt!TypeOK
  <2>5. renewing' \in BOOLEAN
    BY <1>3 DEF Salt!Renew, Salt!TypeOK
  <2>6. UNCHANGED <<cipher, wire, echo, lpc, control, server, stopped>>
    BY <1>3 DEF Salt!Renew
  <2>7. QED
    BY <2>1, <2>2, <2>3, <2>4, <2>5, <2>6 DEF Salt!TypeOK
<1>4. ASSUME NEW t \in Salt!Threads, Salt!SetIv(t)
      PROVE  Salt!TypeOK'
  <2>1. pc' \in [Salt!Threads -> Salt!Places]
    BY <1>4 DEF Salt!SetIv, Salt!Goes, Salt!TypeOK, Salt!Places
  <2>2. raced' \in BOOLEAN
    BY <1>4 DEF Salt!SetIv, Salt!Goes, Salt!Overlaps
  <2>3. UNCHANGED command
    BY <1>4 DEF Salt!SetIv
  <2>4. QED
    BY <1>4, <2>1, <2>2, <2>3 DEF Salt!SetIv, Salt!TypeOK
<1>5. ASSUME NEW t \in Salt!Threads, Salt!Encrypt(t)
      PROVE  Salt!TypeOK'
  <2>1. pc' \in [Salt!Threads -> Salt!Places]
    BY <1>5 DEF Salt!Encrypt, Salt!Goes, Salt!TypeOK, Salt!Places
  <2>2. raced' \in BOOLEAN
    BY <1>5 DEF Salt!Encrypt, Salt!Goes, Salt!Overlaps
  <2>3. command' \in [Salt!Threads -> Salt!Command]
    <3>1. command' = [command EXCEPT ![t] = [command[t] EXCEPT !.garbled = (cipher # "iv")]]
      BY <1>5 DEF Salt!Encrypt
    <3>2. command[t] \in Salt!Command /\ (cipher # "iv") \in BOOLEAN
      BY DEF Salt!TypeOK
    <3>3. [command[t] EXCEPT !.garbled = (cipher # "iv")] \in Salt!Command
      BY <3>2 DEF Salt!Command
    <3>4. QED
      BY <3>1, <3>3 DEF Salt!TypeOK
  <2>4. QED
    BY <1>5, <2>1, <2>2, <2>3 DEF Salt!Encrypt, Salt!TypeOK
<1>6. ASSUME NEW t \in Salt!Threads, Salt!Send(t)
      PROVE  Salt!TypeOK'
  <2>1. pc' \in [Salt!Threads -> Salt!Places]
    BY <1>6 DEF Salt!Send, Salt!Goes, Salt!TypeOK, Salt!Places
  <2>2. raced' \in BOOLEAN
    BY <1>6 DEF Salt!Send, Salt!Goes, Salt!Overlaps
  <2>3. UNCHANGED command
    BY <1>6 DEF Salt!Send
  <2>4. wire' \in Seq(Salt!Command)
    <3>1. command[t] \in Salt!Command /\ wire \in Seq(Salt!Command)
      BY DEF Salt!TypeOK
    <3>2. wire' \in {wire, Append(wire, command[t])}
      BY <1>6 DEF Salt!Send
    <3>3. QED
      BY <3>1, <3>2, Appended
  <2>5. QED
    BY <1>6, <2>1, <2>2, <2>3, <2>4 DEF Salt!Send, Salt!TypeOK
<1>7. CASE Salt!Receive
  <2>1. /\ wire \in Seq(Salt!Command) /\ wire # <<>> /\ wire' = Tail(wire)
        /\ Head(wire) = wire[1]
        /\ wire[1] \in Salt!Command /\ wire' \in Seq(Salt!Command)
    BY <1>7, Tails DEF Salt!Receive, Salt!TypeOK
  <2>2. server' \in Salts \cup {None}
    BY <1>7, <2>1 DEF Salt!Receive, Salt!TypeOK, Salt!Command
  <2>3. /\ echo' \in Seq([renews : BOOLEAN, encrypted : BOOLEAN])
        /\ echo # <<>> => echo' # <<>>
    <3>1. CASE UNCHANGED echo
      BY <3>1 DEF Salt!TypeOK
    <3>2. CASE \E encrypted \in BOOLEAN :
                 echo' = Append(echo, [renews |-> Head(wire).old # Head(wire).new,
                                       encrypted |-> encrypted])
      <4>1. PICK encrypted \in BOOLEAN :
              echo' = Append(echo, [renews |-> Head(wire).old # Head(wire).new,
                                    encrypted |-> encrypted])
        BY <3>2
      <4>2. [renews |-> Head(wire).old # Head(wire).new, encrypted |-> encrypted]
              \in [renews : BOOLEAN, encrypted : BOOLEAN]
        OBVIOUS
      <4>3. echo \in Seq([renews : BOOLEAN, encrypted : BOOLEAN])
        BY DEF Salt!TypeOK
      <4>4. QED
        BY <4>1, <4>2, <4>3, Appended
    <3>3. QED
      BY <1>7, <3>1, <3>2 DEF Salt!Receive
  <2>4. QED
    BY <1>7, <2>1, <2>2, <2>3 DEF Salt!Receive, Salt!TypeOK
<1>8. CASE Salt!TakeAnswer
  BY <1>8 DEF Salt!TakeAnswer, Salt!TypeOK
<1>9. CASE Salt!ListenSetsIv
  <2>1. raced' \in BOOLEAN
    BY <1>9 DEF Salt!ListenSetsIv, Salt!Overlaps
  <2>2. QED
    BY <1>9, <2>1 DEF Salt!ListenSetsIv, Salt!TypeOK
<1>10. CASE Salt!Decrypt
  <2>1. raced' \in BOOLEAN
    BY <1>10 DEF Salt!Decrypt, Salt!Overlaps
  <2>2. control' \in {"none", "command", "rest", "garbled"}
    BY <1>10 DEF Salt!Decrypt, Salt!RemoveSalt
  <2>3. QED
    BY <1>10, <2>1, <2>2 DEF Salt!Decrypt, Salt!TypeOK
<1>11. CASE Salt!Deliver
  <2>1. pc' \in [Salt!Threads -> Salt!Places]
    BY <1>11 DEF Salt!Deliver, Salt!TypeOK, Salt!Places
  <2>2. echo' \in Seq([renews : BOOLEAN, encrypted : BOOLEAN])
    BY <1>11, Tails DEF Salt!Deliver, Salt!TypeOK
  <2>3. QED
    BY <1>11, <2>1, <2>2 DEF Salt!Deliver, Salt!TypeOK
<1>12. CASE Salt!TimesOut
  BY <1>12 DEF Salt!TimesOut, Salt!Unanswered, Salt!TypeOK
<1>13. CASE Salt!Lose
  BY <1>13 DEF Salt!Lose, Salt!TypeOK
<1>14. CASE Salt!Reconnect
  <2>1. raced' \in BOOLEAN
    BY <1>14 DEF Salt!Reconnect
  <2>2. QED
    BY <1>14, <2>1, EmptySeq DEF Salt!Reconnect, Salt!TypeOK
<1>15. CASE UNCHANGED Salt!vars
  BY <1>15 DEF Salt!vars, Salt!TypeOK
<1>16. QED
  BY <1>1, <1>2, <1>3, <1>4, <1>5, <1>6, <1>7, <1>8, <1>9, <1>10, <1>11, <1>12,
     <1>13, <1>14, <1>15 DEF Salt!Next, Salt!EncryptCommand, Salt!Listen

LEMMA OwnStep ==
  ASSUME Salt!RefresherAssumption, Salt!BoundsAssumption, Salt!SaltsAssumption
  PROVE  Salt!TypeOK /\ OwnInv /\ [Salt!Next]_Salt!vars => OwnInv'
<1> SUFFICES ASSUME Salt!TypeOK, OwnInv, [Salt!Next]_Salt!vars
             PROVE  OwnInv'
  OBVIOUS
<1>1. ASSUME NEW t \in Salt!Threads, Salt!ReadSalt(t)
      PROVE  OwnInv'
  BY <1>1 DEF Salt!ReadSalt, Salt!Goes, Salt!TypeOK, OwnInv
<1>2. ASSUME NEW t \in Salt!Threads, Salt!CountUse(t)
      PROVE  OwnInv'
  BY <1>2 DEF Salt!CountUse, Salt!Goes, Salt!TypeOK, OwnInv
<1>3. ASSUME NEW t \in Salt!Threads, Salt!Renew(t)
      PROVE  OwnInv'
  BY <1>3 DEF Salt!Renew, Salt!Goes, Salt!TypeOK, OwnInv
<1>4. ASSUME NEW t \in Salt!Threads, Salt!SetIv(t)
      PROVE  OwnInv'
  BY <1>4 DEF Salt!SetIv, Salt!Goes, Salt!TypeOK, OwnInv
<1>5. ASSUME NEW t \in Salt!Threads, Salt!Encrypt(t)
      PROVE  OwnInv'
  BY <1>5 DEF Salt!Encrypt, Salt!Goes, Salt!TypeOK, OwnInv
<1>6. ASSUME NEW t \in Salt!Threads, Salt!Send(t)
      PROVE  OwnInv'
  BY <1>6 DEF Salt!Send, Salt!Goes, Salt!TypeOK, OwnInv
<1>7. CASE Salt!Receive
  BY <1>7 DEF Salt!Receive, Salt!TypeOK, OwnInv
<1>8. CASE Salt!TakeAnswer
  BY <1>8 DEF Salt!TakeAnswer, Salt!TypeOK, OwnInv
<1>9. CASE Salt!ListenSetsIv
  BY <1>9 DEF Salt!ListenSetsIv, Salt!TypeOK, OwnInv
<1>10. CASE Salt!Decrypt
  BY <1>10 DEF Salt!Decrypt, Salt!TypeOK, OwnInv
<1>11. CASE Salt!Deliver
  BY <1>11 DEF Salt!Deliver, Salt!TypeOK, OwnInv
<1>12. CASE Salt!TimesOut
  BY <1>12 DEF Salt!TimesOut, Salt!Unanswered, Salt!TypeOK, OwnInv
<1>13. CASE Salt!Lose
  BY <1>13 DEF Salt!Lose, Salt!TypeOK, OwnInv
<1>14. CASE Salt!Reconnect
  BY <1>14 DEF Salt!Reconnect, Salt!TypeOK, OwnInv
<1>15. CASE UNCHANGED Salt!vars
  BY <1>15 DEF Salt!vars, Salt!TypeOK, OwnInv
<1>16. QED
  BY <1>1, <1>2, <1>3, <1>4, <1>5, <1>6, <1>7, <1>8, <1>9, <1>10, <1>11, <1>12,
     <1>13, <1>14, <1>15 DEF Salt!Next, Salt!EncryptCommand, Salt!Listen

-----------------------------------------------------------------------------
(* A step on a calm connection *)

LEMMA Undisturbed ==
  ASSUME Salt!RefresherAssumption, Salt!TypeOK, NEW t \in Salt!Threads,
         Salt!EncryptCommand(t), Calm'
  PROVE  /\ Calm /\ lpc \notin {"encrypted", "ready"}
         /\ \A u \in Salt!Threads \ {t} : ~Salt!Inside(u)
<1>1. Salt!Overlaps(t) /\ UNCHANGED stopped
  BY DEF Salt!EncryptCommand, Salt!ReadSalt, Salt!CountUse, Salt!Renew,
     Salt!SetIv, Salt!Encrypt, Salt!Send, Salt!Goes
<1>2. QED
  BY <1>1 DEF Calm, Salt!Overlaps, Salt!Listens, Salt!RefresherAssumption,
     Salt!TypeOK

LEMMA CalmStep ==
  ASSUME Salt!RefresherAssumption, Salt!BoundsAssumption, Salt!SaltsAssumption
  PROVE  Salt!TypeOK /\ OwnInv /\ CalmInv /\ [Salt!Next]_Salt!vars => CalmInv'
<1> SUFFICES ASSUME Salt!TypeOK, OwnInv, CalmInv, [Salt!Next]_Salt!vars, Calm'
             PROVE  CalmInv'
  BY DEF CalmInv
<1> USE DEF Salt!RefresherAssumption, Salt!Threads, Salt!Inside
<1>1. ASSUME NEW t \in Salt!Threads, Salt!ReadSalt(t)
      PROVE  CalmInv'
  <2>1. /\ Calm /\ lpc \notin {"encrypted", "ready"}
        /\ \A u \in Salt!Threads \ {t} : ~Salt!Inside(u)
    BY <1>1, Undisturbed DEF Salt!EncryptCommand
  <2>2. AloneInv /\ CipherInv /\ PlainInv /\ ChainInv /\ OneAsked /\ AnswerInv
    BY <2>1 DEF CalmInv
  <2>3. AloneInv'
    BY <1>1, <2>1, <2>2 DEF Salt!ReadSalt, Salt!Goes, Salt!TypeOK, AloneInv
  <2>4. CipherInv'
    BY <1>1, <2>1, <2>2 DEF Salt!ReadSalt, Salt!Goes, Salt!TypeOK, CipherInv
  <2>5. PlainInv'
    BY <1>1, <2>1, <2>2 DEF Salt!ReadSalt, Salt!Goes, Salt!TypeOK, PlainInv
  <2>6. ChainInv'
    BY <1>1, <2>1, <2>2 DEF Salt!ReadSalt, Salt!Goes, Salt!TypeOK, ChainInv,
       Last
  <2>7. OneAsked'
    BY <1>1, <2>1, <2>2 DEF Salt!ReadSalt, Salt!Goes, Salt!TypeOK, OneAsked,
       Asks
  <2>8. AnswerInv'
    BY <1>1, <2>1, <2>2 DEF Salt!ReadSalt, Salt!Goes, Salt!TypeOK, AnswerInv,
       OneAsked, Asks
  <2>9. QED
    BY <2>3, <2>4, <2>5, <2>6, <2>7, <2>8 DEF CalmInv
<1>2. ASSUME NEW t \in Salt!Threads, Salt!CountUse(t)
      PROVE  CalmInv'
  <2>1. /\ Calm /\ lpc \notin {"encrypted", "ready"}
        /\ \A u \in Salt!Threads \ {t} : ~Salt!Inside(u)
    BY <1>2, Undisturbed DEF Salt!EncryptCommand
  <2>2. AloneInv /\ CipherInv /\ PlainInv /\ ChainInv /\ OneAsked /\ AnswerInv
    BY <2>1 DEF CalmInv
  <2>3. AloneInv'
    BY <1>2, <2>1, <2>2 DEF Salt!CountUse, Salt!Goes, Salt!TypeOK, AloneInv
  <2>4. CipherInv'
    BY <1>2, <2>1, <2>2 DEF Salt!CountUse, Salt!Goes, Salt!TypeOK, CipherInv
  <2>5. PlainInv'
    BY <1>2, <2>1, <2>2 DEF Salt!CountUse, Salt!Goes, Salt!TypeOK, PlainInv
  <2>6. ChainInv'
    BY <1>2, <2>1, <2>2 DEF Salt!CountUse, Salt!Goes, Salt!TypeOK, ChainInv,
       Last
  <2>7. OneAsked'
    BY <1>2, <2>1, <2>2 DEF Salt!CountUse, Salt!Goes, Salt!TypeOK, OneAsked,
       Asks
  <2>8. AnswerInv'
    BY <1>2, <2>1, <2>2 DEF Salt!CountUse, Salt!Goes, Salt!TypeOK, AnswerInv,
       OneAsked, ChainInv, Asks
  <2>9. QED
    BY <2>3, <2>4, <2>5, <2>6, <2>7, <2>8 DEF CalmInv
<1>3. ASSUME NEW t \in Salt!Threads, Salt!Renew(t)
      PROVE  CalmInv'
  <2>1. /\ Calm /\ lpc \notin {"encrypted", "ready"}
        /\ \A u \in Salt!Threads \ {t} : ~Salt!Inside(u)
    BY <1>3, Undisturbed DEF Salt!EncryptCommand
  <2>2. AloneInv /\ CipherInv /\ PlainInv /\ ChainInv /\ OneAsked /\ AnswerInv
    BY <2>1 DEF CalmInv
  <2>3. AloneInv'
    BY <1>3, <2>1, <2>2 DEF Salt!Renew, Salt!Goes, Salt!TypeOK, AloneInv
  <2>4. CipherInv'
    BY <1>3, <2>1, <2>2 DEF Salt!Renew, Salt!Goes, Salt!TypeOK, CipherInv
  <2>5. PlainInv'
    BY <1>3, <2>1, <2>2 DEF Salt!Renew, Salt!Goes, Salt!TypeOK, PlainInv
  <2>6. ChainInv'
    BY <1>3, <2>1, <2>2 DEF Salt!Renew, Salt!Goes, Salt!TypeOK, ChainInv, Last
  <2>7. OneAsked'
    BY <1>3, <2>1, <2>2 DEF Salt!Renew, Salt!Goes, Salt!TypeOK, OneAsked, Asks
  <2>8. AnswerInv'
    BY <1>3, <2>1, <2>2 DEF Salt!Renew, Salt!Goes, Salt!TypeOK, AnswerInv,
       OneAsked, Asks
  <2>9. QED
    BY <2>3, <2>4, <2>5, <2>6, <2>7, <2>8 DEF CalmInv
<1>4. ASSUME NEW t \in Salt!Threads, Salt!SetIv(t)
      PROVE  CalmInv'
  <2>1. /\ Calm /\ lpc \notin {"encrypted", "ready"}
        /\ \A u \in Salt!Threads \ {t} : ~Salt!Inside(u)
    BY <1>4, Undisturbed DEF Salt!EncryptCommand
  <2>2. AloneInv /\ CipherInv /\ PlainInv /\ ChainInv /\ OneAsked /\ AnswerInv
    BY <2>1 DEF CalmInv
  <2>3. AloneInv'
    BY <1>4, <2>1, <2>2 DEF Salt!SetIv, Salt!Goes, Salt!TypeOK, AloneInv
  <2>4. CipherInv'
    BY <1>4, <2>1, <2>2 DEF Salt!SetIv, Salt!Goes, Salt!TypeOK, CipherInv
  <2>5. PlainInv'
    BY <1>4, <2>1, <2>2 DEF Salt!SetIv, Salt!Goes, Salt!TypeOK, PlainInv
  <2>6. ChainInv'
    BY <1>4, <2>1, <2>2 DEF Salt!SetIv, Salt!Goes, Salt!TypeOK, ChainInv, Last
  <2>7. OneAsked'
    BY <1>4, <2>1, <2>2 DEF Salt!SetIv, Salt!Goes, Salt!TypeOK, OneAsked, Asks
  <2>8. AnswerInv'
    BY <1>4, <2>1, <2>2 DEF Salt!SetIv, Salt!Goes, Salt!TypeOK, AnswerInv,
       OneAsked, Asks
  <2>9. QED
    BY <2>3, <2>4, <2>5, <2>6, <2>7, <2>8 DEF CalmInv
<1>5. ASSUME NEW t \in Salt!Threads, Salt!Encrypt(t)
      PROVE  CalmInv'
  <2>1. /\ Calm /\ lpc \notin {"encrypted", "ready"}
        /\ \A u \in Salt!Threads \ {t} : ~Salt!Inside(u)
    BY <1>5, Undisturbed DEF Salt!EncryptCommand
  <2>2. AloneInv /\ CipherInv /\ PlainInv /\ ChainInv /\ OneAsked /\ AnswerInv
    BY <2>1 DEF CalmInv
  <2>3. AloneInv'
    BY <1>5, <2>1, <2>2 DEF Salt!Encrypt, Salt!Goes, Salt!TypeOK, AloneInv
  <2>4. CipherInv'
    BY <1>5, <2>1, <2>2 DEF Salt!Encrypt, Salt!Goes, Salt!TypeOK, CipherInv
  <2>5. PlainInv'
    <3>1. /\ command' = [command EXCEPT ![t].garbled = (cipher # "iv")] /\ cipher = "iv"
          /\ UNCHANGED wire /\ pc' = [pc EXCEPT ![t] = "made"]
      BY <1>5, <2>2 DEF Salt!Encrypt, Salt!Goes, CipherInv
    <3>2. ~command'[t].garbled /\ \A u \in Salt!Threads \ {t} : command'[u] = command[u]
      BY <3>1 DEF Salt!TypeOK, Salt!Command
    <3>3. \A u \in Salt!Threads \ {t} : ~Salt!Inside(u)'
      BY <2>1, <3>1 DEF Salt!TypeOK
    <3>4. QED
      BY <2>2, <3>1, <3>2, <3>3 DEF PlainInv
  <2>6. ChainInv'
    BY <1>5, <2>1, <2>2 DEF Salt!Encrypt, Salt!Goes, Salt!TypeOK, ChainInv, Last
  <2>7. OneAsked'
    BY <1>5, <2>1, <2>2 DEF Salt!Encrypt, Salt!Goes, Salt!TypeOK, OneAsked, Asks
  <2>8. AnswerInv'
    BY <1>5, <2>1, <2>2 DEF Salt!Encrypt, Salt!Goes, Salt!TypeOK, AnswerInv,
       OneAsked, Asks
  <2>9. QED
    BY <2>3, <2>4, <2>5, <2>6, <2>7, <2>8 DEF CalmInv
<1>6. ASSUME NEW t \in Salt!Threads, Salt!Send(t)
      PROVE  CalmInv'
  <2>1. /\ Calm /\ lpc \notin {"encrypted", "ready"}
        /\ \A u \in Salt!Threads \ {t} : ~Salt!Inside(u)
    BY <1>6, Undisturbed DEF Salt!EncryptCommand
  <2>2. AloneInv /\ CipherInv /\ PlainInv /\ ChainInv /\ OneAsked /\ AnswerInv
    BY <2>1 DEF CalmInv
  <2>3. /\ pc[t] = "made"
        /\ pc' = [pc EXCEPT ![t] = IF t = Refresher THEN "waits" ELSE "idle"]
        /\ wire' = Append(wire, command[t])
        /\ UNCHANGED <<salt, cipher, command, echo, lpc, control, server, renewing>>
    BY <1>6, <2>1 DEF Salt!Send, Salt!Goes, Calm
  <2>4. command[t] \in Salt!Command /\ wire \in Seq(Salt!Command) /\ command[t].by = t
    BY DEF Salt!TypeOK, OwnInv
  <2>5. /\ wire' # <<>> /\ Len(wire') = Len(wire) + 1 /\ Len(wire) \in Nat
        /\ DOMAIN wire = 1 .. Len(wire) /\ DOMAIN wire' = 1 .. Len(wire) + 1
        /\ \A i \in 1 .. Len(wire) : wire'[i] = wire[i]
        /\ wire'[Len(wire) + 1] = command[t]
        /\ wire = <<>> <=> Len(wire) = 0
    BY <2>3, <2>4, Appended
  <2>6. AloneInv'
    BY <2>1, <2>2, <2>3, <2>4, <2>5 DEF Salt!TypeOK, AloneInv
  <2>7. CipherInv'
    BY <2>1, <2>2, <2>3, <2>4, <2>5 DEF Salt!TypeOK, CipherInv
  <2>8. PlainInv'
    BY <2>1, <2>2, <2>3, <2>4, <2>5 DEF Salt!TypeOK, PlainInv
  <2>9. ChainInv'
    <3>1. \A u \in Salt!Threads : ~Salt!Inside(u)'
      BY <2>1, <2>3 DEF Salt!TypeOK
    <3>2. /\ Last \in {None, command[t].old} /\ command[t].new = salt
          /\ wire # <<>> => Last = wire[Len(wire)].new /\ Last # None
      <4>1. wire # <<>> => wire[Len(wire)] \in Salt!Command
        BY <2>4, <2>5
      <4>2. QED
        BY <2>2, <2>3, <4>1 DEF ChainInv, Last, Salt!Command,
           Salt!SaltsAssumption
    <3>3. server \in {None, wire'[1].old}
      BY <2>2, <2>3, <2>5, <3>2 DEF ChainInv, Last
    <3>4. Len(wire) \in Nat /\ Len(wire') - 1 = Len(wire)
      BY <2>5
    <3>5. ASSUME NEW i \in 1 .. Len(wire') - 1
          PROVE  wire'[i + 1].old = wire'[i].new
      <4>1. CASE i = Len(wire)
        BY <2>5, <3>2, <4>1
      <4>2. CASE i # Len(wire)
        <5>1. i \in 1 .. Len(wire) - 1 /\ i \in 1 .. Len(wire) /\ i + 1 \in 1 .. Len(wire)
          BY <3>4, <4>2
        <5>2. wire[i + 1].old = wire[i].new
          BY <2>2, <5>1 DEF ChainInv
        <5>3. QED
          BY <2>5, <5>1, <5>2
      <4>3. QED
        BY <4>1, <4>2
    <3>6. Last' = salt'
      BY <2>3, <2>5, <3>2 DEF Last
    <3>7. QED
      BY <2>3, <3>1, <3>3, <3>5, <3>6 DEF ChainInv
  <2>10. OneAsked'
    BY <2>1, <2>2, <2>3, <2>4, <2>5 DEF Salt!TypeOK, OneAsked, Asks
  <2>11. AnswerInv'
    <3>1. CASE t = Refresher
      <4>1. /\ pc'[Refresher] = "waits" /\ lpc = "read" /\ echo = <<>>
            /\ \A i \in DOMAIN wire : ~Asks(i)
        BY <2>2, <2>3, <3>1 DEF Salt!TypeOK, OneAsked
      <4>2. wire'[Len(wire) + 1].by = Refresher /\ \A i \in 1 .. Len(wire) : ~Asks(i)'
        BY <2>4, <2>5, <3>1, <4>1 DEF Asks
      <4>3. ~renewing => wire'[Len(wire) + 1].old = wire'[Len(wire) + 1].new
        BY <2>2, <2>3, <2>5, <3>1 DEF AnswerInv
      <4>4. QED
        BY <2>3, <2>5, <4>1, <4>2, <4>3 DEF AnswerInv, Asks
    <3>2. CASE t # Refresher
      <4>1. pc'[Refresher] = pc[Refresher] /\ wire'[Len(wire) + 1].by # Refresher
        BY <2>3, <2>4, <2>5, <3>2 DEF Salt!TypeOK, Asks
      <4>2. \A i \in 1 .. Len(wire) : Asks(i)' <=> Asks(i)
        BY <2>5 DEF Asks
      <4>3. QED
        BY <2>2, <2>3, <2>5, <4>1, <4>2 DEF AnswerInv, Asks
    <3>3. QED
      BY <3>1, <3>2
  <2>12. QED
    BY <2>6, <2>7, <2>8, <2>9, <2>10, <2>11 DEF CalmInv
<1>7. CASE Salt!Receive
  <2>1. Calm
    BY <1>7 DEF Salt!Receive, Calm, Salt!Overlaps
  <2>2. AloneInv /\ CipherInv /\ PlainInv /\ ChainInv /\ OneAsked /\ AnswerInv
    BY <2>1 DEF CalmInv
  <2>3. /\ wire \in Seq(Salt!Command) /\ wire # <<>> /\ wire' = Tail(wire)
        /\ Head(wire) = wire[1]
        /\ Len(wire) \in Nat \ {0} /\ Len(wire') = Len(wire) - 1 /\ wire[1] \in Salt!Command
        /\ wire' \in Seq(Salt!Command)
        /\ \A i \in 1 .. Len(wire) - 1 : wire'[i] = wire[i + 1]
        /\ wire' = <<>> <=> Len(wire) = 1
    BY <1>7, Tails DEF Salt!Receive, Salt!TypeOK
  <2>4. DOMAIN wire = 1 .. Len(wire) /\ DOMAIN wire' = 1 .. Len(wire) - 1
    BY <2>3
  <2>5. ~wire[1].garbled /\ server \in {None, wire[1].old}
    BY <2>2, <2>3, <2>4 DEF PlainInv, ChainInv
  <2>6. /\ server' = wire[1].new
        /\ IF Asks(1) THEN \E encrypted \in BOOLEAN :
                            echo' = Append(echo, [renews |-> wire[1].old # wire[1].new,
                                                  encrypted |-> encrypted])
                       ELSE UNCHANGED echo
        /\ UNCHANGED <<salt, cipher, pc, command, lpc, control, renewing>>
    BY <1>7, <2>3, <2>5 DEF Salt!Receive, Asks
  <2>7. AloneInv'
    BY <2>1, <2>2, <2>3, <2>4, <2>5, <2>6 DEF Salt!TypeOK, AloneInv
  <2>8. CipherInv'
    BY <2>1, <2>2, <2>3, <2>4, <2>5, <2>6 DEF Salt!TypeOK, CipherInv
  <2>9. PlainInv'
    BY <2>1, <2>2, <2>3, <2>4, <2>5, <2>6 DEF Salt!TypeOK, PlainInv
  <2>10. ChainInv'
    <3>1. wire' # <<>> => server' \in {None, wire'[1].old}
      BY <2>2, <2>3, <2>4, <2>6 DEF ChainInv
    <3>2. \A i \in 1 .. Len(wire') - 1 : wire'[i + 1].old = wire'[i].new
      BY <2>2, <2>3, <2>4 DEF ChainInv
    <3>3. Last' = Last
      BY <2>3, <2>4, <2>6 DEF Last
    <3>4. QED
      BY <2>2, <2>6, <3>1, <3>2, <3>3 DEF ChainInv
  <2>11. OneAsked'
    <3>1. CASE ~Asks(1)
      BY <2>2, <2>3, <2>4, <2>6, <3>1 DEF OneAsked, Asks
    <3>2. CASE Asks(1)
      <4>1. pc[Refresher] = "waits" /\ echo = <<>>
            /\ \A i \in 1 .. Len(wire) : Asks(i) => i = 1
        BY <2>2, <2>3, <2>4, <3>2 DEF OneAsked
      <4>2. Len(echo') = 1
        <5>1. PICK encrypted \in BOOLEAN :
                echo' = Append(echo, [renews |-> wire[1].old # wire[1].new,
                                      encrypted |-> encrypted])
          BY <2>6, <3>2
        <5>2. QED
          BY <4>1, <5>1, EmptySeq, Appended DEF Salt!TypeOK
      <4>3. \A i \in DOMAIN wire' : ~Asks(i)'
        BY <2>3, <2>4, <4>1 DEF Asks
      <4>4. QED
        BY <2>6, <4>1, <4>2, <4>3 DEF OneAsked
    <3>3. QED
      BY <3>1, <3>2
  <2>12. AnswerInv'
    <3>1. CASE ~Asks(1)
      <4>1. \A i \in DOMAIN wire' : Asks(i)' => i + 1 \in DOMAIN wire /\ Asks(i + 1)
        BY <2>3, <2>4 DEF Asks
      <4>2. \A i \in DOMAIN wire : Asks(i) => i - 1 \in DOMAIN wire' /\ Asks(i - 1)'
        BY <2>3, <2>4, <3>1 DEF Asks
      <4>3. \A i \in DOMAIN wire' : wire'[i] = wire[i + 1]
        BY <2>3, <2>4
      <4>4. QED
        BY <2>2, <2>6, <3>1, <4>1, <4>2, <4>3 DEF AnswerInv
    <3>2. CASE Asks(1)
      <4>1. pc[Refresher] = "waits" /\ echo = <<>>
            /\ \A i \in 1 .. Len(wire) : Asks(i) => i = 1
        BY <2>2, <2>3, <2>4, <3>2 DEF OneAsked
      <4>2. echo' # <<>> /\ Head(echo').renews = (wire[1].old # wire[1].new)
        <5>1. PICK encrypted \in BOOLEAN :
                echo' = Append(echo, [renews |-> wire[1].old # wire[1].new,
                                      encrypted |-> encrypted])
          BY <2>6, <3>2
        <5>2. QED
          BY <4>1, <5>1, EmptySeq
      <4>3. \A i \in DOMAIN wire' : ~Asks(i)'
        BY <2>3, <2>4, <4>1 DEF Asks
      <4>4. lpc = "read"
        BY <4>1 DEF Salt!TypeOK
      <4>5. ~renewing => wire[1].old = wire[1].new
        BY <2>2, <2>3, <2>4, <3>2, <4>1 DEF AnswerInv
      <4>6. QED
        BY <2>6, <4>1, <4>2, <4>3, <4>4, <4>5 DEF AnswerInv
    <3>3. QED
      BY <3>1, <3>2
  <2>13. QED
    BY <2>7, <2>8, <2>9, <2>10, <2>11, <2>12 DEF CalmInv
<1>8. CASE Salt!TakeAnswer
  <2>1. Calm
    BY <1>8 DEF Salt!TakeAnswer, Calm, Salt!Overlaps
  <2>2. AloneInv /\ CipherInv /\ PlainInv /\ ChainInv /\ OneAsked /\ AnswerInv
    BY <2>1 DEF CalmInv
  <2>3. AloneInv'
    BY <1>8, <2>1, <2>2 DEF Salt!TakeAnswer, Salt!TypeOK, AloneInv
  <2>4. CipherInv'
    BY <1>8, <2>1, <2>2 DEF Salt!TakeAnswer, Salt!TypeOK, CipherInv
  <2>5. PlainInv'
    BY <1>8, <2>1, <2>2 DEF Salt!TakeAnswer, Salt!TypeOK, PlainInv
  <2>6. ChainInv'
    BY <1>8, <2>1, <2>2 DEF Salt!TakeAnswer, Salt!TypeOK, ChainInv, Last
  <2>7. OneAsked'
    BY <1>8, <2>1, <2>2 DEF Salt!TakeAnswer, Salt!TypeOK, OneAsked, Asks
  <2>8. AnswerInv'
    BY <1>8, <2>1, <2>2 DEF Salt!TakeAnswer, Salt!TypeOK, AnswerInv, OneAsked,
       Asks
  <2>9. QED
    BY <2>3, <2>4, <2>5, <2>6, <2>7, <2>8 DEF CalmInv
<1>9. CASE Salt!ListenSetsIv
  <2>1. Calm
    BY <1>9 DEF Salt!ListenSetsIv, Calm, Salt!Overlaps
  <2>2. AloneInv /\ CipherInv /\ PlainInv /\ ChainInv /\ OneAsked /\ AnswerInv
    BY <2>1 DEF CalmInv
  <2>3. AloneInv'
    BY <1>9, <2>1, <2>2 DEF Salt!ListenSetsIv, Salt!TypeOK, AloneInv
  <2>4. CipherInv'
    BY <1>9, <2>1, <2>2 DEF Salt!ListenSetsIv, Salt!TypeOK, CipherInv
  <2>5. PlainInv'
    BY <1>9, <2>1, <2>2 DEF Salt!ListenSetsIv, Salt!TypeOK, PlainInv
  <2>6. ChainInv'
    BY <1>9, <2>1, <2>2 DEF Salt!ListenSetsIv, Salt!TypeOK, ChainInv, Last
  <2>7. OneAsked'
    BY <1>9, <2>1, <2>2 DEF Salt!ListenSetsIv, Salt!TypeOK, OneAsked, Asks
  <2>8. AnswerInv'
    BY <1>9, <2>1, <2>2 DEF Salt!ListenSetsIv, Salt!TypeOK, AnswerInv, OneAsked,
       Asks
  <2>9. QED
    BY <2>3, <2>4, <2>5, <2>6, <2>7, <2>8 DEF CalmInv
<1>10. CASE Salt!Decrypt
  <2>1. Calm
    BY <1>10 DEF Salt!Decrypt, Calm, Salt!Overlaps
  <2>2. AloneInv /\ CipherInv /\ PlainInv /\ ChainInv /\ OneAsked /\ AnswerInv
    BY <2>1 DEF CalmInv
  <2>3. \A u \in Salt!Threads : ~Salt!Inside(u)
    BY <1>10 DEF Salt!Decrypt, Salt!Overlaps, Calm
  <2>4. AloneInv'
    BY <1>10, <2>1, <2>2, <2>3 DEF Salt!Decrypt, Salt!TypeOK, AloneInv
  <2>5. CipherInv'
    BY <1>10, <2>1, <2>2, <2>3 DEF Salt!Decrypt, Salt!TypeOK, CipherInv
  <2>6. PlainInv'
    BY <1>10, <2>1, <2>2, <2>3 DEF Salt!Decrypt, Salt!TypeOK, PlainInv
  <2>7. ChainInv'
    BY <1>10, <2>1, <2>2, <2>3 DEF Salt!Decrypt, Salt!TypeOK, ChainInv, Last
  <2>8. OneAsked'
    BY <1>10, <2>1, <2>2, <2>3 DEF Salt!Decrypt, Salt!TypeOK, OneAsked, Asks
  <2>9. AnswerInv'
    BY <1>10, <2>1, <2>2, <2>3 DEF Salt!Decrypt, Salt!RemoveSalt, Salt!TypeOK,
       CipherInv,
       AnswerInv, OneAsked, Asks
  <2>10. QED
    BY <2>4, <2>5, <2>6, <2>7, <2>8, <2>9 DEF CalmInv
<1>11. CASE Salt!Deliver
  <2>1. Calm
    BY <1>11 DEF Salt!Deliver, Calm, Salt!Overlaps
  <2>2. AloneInv /\ CipherInv /\ PlainInv /\ ChainInv /\ OneAsked /\ AnswerInv
    BY <2>1 DEF CalmInv
  <2>3. AloneInv'
    BY <1>11, <2>1, <2>2 DEF Salt!Deliver, Salt!TypeOK, AloneInv
  <2>4. CipherInv'
    BY <1>11, <2>1, <2>2 DEF Salt!Deliver, Salt!TypeOK, CipherInv
  <2>5. PlainInv'
    BY <1>11, <2>1, <2>2 DEF Salt!Deliver, Salt!TypeOK, PlainInv
  <2>6. ChainInv'
    BY <1>11, <2>1, <2>2 DEF Salt!Deliver, Salt!TypeOK, ChainInv, Last
  <2>7. OneAsked'
    BY <1>11, <2>1, <2>2 DEF Salt!Deliver, Salt!TypeOK, OneAsked, Asks
  <2>8. AnswerInv'
    BY <1>11, <2>1, <2>2 DEF Salt!Deliver, Salt!TypeOK, AnswerInv, OneAsked,
       Asks
  <2>9. QED
    BY <2>3, <2>4, <2>5, <2>6, <2>7, <2>8 DEF CalmInv
<1>12. CASE Salt!TimesOut
  BY <1>12 DEF Salt!TimesOut, Calm
<1>13. CASE Salt!Lose
  BY <1>13 DEF Salt!Lose, Calm
<1>14. CASE Salt!Reconnect
  <2>1. \A t \in Salt!Threads : ~Salt!Inside(t)'
    BY <1>14 DEF Salt!Reconnect, Calm
  <2>2. /\ wire' = <<>> /\ echo' = <<>> /\ lpc' = "read" /\ pc'[Refresher] = "idle"
        /\ server' = None
    BY <1>14 DEF Salt!Reconnect
  <2>3. Len(wire') = 0 /\ DOMAIN wire' = {}
    BY <2>2, EmptySeq
  <2>4. AloneInv' /\ CipherInv' /\ PlainInv'
    BY <2>1, <2>2, <2>3 DEF AloneInv, CipherInv, PlainInv
  <2>5. ChainInv'
    BY <2>1, <2>2, <2>3 DEF ChainInv, Last
  <2>6. OneAsked' /\ AnswerInv'
    BY <2>2, <2>3 DEF OneAsked, AnswerInv
  <2>7. QED
    BY <2>4, <2>5, <2>6 DEF CalmInv
<1>15. CASE UNCHANGED Salt!vars
  <2>1. Calm
    BY <1>15 DEF Salt!vars, Calm, Salt!Overlaps
  <2>2. AloneInv /\ CipherInv /\ PlainInv /\ ChainInv /\ OneAsked /\ AnswerInv
    BY <2>1 DEF CalmInv
  <2>3. AloneInv'
    BY <1>15, <2>1, <2>2 DEF Salt!vars, Salt!TypeOK, AloneInv
  <2>4. CipherInv'
    BY <1>15, <2>1, <2>2 DEF Salt!vars, Salt!TypeOK, CipherInv
  <2>5. PlainInv'
    BY <1>15, <2>1, <2>2 DEF Salt!vars, Salt!TypeOK, PlainInv
  <2>6. ChainInv'
    BY <1>15, <2>1, <2>2 DEF Salt!vars, Salt!TypeOK, ChainInv, Last
  <2>7. OneAsked'
    BY <1>15, <2>1, <2>2 DEF Salt!vars, Salt!TypeOK, OneAsked, Asks
  <2>8. AnswerInv'
    BY <1>15, <2>1, <2>2 DEF Salt!vars, Salt!TypeOK, AnswerInv, OneAsked, Asks
  <2>9. QED
    BY <2>3, <2>4, <2>5, <2>6, <2>7, <2>8 DEF CalmInv
<1>16. QED
  BY <1>1, <1>2, <1>3, <1>4, <1>5, <1>6, <1>7, <1>8, <1>9, <1>10, <1>11, <1>12,
     <1>13, <1>14, <1>15 DEF Salt!Next, Salt!EncryptCommand, Salt!Listen

-----------------------------------------------------------------------------
(* The invariant *)

LEMMA SaltInvInit ==
  ASSUME Salt!RefresherAssumption, Salt!BoundsAssumption, Salt!SaltsAssumption
  PROVE  Salt!Init => SaltInv
<1> SUFFICES ASSUME Salt!Init
             PROVE  SaltInv
  OBVIOUS
<1> USE DEF Salt!RefresherAssumption
<1>1. Salt!TypeOK
  <2>1. command \in [Salt!Threads -> Salt!Command]
    BY DEF Salt!Init, Salt!Command
  <2>2. wire \in Seq(Salt!Command) /\ echo \in Seq([renews : BOOLEAN, encrypted : BOOLEAN])
    BY EmptySeq DEF Salt!Init
  <2>3. stopped \in BOOLEAN /\ raced \in BOOLEAN /\ renewing \in BOOLEAN
    BY DEF Salt!Init
  <2>4. QED
    BY <2>1, <2>2, <2>3 DEF Salt!Init, Salt!TypeOK, Salt!Places,
       Salt!BoundsAssumption
<1>2. OwnInv
  BY DEF Salt!Init, OwnInv
<1>3. CalmInv
  <2>1. /\ wire = <<>> /\ DOMAIN wire = {} /\ Len(wire) = 0 /\ echo = <<>> /\ server = None
        /\ lpc = "read" /\ cipher = "iv" /\ \A t \in Salt!Threads : pc[t] = "idle"
    BY EmptySeq DEF Salt!Init
  <2>2. AloneInv /\ CipherInv /\ PlainInv
    BY <2>1 DEF AloneInv, CipherInv, PlainInv, Salt!Inside
  <2>3. ChainInv
    BY <2>1 DEF ChainInv, Last, Salt!Inside
  <2>4. OneAsked /\ AnswerInv
    BY <2>1 DEF OneAsked, AnswerInv, Salt!Threads
  <2>5. QED
    BY <2>2, <2>3, <2>4 DEF CalmInv
<1>4. QED
  BY <1>1, <1>2, <1>3 DEF SaltInv

LEMMA SaltInvStep ==
  ASSUME Salt!RefresherAssumption, Salt!BoundsAssumption, Salt!SaltsAssumption
  PROVE  SaltInv /\ [Salt!Next]_Salt!vars => SaltInv'
BY SaltTypes, OwnStep, CalmStep DEF SaltInv

-----------------------------------------------------------------------------
(* SecuredCommands: the inductive invariant *)

(* Two threads that are in the preparation at once are both in the history. *)
CrossInv == \A t, u \in Visu!Busy : t # u => t \in crossed

(* What a thread that is alone, on a connection that is not given up, has made
   of the Miniserver's last answer. *)
Latest(h) == h = [key |-> issued, salt |-> issued]

LatestInv ==
  \A t \in Visu!Threads \ (crossed \cup gaveUp) :
    /\ pc[t] \notin {"idle", "asked"} => issued > 0
    /\ pc[t] \in {"answered", "keyed"} => mine[t] = issued
    /\ pc[t] \in {"keyed", "salted"} => key = issued
    /\ pc[t] = "salted" => salt = issued
    /\ pc[t] \in {"hashed", "send"} => Latest(made[t])
    /\ pc[t] = "insert" => Latest(hash)

VisuInv == Visu!TypeOK /\ CrossInv /\ LatestInv /\ Visu!NoSilentRefusal

-----------------------------------------------------------------------------
(* SecuredCommands: types *)

LEMMA VisuTypes ==
  ASSUME Visu!BoundsAssumption
  PROVE  Visu!TypeOK /\ [Visu!Next]_Visu!vars => Visu!TypeOK'
<1> SUFFICES ASSUME Visu!TypeOK, [Visu!Next]_Visu!vars
             PROVE  Visu!TypeOK'
  OBVIOUS
<1> USE Visu!BoundsAssumption DEF Visu!BoundsAssumption
<1>1. ASSUME NEW t \in Visu!Threads, Visu!Ask(t)
      PROVE  Visu!TypeOK'
  <2>1. fresh' \in BOOLEAN
    BY <1>1 DEF Visu!Ask, Visu!TypeOK
  <2>2. /\ pc' = [pc EXCEPT ![t] = "asked"] /\ refused' \subseteq Visu!Threads
        /\ crossed' \subseteq Visu!Threads /\ gaveUp' \subseteq Visu!Threads
        /\ UNCHANGED <<key, salt, hash, mine, made, issued, stopped, losses>>
    BY <1>1 DEF Visu!Ask, Visu!Goes, Visu!Busy, Visu!TypeOK
  <2>3. QED
    BY <2>1, <2>2 DEF Visu!TypeOK, Visu!Places
<1>2. ASSUME NEW t \in Visu!Threads, Visu!Answered(t)
      PROVE  Visu!TypeOK'
  BY <1>2 DEF Visu!Answered, Visu!Goes, Visu!TypeOK, Visu!Places, Visu!Hash,
     Visu!NoHash, Visu!Busy, Visu!Then, Visu!GiveUp
<1>3. ASSUME NEW t \in Visu!Threads, Visu!Fails(t)
      PROVE  Visu!TypeOK'
  BY <1>3 DEF Visu!Fails, Visu!Goes, Visu!GiveUp, Visu!Then, Visu!TypeOK,
     Visu!Places, Visu!Hash, Visu!NoHash, Visu!Busy, Visu!Then, Visu!GiveUp
<1>4. ASSUME NEW t \in Visu!Threads, Visu!SetVisuKey(t)
      PROVE  Visu!TypeOK'
  BY <1>4 DEF Visu!SetVisuKey, Visu!Goes, Visu!TypeOK, Visu!Places, Visu!Hash,
     Visu!NoHash, Visu!Busy, Visu!Then, Visu!GiveUp
<1>5. ASSUME NEW t \in Visu!Threads, Visu!SetVisuSalt(t)
      PROVE  Visu!TypeOK'
  BY <1>5 DEF Visu!SetVisuSalt, Visu!Goes, Visu!TypeOK, Visu!Places, Visu!Hash,
     Visu!NoHash, Visu!Busy, Visu!Then, Visu!GiveUp
<1>6. ASSUME NEW t \in Visu!Threads, Visu!HashVisuPassword(t)
      PROVE  Visu!TypeOK'
  BY <1>6 DEF Visu!HashVisuPassword, Visu!Goes, Visu!Record, Visu!TypeOK,
     Visu!Places, Visu!Hash, Visu!NoHash, Visu!Busy, Visu!Then, Visu!GiveUp
<1>7. ASSUME NEW t \in Visu!Threads, Visu!SetHashed(t)
      PROVE  Visu!TypeOK'
  BY <1>7 DEF Visu!SetHashed, Visu!Goes, Visu!Record, Visu!Then, Visu!TypeOK,
     Visu!Places, Visu!Hash, Visu!NoHash, Visu!Busy, Visu!Then, Visu!GiveUp
<1>8. ASSUME NEW t \in Visu!Threads, Visu!Insert(t)
      PROVE  Visu!TypeOK'
  BY <1>8 DEF Visu!Insert, Visu!Goes, Visu!Record, Visu!TypeOK, Visu!Places,
     Visu!Hash, Visu!NoHash, Visu!Busy, Visu!Then, Visu!GiveUp
<1>9. ASSUME NEW t \in Visu!Threads, Visu!Send(t)
      PROVE  Visu!TypeOK'
  BY <1>9 DEF Visu!Send, Visu!Goes, Visu!Record, Visu!Accepts, Visu!TypeOK,
     Visu!Places, Visu!Hash, Visu!NoHash, Visu!Busy, Visu!Then, Visu!GiveUp
<1>10. CASE Visu!Lose
  BY <1>10 DEF Visu!Lose, Visu!GiveUp, Visu!TypeOK, Visu!Places, Visu!Hash,
     Visu!NoHash, Visu!Busy, Visu!Then, Visu!GiveUp
<1>11. CASE Visu!Reconnect
  BY <1>11 DEF Visu!Reconnect, Visu!TypeOK, Visu!Places, Visu!Hash, Visu!NoHash,
     Visu!Busy, Visu!Then, Visu!GiveUp
<1>12. CASE UNCHANGED Visu!vars
  BY <1>12 DEF Visu!vars, Visu!TypeOK, Visu!Places, Visu!Hash, Visu!NoHash,
     Visu!Busy, Visu!Then, Visu!GiveUp
<1>13. QED
  BY <1>1, <1>2, <1>3, <1>4, <1>5, <1>6, <1>7, <1>8, <1>9, <1>10, <1>11, <1>12
     DEF Visu!Next

-----------------------------------------------------------------------------
(* Threads at once *)

LEMMA CrossStep == Visu!TypeOK /\ CrossInv /\ [Visu!Next]_Visu!vars => CrossInv'
<1> SUFFICES ASSUME Visu!TypeOK, CrossInv, [Visu!Next]_Visu!vars
             PROVE  CrossInv'
  OBVIOUS
<1>1. ASSUME NEW t \in Visu!Threads, Visu!Ask(t)
      PROVE  CrossInv'
  BY <1>1 DEF Visu!Ask, Visu!Goes, Visu!TypeOK, CrossInv, Visu!Busy
<1>2. ASSUME NEW t \in Visu!Threads, Visu!Answered(t)
      PROVE  CrossInv'
  BY <1>2 DEF Visu!Answered, Visu!Goes, Visu!TypeOK, CrossInv, Visu!Busy
<1>3. ASSUME NEW t \in Visu!Threads, Visu!Fails(t)
      PROVE  CrossInv'
  BY <1>3 DEF Visu!Fails, Visu!Goes, Visu!GiveUp, Visu!Then, Visu!TypeOK,
     CrossInv, Visu!Busy
<1>4. ASSUME NEW t \in Visu!Threads, Visu!SetVisuKey(t)
      PROVE  CrossInv'
  BY <1>4 DEF Visu!SetVisuKey, Visu!Goes, Visu!TypeOK, CrossInv, Visu!Busy
<1>5. ASSUME NEW t \in Visu!Threads, Visu!SetVisuSalt(t)
      PROVE  CrossInv'
  BY <1>5 DEF Visu!SetVisuSalt, Visu!Goes, Visu!TypeOK, CrossInv, Visu!Busy
<1>6. ASSUME NEW t \in Visu!Threads, Visu!HashVisuPassword(t)
      PROVE  CrossInv'
  BY <1>6 DEF Visu!HashVisuPassword, Visu!Goes, Visu!Record, Visu!TypeOK,
     CrossInv, Visu!Busy
<1>7. ASSUME NEW t \in Visu!Threads, Visu!SetHashed(t)
      PROVE  CrossInv'
  BY <1>7 DEF Visu!SetHashed, Visu!Goes, Visu!Record, Visu!Then, Visu!TypeOK,
     CrossInv, Visu!Busy
<1>8. ASSUME NEW t \in Visu!Threads, Visu!Insert(t)
      PROVE  CrossInv'
  BY <1>8 DEF Visu!Insert, Visu!Goes, Visu!Record, Visu!TypeOK, CrossInv,
     Visu!Busy
<1>9. ASSUME NEW t \in Visu!Threads, Visu!Send(t)
      PROVE  CrossInv'
  BY <1>9 DEF Visu!Send, Visu!Goes, Visu!Record, Visu!Accepts, Visu!TypeOK,
     CrossInv, Visu!Busy
<1>10. CASE Visu!Lose
  BY <1>10 DEF Visu!Lose, Visu!GiveUp, Visu!TypeOK, CrossInv, Visu!Busy
<1>11. CASE Visu!Reconnect
  BY <1>11 DEF Visu!Reconnect, Visu!TypeOK, CrossInv, Visu!Busy
<1>12. CASE UNCHANGED Visu!vars
  BY <1>12 DEF Visu!vars, Visu!TypeOK, CrossInv, Visu!Busy
<1>13. QED
  BY <1>1, <1>2, <1>3, <1>4, <1>5, <1>6, <1>7, <1>8, <1>9, <1>10, <1>11, <1>12
     DEF Visu!Next

LEMMA LatestStep ==
  ASSUME Visu!BoundsAssumption
  PROVE  Visu!TypeOK /\ CrossInv /\ LatestInv /\ [Visu!Next]_Visu!vars => LatestInv'
<1> SUFFICES ASSUME Visu!TypeOK, CrossInv, LatestInv, [Visu!Next]_Visu!vars
             PROVE  LatestInv'
  OBVIOUS
<1> USE Visu!BoundsAssumption DEF Visu!BoundsAssumption
<1>1. ASSUME NEW t \in Visu!Threads, Visu!Ask(t)
      PROVE  LatestInv'
  BY <1>1 DEF Visu!Ask, Visu!Goes, Visu!TypeOK, CrossInv, LatestInv, Latest,
     Visu!Busy
<1>2. ASSUME NEW t \in Visu!Threads, Visu!Answered(t)
      PROVE  LatestInv'
  BY <1>2 DEF Visu!Answered, Visu!Goes, Visu!TypeOK, CrossInv, LatestInv,
     Latest, Visu!Busy
<1>3. ASSUME NEW t \in Visu!Threads, Visu!Fails(t)
      PROVE  LatestInv'
  BY <1>3 DEF Visu!Fails, Visu!Goes, Visu!GiveUp, Visu!Then, Visu!TypeOK,
     CrossInv, LatestInv, Latest, Visu!Busy
<1>4. ASSUME NEW t \in Visu!Threads, Visu!SetVisuKey(t)
      PROVE  LatestInv'
  BY <1>4 DEF Visu!SetVisuKey, Visu!Goes, Visu!TypeOK, CrossInv, LatestInv,
     Latest, Visu!Busy
<1>5. ASSUME NEW t \in Visu!Threads, Visu!SetVisuSalt(t)
      PROVE  LatestInv'
  BY <1>5 DEF Visu!SetVisuSalt, Visu!Goes, Visu!TypeOK, CrossInv, LatestInv,
     Latest, Visu!Busy
<1>6. ASSUME NEW t \in Visu!Threads, Visu!HashVisuPassword(t)
      PROVE  LatestInv'
  BY <1>6 DEF Visu!HashVisuPassword, Visu!Goes, Visu!Record, Visu!TypeOK,
     CrossInv, LatestInv, Latest, Visu!Busy
<1>7. ASSUME NEW t \in Visu!Threads, Visu!SetHashed(t)
      PROVE  LatestInv'
  BY <1>7 DEF Visu!SetHashed, Visu!Goes, Visu!Record, Visu!Then, Visu!TypeOK,
     CrossInv, LatestInv, Latest, Visu!Busy
<1>8. ASSUME NEW t \in Visu!Threads, Visu!Insert(t)
      PROVE  LatestInv'
  BY <1>8 DEF Visu!Insert, Visu!Goes, Visu!Record, Visu!TypeOK, CrossInv,
     LatestInv, Latest, Visu!Busy
<1>9. ASSUME NEW t \in Visu!Threads, Visu!Send(t)
      PROVE  LatestInv'
  BY <1>9 DEF Visu!Send, Visu!Goes, Visu!Record, Visu!Accepts, Visu!TypeOK,
     CrossInv, LatestInv, Latest, Visu!Busy
<1>10. CASE Visu!Lose
  BY <1>10 DEF Visu!Lose, Visu!GiveUp, Visu!TypeOK, CrossInv, LatestInv, Latest,
     Visu!Busy
<1>11. CASE Visu!Reconnect
  BY <1>11 DEF Visu!Reconnect, Visu!TypeOK, CrossInv, LatestInv, Latest,
     Visu!Busy
<1>12. CASE UNCHANGED Visu!vars
  BY <1>12 DEF Visu!vars, Visu!TypeOK, CrossInv, LatestInv, Latest, Visu!Busy
<1>13. QED
  BY <1>1, <1>2, <1>3, <1>4, <1>5, <1>6, <1>7, <1>8, <1>9, <1>10, <1>11, <1>12
     DEF Visu!Next

LEMMA VisuRefusals ==
  ASSUME Visu!BoundsAssumption
  PROVE  Visu!TypeOK /\ LatestInv /\ Visu!NoSilentRefusal /\ [Visu!Next]_Visu!vars =>
           Visu!NoSilentRefusal'
<1> SUFFICES ASSUME Visu!TypeOK, LatestInv, Visu!NoSilentRefusal, [Visu!Next]_Visu!vars
             PROVE  Visu!NoSilentRefusal'
  OBVIOUS
<1>1. ASSUME NEW t \in Visu!Threads, Visu!Ask(t)
      PROVE  Visu!NoSilentRefusal'
  BY <1>1 DEF Visu!Ask, Visu!Goes, Visu!NoSilentRefusal
<1>2. ASSUME NEW t \in Visu!Threads, Visu!Answered(t)
      PROVE  Visu!NoSilentRefusal'
  BY <1>2 DEF Visu!Answered, Visu!Goes, Visu!NoSilentRefusal
<1>3. ASSUME NEW t \in Visu!Threads, Visu!Fails(t)
      PROVE  Visu!NoSilentRefusal'
  BY <1>3 DEF Visu!Fails, Visu!Goes, Visu!GiveUp, Visu!Then,
     Visu!NoSilentRefusal
<1>4. ASSUME NEW t \in Visu!Threads, Visu!SetVisuKey(t)
      PROVE  Visu!NoSilentRefusal'
  BY <1>4 DEF Visu!SetVisuKey, Visu!Goes, Visu!NoSilentRefusal
<1>5. ASSUME NEW t \in Visu!Threads, Visu!SetVisuSalt(t)
      PROVE  Visu!NoSilentRefusal'
  BY <1>5 DEF Visu!SetVisuSalt, Visu!Goes, Visu!NoSilentRefusal
<1>6. ASSUME NEW t \in Visu!Threads, Visu!HashVisuPassword(t)
      PROVE  Visu!NoSilentRefusal'
  BY <1>6 DEF Visu!HashVisuPassword, Visu!Goes, Visu!Record,
     Visu!NoSilentRefusal
<1>7. ASSUME NEW t \in Visu!Threads, Visu!SetHashed(t)
      PROVE  Visu!NoSilentRefusal'
  BY <1>7 DEF Visu!SetHashed, Visu!Goes, Visu!Record, Visu!Then,
     Visu!NoSilentRefusal
<1>8. ASSUME NEW t \in Visu!Threads, Visu!Insert(t)
      PROVE  Visu!NoSilentRefusal'
  BY <1>8 DEF Visu!Insert, Visu!Goes, Visu!Record, Visu!NoSilentRefusal
<1>9. ASSUME NEW t \in Visu!Threads, Visu!Send(t)
      PROVE  Visu!NoSilentRefusal'
  <2>1. CASE t \in crossed \cup gaveUp
    BY <1>9, <2>1 DEF Visu!Send, Visu!NoSilentRefusal
  <2>2. CASE t \notin crossed \cup gaveUp
    <3>1. Visu!Accepts(made[t])
      BY <1>9, <2>2 DEF Visu!Send, Visu!Goes, LatestInv, Latest, Visu!Accepts
    <3>2. QED
      BY <1>9, <3>1 DEF Visu!Send, Visu!NoSilentRefusal
  <2>3. QED
    BY <2>1, <2>2
<1>10. CASE Visu!Lose
  BY <1>10 DEF Visu!Lose, Visu!GiveUp, Visu!NoSilentRefusal
<1>11. CASE Visu!Reconnect
  BY <1>11 DEF Visu!Reconnect, Visu!NoSilentRefusal
<1>12. CASE UNCHANGED Visu!vars
  BY <1>12 DEF Visu!vars, Visu!NoSilentRefusal
<1>13. QED
  BY <1>1, <1>2, <1>3, <1>4, <1>5, <1>6, <1>7, <1>8, <1>9, <1>10, <1>11, <1>12
     DEF Visu!Next

-----------------------------------------------------------------------------
(* The invariant *)

LEMMA VisuInvInit ==
  ASSUME Visu!BoundsAssumption
  PROVE  Visu!Init => VisuInv
<1>1. Visu!Init => Visu!TypeOK
  <2>1. 0 \in 0 .. MaxSalts /\ 0 \in 0 .. MaxLosses
    BY DEF Visu!BoundsAssumption
  <2>2. Visu!NoHash \in Visu!Hash /\ InitThread \in Visu!Threads /\ "idle" \in Visu!Places
    BY <2>1 DEF Visu!NoHash, Visu!Hash, Visu!Threads, Visu!Places
  <2>3. Visu!Init => /\ issued = 0 /\ issued \in 0 .. MaxSalts /\ losses \in 0 .. MaxLosses
                /\ key \in 0 .. issued /\ salt \in 0 .. issued
                /\ mine \in [Visu!Threads -> 0 .. issued]
    BY <2>1 DEF Visu!Init
  <2>4. Visu!Init => /\ hash \in Visu!Hash /\ made \in [Visu!Threads -> Visu!Hash]
                /\ pc \in [Visu!Threads -> Visu!Places] /\ pc[InitThread] \notin {"insert", "send"}
    BY <2>2 DEF Visu!Init
  <2>5. Visu!Init => stopped \in BOOLEAN /\ fresh \in BOOLEAN
    BY DEF Visu!Init
  <2>6. QED
    BY <2>3, <2>4, <2>5 DEF Visu!Init, Visu!TypeOK
<1>2. Visu!Init => CrossInv /\ LatestInv /\ Visu!NoSilentRefusal
  BY DEF Visu!Init, CrossInv, LatestInv, Visu!NoSilentRefusal, Visu!Busy
<1>3. QED
  BY <1>1, <1>2 DEF VisuInv

LEMMA VisuInvStep ==
  ASSUME Visu!BoundsAssumption
  PROVE  VisuInv /\ [Visu!Next]_Visu!vars => VisuInv'
BY VisuTypes, CrossStep, LatestStep, VisuRefusals DEF VisuInv

-----------------------------------------------------------------------------
(* Session: the inductive invariant *)

(* refreshToken() does nothing of the opening. *)
PlaceInv == pc[Refresher] \notin {"http", "keyexchange", "updates", "start"}

(* init() runs for the connection that is read, and one that is late for an
   earlier one than the connection it is waited for. *)
LineInv ==
  /\ listen = "reads" => of[InitThread] = connection
  /\ listen = "starts" => of[InitThread] < connection
  /\ listen # "opens" => connection > 0

(* Unless one is left of another connection, refreshToken() runs on a
   connection that is read and whose init() has ended. *)
RefreshAlone ==
  ~foreign /\ pc[Refresher] # "none" => listen = "reads" /\ pc[InitThread] = "none"

(* The thread that logs in does so with the last key of the connection. *)
KeyInv ==
  listen = "reads" /\ ~foreign =>
    \A t \in Login!Threads :
      /\ pc[t] = "gotkey" => got[t] = given
      /\ pc[t] = "hash" => key = given
      /\ pc[t] = "login" => hash[t] = given

(* A token is there unless the connection is being given up, and what was
   hashed without one is not sent. *)
TokenInv ==
  /\ listen = "reads" =>
       /\ pc[InitThread] \in {"updates", "start"} => token \/ stopped
       /\ pc[InitThread] \in {"login", "gottoken"} /\ what[InitThread] = "token" =>
            token \/ stopped
  /\ pc[Refresher] # "none" /\ ~foreign => token \/ stopped
  /\ pc[Refresher] = "login" /\ what[Refresher] = "nothing" /\ ~foreign =>
       stopped /\ asked[Refresher] = 0
  /\ what[InitThread] # "nothing"

(* init() goes on from the log-in logged in, or on a connection given up. *)
LevelInv ==
  of[InitThread] = connection =>
    /\ pc[InitThread] = "gottoken" => level = Login!LoggedIn
    /\ pc[InitThread] \in {"updates", "start"} => level = Login!LoggedIn \/ stopped

LoginInv ==
  /\ Login!TypeOK /\ PlaceInv /\ LineInv /\ RefreshAlone /\ KeyInv /\ TokenInv /\ LevelInv
  /\ Login!NotRefused

-----------------------------------------------------------------------------
(* Session: types *)

LEMMA Levels ==
  /\ DOMAIN Login!Level = {"http", "keyexchange", "getkey", "login", "updates"}
  /\ Login!Level["http"] = 0 /\ Login!Level["keyexchange"] = 1
BY DEF Login!Level

LEMMA LoginTypes ==
  ASSUME Login!ThreadsAssumption, Login!BoundsAssumption
  PROVE  Login!TypeOK /\ [Login!Next]_Login!vars => Login!TypeOK'
<1> SUFFICES ASSUME Login!TypeOK, [Login!Next]_Login!vars
             PROVE  Login!TypeOK'
  OBVIOUS
<1> USE DEF Login!Threads, Login!ThreadsAssumption, Login!BoundsAssumption,
        Login!line, Login!server, Login!client, Login!local
<1>1. ASSUME NEW t \in Login!Threads, Login!Call(t)
      PROVE  Login!TypeOK'
  BY Levels, <1>1 DEF Login!Call, Login!TypeOK, Login!LoggedIn
<1>2. ASSUME NEW t \in Login!Threads, Login!NoAnswer(t)
      PROVE  Login!TypeOK'
  BY Levels, <1>2 DEF Login!NoAnswer, Login!GiveUp, Login!Goes, Login!Returns,
     Login!TypeOK, Login!LoggedIn
<1>3. ASSUME NEW t \in Login!Threads, Login!Opened(t)
      PROVE  Login!TypeOK'
  BY Levels, <1>3 DEF Login!Opened, Login!Answered, Login!Understood,
     Login!Goes, Login!Returns, Login!TypeOK,
     Login!LoggedIn
<1>4. ASSUME NEW t \in Login!Threads, Login!GetKey(t)
      PROVE  Login!TypeOK'
  BY Levels, <1>4 DEF Login!GetKey, Login!Answered, Login!Goes, Login!Returns,
     Login!TypeOK, Login!LoggedIn
<1>5. ASSUME NEW t \in Login!Threads, Login!Login(t)
      PROVE  Login!TypeOK'
  <2>1. CASE hash[t] = given /\ what[t] # "nothing"
    <3>1. level' = Login!LoggedIn /\ pc' = [pc EXCEPT ![t] = "gottoken"]
          /\ UNCHANGED <<stopped, refused>>
      BY <1>5, <2>1 DEF Login!Login, Login!Goes
    <3>2. pc[t] = "login" /\ asked' = [asked EXCEPT ![t] = 0]
          /\ UNCHANGED <<Login!line, Login!client, of, hash, what, given, issued, got>>
      BY <1>5 DEF Login!Login, Login!Answered, Login!Returns
    <3>3. QED
      BY Levels, <3>1, <3>2 DEF Login!TypeOK, Login!LoggedIn
  <2>2. CASE ~(hash[t] = given /\ what[t] # "nothing")
    <3>1. refused' = TRUE /\ stopped' = TRUE /\ UNCHANGED level
          /\ pc' = [pc EXCEPT ![t] = IF t = InitThread THEN "updates" ELSE "none"]
      BY <1>5, <2>2 DEF Login!Login, Login!GiveUp, Login!Goes
    <3>2. pc[t] = "login" /\ asked' = [asked EXCEPT ![t] = 0]
          /\ UNCHANGED <<Login!line, Login!client, of, hash, what, given, issued, got>>
      BY <1>5 DEF Login!Login, Login!Answered, Login!Returns
    <3>3. QED
      BY Levels, <3>1, <3>2 DEF Login!TypeOK, Login!LoggedIn
  <2>3. QED
    BY <2>1, <2>2
<1>6. ASSUME NEW t \in Login!Threads, Login!EnableUpdates(t)
      PROVE  Login!TypeOK'
  BY Levels, <1>6 DEF Login!EnableUpdates, Login!Answered, Login!Goes,
     Login!Returns, Login!TypeOK, Login!LoggedIn
<1>7. ASSUME NEW t \in Login!Threads, Login!SetKey(t)
      PROVE  Login!TypeOK'
  BY Levels, <1>7 DEF Login!SetKey, Login!Goes, Login!TypeOK, Login!LoggedIn
<1>8. ASSUME NEW t \in Login!Threads, Login!Hash(t)
      PROVE  Login!TypeOK'
  BY Levels, <1>8 DEF Login!Hash, Login!Goes, Login!GetToken, Login!TypeOK,
     Login!LoggedIn
<1>9. ASSUME NEW t \in Login!Threads, Login!SetToken(t)
      PROVE  Login!TypeOK'
  BY Levels, <1>9 DEF Login!SetToken, Login!Goes, Login!TypeOK, Login!LoggedIn
<1>10. CASE Login!StartRefresh
  <2>1. foreign' \in BOOLEAN
    BY <1>10 DEF Login!StartRefresh
  <2>2. pc' \in [Login!Threads -> DOMAIN Login!Level \cup
                              {"none", "gotkey", "hash", "gottoken", "start", "sleep"}]
    BY <1>10 DEF Login!StartRefresh, Login!TypeOK
  <2>3. \A t \in Login!Threads : asked'[t] # 0 => pc'[t] \in DOMAIN Login!Level
    BY Levels, <1>10 DEF Login!StartRefresh, Login!TypeOK
  <2>4. QED
    BY <1>10, <2>1, <2>2, <2>3 DEF Login!StartRefresh, Login!TypeOK
<1>11. CASE Login!Refresh
  BY Levels, <1>11 DEF Login!Refresh, Login!Goes, Login!TypeOK, Login!LoggedIn
<1>12. CASE Login!Lose
  BY Levels, <1>12 DEF Login!Lose, Login!TypeOK, Login!LoggedIn
<1>13. CASE Login!Reconnect
  BY Levels, <1>13 DEF Login!Reconnect, Login!TypeOK, Login!LoggedIn
<1>14. CASE Login!Restart
  BY Levels, <1>14 DEF Login!Restart, Login!TypeOK, Login!LoggedIn
<1>15. CASE Login!Open
  <2>1. foreign' \in BOOLEAN /\ stopped' \in BOOLEAN /\ refused' \in BOOLEAN
    BY <1>15 DEF Login!Open
  <2>2. connection' \in 0 .. MaxConnections /\ 0 .. connection \subseteq 0 .. connection'
    BY <1>15 DEF Login!Open, Login!TypeOK
  <2>3. level' \in 0 .. Login!LoggedIn /\ given' \in 0 .. issued' /\ listen' = "starts"
    BY <1>15 DEF Login!Open, Login!TypeOK, Login!LoggedIn
  <2>4. /\ of' \in [Login!Threads -> 0 .. connection']
        /\ asked' \in [Login!Threads -> 0 .. connection']
    BY <1>15, <2>2 DEF Login!Open, Login!TypeOK
  <2>5. UNCHANGED <<issued, key, token, validUntil, pc, got, hash, what, asked>>
    BY <1>15 DEF Login!Open
  <2>6. QED
    BY <2>1, <2>2, <2>3, <2>4, <2>5 DEF Login!TypeOK
<1>16. CASE Login!StartInit
  BY Levels, <1>16 DEF Login!StartInit, Login!Goes, Login!TypeOK, Login!LoggedIn
<1>17. CASE UNCHANGED Login!vars
  BY Levels, <1>17 DEF Login!vars, Login!TypeOK, Login!LoggedIn
<1>18. QED
  BY <1>1, <1>2, <1>3, <1>4, <1>5, <1>6, <1>7, <1>8, <1>9, <1>10, <1>11, <1>12,
     <1>13, <1>14, <1>15, <1>16, <1>17 DEF Login!Next

-----------------------------------------------------------------------------
(* Who runs *)

LEMMA PlaceStep ==
  ASSUME Login!ThreadsAssumption, Login!BoundsAssumption
  PROVE  Login!TypeOK /\ PlaceInv /\ [Login!Next]_Login!vars => PlaceInv'
<1> SUFFICES ASSUME Login!TypeOK, PlaceInv, [Login!Next]_Login!vars
             PROVE  PlaceInv'
  OBVIOUS
<1> USE DEF Login!Threads, Login!ThreadsAssumption, Login!line, Login!server,
        Login!client, Login!local
<1>1. ASSUME NEW t \in Login!Threads, Login!Call(t)
      PROVE  PlaceInv'
  BY <1>1 DEF Login!Call, Login!TypeOK, PlaceInv
<1>2. ASSUME NEW t \in Login!Threads, Login!NoAnswer(t)
      PROVE  PlaceInv'
  BY <1>2 DEF Login!NoAnswer, Login!GiveUp, Login!Goes, Login!Returns,
     Login!TypeOK, PlaceInv
<1>3. ASSUME NEW t \in Login!Threads, Login!Opened(t)
      PROVE  PlaceInv'
  BY <1>3 DEF Login!Opened, Login!Answered, Login!Understood, Login!Goes,
     Login!Returns, Login!TypeOK, PlaceInv
<1>4. ASSUME NEW t \in Login!Threads, Login!GetKey(t)
      PROVE  PlaceInv'
  BY <1>4 DEF Login!GetKey, Login!Answered, Login!Goes, Login!Returns,
     Login!TypeOK, PlaceInv
<1>5. ASSUME NEW t \in Login!Threads, Login!Login(t)
      PROVE  PlaceInv'
  BY <1>5 DEF Login!Login, Login!Answered, Login!GiveUp, Login!Goes,
     Login!Returns, Login!TypeOK, PlaceInv
<1>6. ASSUME NEW t \in Login!Threads, Login!EnableUpdates(t)
      PROVE  PlaceInv'
  BY <1>6 DEF Login!EnableUpdates, Login!Answered, Login!Goes, Login!Returns,
     Login!TypeOK, PlaceInv
<1>7. ASSUME NEW t \in Login!Threads, Login!SetKey(t)
      PROVE  PlaceInv'
  BY <1>7 DEF Login!SetKey, Login!Goes, Login!TypeOK, PlaceInv
<1>8. ASSUME NEW t \in Login!Threads, Login!Hash(t)
      PROVE  PlaceInv'
  BY <1>8 DEF Login!Hash, Login!Goes, Login!GetToken, Login!TypeOK, PlaceInv
<1>9. ASSUME NEW t \in Login!Threads, Login!SetToken(t)
      PROVE  PlaceInv'
  BY <1>9 DEF Login!SetToken, Login!Goes, Login!TypeOK, PlaceInv
<1>10. CASE Login!StartRefresh
  BY <1>10 DEF Login!StartRefresh, Login!TypeOK, PlaceInv
<1>11. CASE Login!Refresh
  BY <1>11 DEF Login!Refresh, Login!Goes, Login!TypeOK, PlaceInv
<1>12. CASE Login!Lose
  BY <1>12 DEF Login!Lose, Login!TypeOK, PlaceInv
<1>13. CASE Login!Reconnect
  BY <1>13 DEF Login!Reconnect, Login!TypeOK, PlaceInv
<1>14. CASE Login!Restart
  BY <1>14 DEF Login!Restart, Login!TypeOK, PlaceInv
<1>15. CASE Login!Open
  BY <1>15 DEF Login!Open, Login!TypeOK, PlaceInv
<1>16. CASE Login!StartInit
  BY <1>16 DEF Login!StartInit, Login!Goes, Login!TypeOK, PlaceInv
<1>17. CASE UNCHANGED Login!vars
  BY <1>17 DEF Login!vars, Login!TypeOK, PlaceInv
<1>18. QED
  BY <1>1, <1>2, <1>3, <1>4, <1>5, <1>6, <1>7, <1>8, <1>9, <1>10, <1>11, <1>12,
     <1>13, <1>14, <1>15, <1>16, <1>17 DEF Login!Next

LEMMA LineStep ==
  ASSUME Login!ThreadsAssumption, Login!BoundsAssumption
  PROVE  Login!TypeOK /\ LineInv /\ [Login!Next]_Login!vars => LineInv'
<1> SUFFICES ASSUME Login!TypeOK, LineInv, [Login!Next]_Login!vars
             PROVE  LineInv'
  OBVIOUS
<1> USE DEF Login!Threads, Login!ThreadsAssumption, Login!line, Login!server,
        Login!client, Login!local
<1>1. ASSUME NEW t \in Login!Threads, Login!Call(t)
      PROVE  LineInv'
  BY <1>1 DEF Login!Call, Login!TypeOK, LineInv
<1>2. ASSUME NEW t \in Login!Threads, Login!NoAnswer(t)
      PROVE  LineInv'
  BY <1>2 DEF Login!NoAnswer, Login!GiveUp, Login!Goes, Login!Returns,
     Login!TypeOK, LineInv
<1>3. ASSUME NEW t \in Login!Threads, Login!Opened(t)
      PROVE  LineInv'
  BY <1>3 DEF Login!Opened, Login!Answered, Login!Understood, Login!Goes,
     Login!Returns, Login!TypeOK, LineInv
<1>4. ASSUME NEW t \in Login!Threads, Login!GetKey(t)
      PROVE  LineInv'
  BY <1>4 DEF Login!GetKey, Login!Answered, Login!Goes, Login!Returns,
     Login!TypeOK, LineInv
<1>5. ASSUME NEW t \in Login!Threads, Login!Login(t)
      PROVE  LineInv'
  BY <1>5 DEF Login!Login, Login!Answered, Login!GiveUp, Login!Goes,
     Login!Returns, Login!TypeOK, LineInv
<1>6. ASSUME NEW t \in Login!Threads, Login!EnableUpdates(t)
      PROVE  LineInv'
  BY <1>6 DEF Login!EnableUpdates, Login!Answered, Login!Goes, Login!Returns,
     Login!TypeOK, LineInv
<1>7. ASSUME NEW t \in Login!Threads, Login!SetKey(t)
      PROVE  LineInv'
  BY <1>7 DEF Login!SetKey, Login!Goes, Login!TypeOK, LineInv
<1>8. ASSUME NEW t \in Login!Threads, Login!Hash(t)
      PROVE  LineInv'
  BY <1>8 DEF Login!Hash, Login!Goes, Login!GetToken, Login!TypeOK, LineInv
<1>9. ASSUME NEW t \in Login!Threads, Login!SetToken(t)
      PROVE  LineInv'
  BY <1>9 DEF Login!SetToken, Login!Goes, Login!TypeOK, LineInv
<1>10. CASE Login!StartRefresh
  BY <1>10 DEF Login!StartRefresh, Login!TypeOK, LineInv
<1>11. CASE Login!Refresh
  BY <1>11 DEF Login!Refresh, Login!Goes, Login!TypeOK, LineInv
<1>12. CASE Login!Lose
  BY <1>12 DEF Login!Lose, Login!TypeOK, LineInv
<1>13. CASE Login!Reconnect
  BY <1>13 DEF Login!Reconnect, Login!TypeOK, LineInv
<1>14. CASE Login!Restart
  BY <1>14 DEF Login!Restart, Login!TypeOK, LineInv
<1>15. CASE Login!Open
  BY <1>15 DEF Login!Open, Login!TypeOK, LineInv
<1>16. CASE Login!StartInit
  BY <1>16 DEF Login!StartInit, Login!Goes, Login!TypeOK, LineInv
<1>17. CASE UNCHANGED Login!vars
  BY <1>17 DEF Login!vars, Login!TypeOK, LineInv
<1>18. QED
  BY <1>1, <1>2, <1>3, <1>4, <1>5, <1>6, <1>7, <1>8, <1>9, <1>10, <1>11, <1>12,
     <1>13, <1>14, <1>15, <1>16, <1>17 DEF Login!Next

LEMMA RefreshAloneStep ==
  ASSUME Login!ThreadsAssumption, Login!BoundsAssumption
  PROVE  Login!TypeOK /\ PlaceInv /\ LineInv /\ RefreshAlone /\ [Login!Next]_Login!vars =>
           RefreshAlone'
<1> SUFFICES ASSUME Login!TypeOK, PlaceInv, LineInv, RefreshAlone,
                    [Login!Next]_Login!vars
             PROVE  RefreshAlone'
  OBVIOUS
<1> USE DEF Login!Threads, Login!ThreadsAssumption, Login!line, Login!server,
        Login!client, Login!local
<1>1. ASSUME NEW t \in Login!Threads, Login!Call(t)
      PROVE  RefreshAlone'
  BY Levels, <1>1 DEF Login!Call, Login!TypeOK, PlaceInv, LineInv, RefreshAlone
<1>2. ASSUME NEW t \in Login!Threads, Login!NoAnswer(t)
      PROVE  RefreshAlone'
  BY Levels, <1>2 DEF Login!NoAnswer, Login!GiveUp, Login!Goes, Login!Returns,
     Login!TypeOK, PlaceInv,
     LineInv, RefreshAlone
<1>3. ASSUME NEW t \in Login!Threads, Login!Opened(t)
      PROVE  RefreshAlone'
  BY Levels, <1>3 DEF Login!Opened, Login!Answered, Login!Understood,
     Login!Goes, Login!Returns, Login!TypeOK,
     PlaceInv, LineInv, RefreshAlone
<1>4. ASSUME NEW t \in Login!Threads, Login!GetKey(t)
      PROVE  RefreshAlone'
  BY Levels, <1>4 DEF Login!GetKey, Login!Answered, Login!Goes, Login!Returns,
     Login!TypeOK, PlaceInv,
     LineInv, RefreshAlone
<1>5. ASSUME NEW t \in Login!Threads, Login!Login(t)
      PROVE  RefreshAlone'
  BY Levels, <1>5 DEF Login!Login, Login!Answered, Login!GiveUp, Login!Goes,
     Login!Returns, Login!TypeOK, PlaceInv,
     LineInv, RefreshAlone
<1>6. ASSUME NEW t \in Login!Threads, Login!EnableUpdates(t)
      PROVE  RefreshAlone'
  BY Levels, <1>6 DEF Login!EnableUpdates, Login!Answered, Login!Goes,
     Login!Returns, Login!TypeOK, PlaceInv,
     LineInv, RefreshAlone
<1>7. ASSUME NEW t \in Login!Threads, Login!SetKey(t)
      PROVE  RefreshAlone'
  BY Levels, <1>7 DEF Login!SetKey, Login!Goes, Login!TypeOK, PlaceInv, LineInv,
     RefreshAlone
<1>8. ASSUME NEW t \in Login!Threads, Login!Hash(t)
      PROVE  RefreshAlone'
  BY Levels, <1>8 DEF Login!Hash, Login!Goes, Login!GetToken, Login!TypeOK,
     PlaceInv, LineInv, RefreshAlone
<1>9. ASSUME NEW t \in Login!Threads, Login!SetToken(t)
      PROVE  RefreshAlone'
  BY Levels, <1>9 DEF Login!SetToken, Login!Goes, Login!TypeOK, PlaceInv,
     LineInv, RefreshAlone
<1>10. CASE Login!StartRefresh
  <2>1. /\ pc' = [pc EXCEPT ![InitThread] = "none", ![Refresher] = "sleep"]
        /\ pc[InitThread] = "start" /\ UNCHANGED listen
    BY <1>10 DEF Login!StartRefresh
  <2>2. pc'[InitThread] = "none"
    BY <2>1 DEF Login!TypeOK
  <2>3. ~foreign' => of[InitThread] = connection /\ listen # "opens"
    BY <1>10 DEF Login!StartRefresh
  <2>4. ~foreign' => listen = "reads"
    BY <2>3 DEF LineInv, Login!TypeOK
  <2>5. QED
    BY <2>1, <2>2, <2>4 DEF RefreshAlone
<1>11. CASE Login!Refresh
  BY Levels, <1>11 DEF Login!Refresh, Login!Goes, Login!TypeOK, PlaceInv,
     LineInv, RefreshAlone
<1>12. CASE Login!Lose
  BY Levels, <1>12 DEF Login!Lose, Login!TypeOK, PlaceInv, LineInv, RefreshAlone
<1>13. CASE Login!Reconnect
  BY Levels, <1>13 DEF Login!Reconnect, Login!TypeOK, PlaceInv, LineInv,
     RefreshAlone
<1>14. CASE Login!Restart
  BY Levels, <1>14 DEF Login!Restart, Login!TypeOK, PlaceInv, LineInv,
     RefreshAlone
<1>15. CASE Login!Open
  BY Levels, <1>15 DEF Login!Open, Login!TypeOK, PlaceInv, LineInv, RefreshAlone
<1>16. CASE Login!StartInit
  BY Levels, <1>16 DEF Login!StartInit, Login!Goes, Login!TypeOK, PlaceInv,
     LineInv, RefreshAlone
<1>17. CASE UNCHANGED Login!vars
  BY Levels, <1>17 DEF Login!vars, Login!TypeOK, PlaceInv, LineInv, RefreshAlone
<1>18. QED
  BY <1>1, <1>2, <1>3, <1>4, <1>5, <1>6, <1>7, <1>8, <1>9, <1>10, <1>11, <1>12,
     <1>13, <1>14, <1>15, <1>16, <1>17 DEF Login!Next

-----------------------------------------------------------------------------
(* What they log in with *)

LEMMA KeyStep ==
  ASSUME Login!ThreadsAssumption, Login!BoundsAssumption
  PROVE  Login!TypeOK /\ RefreshAlone /\ KeyInv /\ [Login!Next]_Login!vars => KeyInv'
<1> SUFFICES ASSUME Login!TypeOK, RefreshAlone, KeyInv, [Login!Next]_Login!vars
             PROVE  KeyInv'
  OBVIOUS
<1> USE DEF Login!Threads, Login!ThreadsAssumption, Login!line, Login!server,
        Login!client, Login!local
<1>1. ASSUME NEW t \in Login!Threads, Login!Call(t)
      PROVE  KeyInv'
  BY <1>1 DEF Login!Call, Login!TypeOK, RefreshAlone, KeyInv
<1>2. ASSUME NEW t \in Login!Threads, Login!NoAnswer(t)
      PROVE  KeyInv'
  BY <1>2 DEF Login!NoAnswer, Login!GiveUp, Login!Goes, Login!Returns,
     Login!TypeOK, RefreshAlone, KeyInv
<1>3. ASSUME NEW t \in Login!Threads, Login!Opened(t)
      PROVE  KeyInv'
  BY <1>3 DEF Login!Opened, Login!Answered, Login!Understood, Login!Goes,
     Login!Returns, Login!TypeOK, RefreshAlone,
     KeyInv
<1>4. ASSUME NEW t \in Login!Threads, Login!GetKey(t)
      PROVE  KeyInv'
  BY <1>4 DEF Login!GetKey, Login!Answered, Login!Goes, Login!Returns,
     Login!TypeOK, RefreshAlone, KeyInv
<1>5. ASSUME NEW t \in Login!Threads, Login!Login(t)
      PROVE  KeyInv'
  BY <1>5 DEF Login!Login, Login!Answered, Login!GiveUp, Login!Goes,
     Login!Returns, Login!TypeOK, RefreshAlone, KeyInv
<1>6. ASSUME NEW t \in Login!Threads, Login!EnableUpdates(t)
      PROVE  KeyInv'
  BY <1>6 DEF Login!EnableUpdates, Login!Answered, Login!Goes, Login!Returns,
     Login!TypeOK, RefreshAlone, KeyInv
<1>7. ASSUME NEW t \in Login!Threads, Login!SetKey(t)
      PROVE  KeyInv'
  BY <1>7 DEF Login!SetKey, Login!Goes, Login!TypeOK, RefreshAlone, KeyInv
<1>8. ASSUME NEW t \in Login!Threads, Login!Hash(t)
      PROVE  KeyInv'
  BY <1>8 DEF Login!Hash, Login!Goes, Login!GetToken, Login!TypeOK,
     RefreshAlone, KeyInv
<1>9. ASSUME NEW t \in Login!Threads, Login!SetToken(t)
      PROVE  KeyInv'
  BY <1>9 DEF Login!SetToken, Login!Goes, Login!TypeOK, RefreshAlone, KeyInv
<1>10. CASE Login!StartRefresh
  BY <1>10 DEF Login!StartRefresh, Login!TypeOK, RefreshAlone, KeyInv
<1>11. CASE Login!Refresh
  BY <1>11 DEF Login!Refresh, Login!Goes, Login!TypeOK, RefreshAlone, KeyInv
<1>12. CASE Login!Lose
  BY <1>12 DEF Login!Lose, Login!TypeOK, RefreshAlone, KeyInv
<1>13. CASE Login!Reconnect
  BY <1>13 DEF Login!Reconnect, Login!TypeOK, RefreshAlone, KeyInv
<1>14. CASE Login!Restart
  BY <1>14 DEF Login!Restart, Login!TypeOK, RefreshAlone, KeyInv
<1>15. CASE Login!Open
  BY <1>15 DEF Login!Open, Login!TypeOK, RefreshAlone, KeyInv
<1>16. CASE Login!StartInit
  BY <1>16 DEF Login!StartInit, Login!Goes, Login!TypeOK, RefreshAlone, KeyInv
<1>17. CASE UNCHANGED Login!vars
  BY <1>17 DEF Login!vars, Login!TypeOK, RefreshAlone, KeyInv
<1>18. QED
  BY <1>1, <1>2, <1>3, <1>4, <1>5, <1>6, <1>7, <1>8, <1>9, <1>10, <1>11, <1>12,
     <1>13, <1>14, <1>15, <1>16, <1>17 DEF Login!Next

LEMMA TokenStep ==
  ASSUME Login!ThreadsAssumption, Login!BoundsAssumption
  PROVE  Login!TypeOK /\ PlaceInv /\ LineInv /\ RefreshAlone /\ TokenInv /\ [Login!Next]_Login!vars =>
           TokenInv'
<1> SUFFICES ASSUME Login!TypeOK, PlaceInv, LineInv, RefreshAlone, TokenInv,
                    [Login!Next]_Login!vars
             PROVE  TokenInv'
  OBVIOUS
<1> USE DEF Login!Threads, Login!ThreadsAssumption, Login!line, Login!server,
        Login!client, Login!local
<1>1. ASSUME NEW t \in Login!Threads, Login!Call(t)
      PROVE  TokenInv'
  BY <1>1 DEF Login!Call, Login!TypeOK, PlaceInv, LineInv, RefreshAlone,
     TokenInv
<1>2. ASSUME NEW t \in Login!Threads, Login!NoAnswer(t)
      PROVE  TokenInv'
  BY <1>2 DEF Login!NoAnswer, Login!GiveUp, Login!Goes, Login!Returns,
     Login!TypeOK, PlaceInv, LineInv,
     RefreshAlone, TokenInv
<1>3. ASSUME NEW t \in Login!Threads, Login!Opened(t)
      PROVE  TokenInv'
  BY <1>3 DEF Login!Opened, Login!Answered, Login!Understood, Login!Goes,
     Login!Returns, Login!TypeOK, PlaceInv,
     LineInv, RefreshAlone, TokenInv
<1>4. ASSUME NEW t \in Login!Threads, Login!GetKey(t)
      PROVE  TokenInv'
  BY <1>4 DEF Login!GetKey, Login!Answered, Login!Goes, Login!Returns,
     Login!TypeOK, PlaceInv, LineInv,
     RefreshAlone, TokenInv
<1>5. ASSUME NEW t \in Login!Threads, Login!Login(t)
      PROVE  TokenInv'
  BY <1>5 DEF Login!Login, Login!Answered, Login!GiveUp, Login!Goes,
     Login!Returns, Login!TypeOK, PlaceInv,
     LineInv, RefreshAlone, TokenInv
<1>6. ASSUME NEW t \in Login!Threads, Login!EnableUpdates(t)
      PROVE  TokenInv'
  BY <1>6 DEF Login!EnableUpdates, Login!Answered, Login!Goes, Login!Returns,
     Login!TypeOK, PlaceInv,
     LineInv, RefreshAlone, TokenInv
<1>7. ASSUME NEW t \in Login!Threads, Login!SetKey(t)
      PROVE  TokenInv'
  BY <1>7 DEF Login!SetKey, Login!Goes, Login!TypeOK, PlaceInv, LineInv,
     RefreshAlone, TokenInv
<1>8. ASSUME NEW t \in Login!Threads, Login!Hash(t)
      PROVE  TokenInv'
  BY <1>8 DEF Login!Hash, Login!Goes, Login!GetToken, Login!TypeOK, PlaceInv,
     LineInv, RefreshAlone,
     TokenInv
<1>9. ASSUME NEW t \in Login!Threads, Login!SetToken(t)
      PROVE  TokenInv'
  BY <1>9 DEF Login!SetToken, Login!Goes, Login!TypeOK, PlaceInv, LineInv,
     RefreshAlone, TokenInv
<1>10. CASE Login!StartRefresh
  <2>1. /\ pc' = [pc EXCEPT ![InitThread] = "none", ![Refresher] = "sleep"]
        /\ pc[InitThread] = "start" /\ UNCHANGED <<listen, token, stopped, what, asked>>
    BY <1>10 DEF Login!StartRefresh
  <2>2. pc'[InitThread] = "none" /\ pc'[Refresher] = "sleep"
    BY <2>1 DEF Login!TypeOK
  <2>3. ~foreign' => of[InitThread] = connection /\ listen # "opens"
    BY <1>10 DEF Login!StartRefresh
  <2>4. ~foreign' => listen = "reads"
    BY <2>3 DEF LineInv, Login!TypeOK
  <2>5. ~foreign' => token \/ stopped
    BY <2>1, <2>4 DEF TokenInv
  <2>6. QED
    BY <2>1, <2>2, <2>5 DEF TokenInv
<1>11. CASE Login!Refresh
  BY <1>11 DEF Login!Refresh, Login!Goes, Login!TypeOK, PlaceInv, LineInv,
     RefreshAlone, TokenInv
<1>12. CASE Login!Lose
  BY <1>12 DEF Login!Lose, Login!TypeOK, PlaceInv, LineInv, RefreshAlone,
     TokenInv
<1>13. CASE Login!Reconnect
  BY <1>13 DEF Login!Reconnect, Login!TypeOK, PlaceInv, LineInv, RefreshAlone,
     TokenInv
<1>14. CASE Login!Restart
  BY <1>14 DEF Login!Restart, Login!TypeOK, PlaceInv, LineInv, RefreshAlone,
     TokenInv
<1>15. CASE Login!Open
  BY <1>15 DEF Login!Open, Login!TypeOK, PlaceInv, LineInv, RefreshAlone,
     TokenInv
<1>16. CASE Login!StartInit
  BY <1>16 DEF Login!StartInit, Login!Goes, Login!TypeOK, PlaceInv, LineInv,
     RefreshAlone, TokenInv
<1>17. CASE UNCHANGED Login!vars
  BY <1>17 DEF Login!vars, Login!TypeOK, PlaceInv, LineInv, RefreshAlone,
     TokenInv
<1>18. QED
  BY <1>1, <1>2, <1>3, <1>4, <1>5, <1>6, <1>7, <1>8, <1>9, <1>10, <1>11, <1>12,
     <1>13, <1>14, <1>15, <1>16, <1>17 DEF Login!Next

LEMMA LevelStep ==
  ASSUME Login!ThreadsAssumption, Login!BoundsAssumption
  PROVE  Login!TypeOK /\ PlaceInv /\ LineInv /\ LevelInv /\ [Login!Next]_Login!vars =>
           LevelInv'
<1> SUFFICES ASSUME Login!TypeOK, PlaceInv, LineInv, LevelInv, [Login!Next]_Login!vars
             PROVE  LevelInv'
  OBVIOUS
<1> USE DEF Login!Threads, Login!ThreadsAssumption, Login!line, Login!server,
        Login!client, Login!local
<1>1. ASSUME NEW t \in Login!Threads, Login!Call(t)
      PROVE  LevelInv'
  BY Levels, <1>1 DEF Login!Call, Login!TypeOK, PlaceInv, LineInv, LevelInv
<1>2. ASSUME NEW t \in Login!Threads, Login!NoAnswer(t)
      PROVE  LevelInv'
  BY Levels, <1>2 DEF Login!NoAnswer, Login!GiveUp, Login!Goes, Login!Returns,
     Login!TypeOK, PlaceInv,
     LineInv, LevelInv
<1>3. ASSUME NEW t \in Login!Threads, Login!Opened(t)
      PROVE  LevelInv'
  BY Levels, <1>3 DEF Login!Opened, Login!Answered, Login!Understood,
     Login!Goes, Login!Returns, Login!TypeOK,
     PlaceInv, LineInv, LevelInv
<1>4. ASSUME NEW t \in Login!Threads, Login!GetKey(t)
      PROVE  LevelInv'
  BY Levels, <1>4 DEF Login!GetKey, Login!Answered, Login!Goes, Login!Returns,
     Login!TypeOK, PlaceInv,
     LineInv, LevelInv
<1>5. ASSUME NEW t \in Login!Threads, Login!Login(t)
      PROVE  LevelInv'
  BY Levels, <1>5 DEF Login!Login, Login!Answered, Login!GiveUp, Login!Goes,
     Login!Returns, Login!TypeOK, PlaceInv,
     LineInv, LevelInv
<1>6. ASSUME NEW t \in Login!Threads, Login!EnableUpdates(t)
      PROVE  LevelInv'
  BY Levels, <1>6 DEF Login!EnableUpdates, Login!Answered, Login!Goes,
     Login!Returns, Login!TypeOK, PlaceInv,
     LineInv, LevelInv
<1>7. ASSUME NEW t \in Login!Threads, Login!SetKey(t)
      PROVE  LevelInv'
  BY Levels, <1>7 DEF Login!SetKey, Login!Goes, Login!TypeOK, PlaceInv, LineInv,
     LevelInv
<1>8. ASSUME NEW t \in Login!Threads, Login!Hash(t)
      PROVE  LevelInv'
  BY Levels, <1>8 DEF Login!Hash, Login!Goes, Login!GetToken, Login!TypeOK,
     PlaceInv, LineInv, LevelInv
<1>9. ASSUME NEW t \in Login!Threads, Login!SetToken(t)
      PROVE  LevelInv'
  BY Levels, <1>9 DEF Login!SetToken, Login!Goes, Login!TypeOK, PlaceInv,
     LineInv, LevelInv
<1>10. CASE Login!StartRefresh
  BY Levels, <1>10 DEF Login!StartRefresh, Login!TypeOK, PlaceInv, LineInv,
     LevelInv
<1>11. CASE Login!Refresh
  BY Levels, <1>11 DEF Login!Refresh, Login!Goes, Login!TypeOK, PlaceInv,
     LineInv, LevelInv
<1>12. CASE Login!Lose
  BY Levels, <1>12 DEF Login!Lose, Login!TypeOK, PlaceInv, LineInv, LevelInv
<1>13. CASE Login!Reconnect
  BY Levels, <1>13 DEF Login!Reconnect, Login!TypeOK, PlaceInv, LineInv,
     LevelInv
<1>14. CASE Login!Restart
  BY Levels, <1>14 DEF Login!Restart, Login!TypeOK, PlaceInv, LineInv, LevelInv
<1>15. CASE Login!Open
  BY Levels, <1>15 DEF Login!Open, Login!TypeOK, PlaceInv, LineInv, LevelInv
<1>16. CASE Login!StartInit
  BY Levels, <1>16 DEF Login!StartInit, Login!Goes, Login!TypeOK, PlaceInv,
     LineInv, LevelInv
<1>17. CASE UNCHANGED Login!vars
  BY Levels, <1>17 DEF Login!vars, Login!TypeOK, PlaceInv, LineInv, LevelInv
<1>18. QED
  BY <1>1, <1>2, <1>3, <1>4, <1>5, <1>6, <1>7, <1>8, <1>9, <1>10, <1>11, <1>12,
     <1>13, <1>14, <1>15, <1>16, <1>17 DEF Login!Next

LEMMA LoginRefusals ==
  ASSUME Login!ThreadsAssumption, Login!BoundsAssumption
  PROVE  Login!TypeOK /\ LineInv /\ KeyInv /\ TokenInv /\ Login!NotRefused /\ [Login!Next]_Login!vars =>
           Login!NotRefused'
<1> SUFFICES ASSUME Login!TypeOK, LineInv, KeyInv, TokenInv, Login!NotRefused,
                    [Login!Next]_Login!vars
             PROVE  Login!NotRefused'
  OBVIOUS
<1> USE DEF Login!Threads, Login!ThreadsAssumption, Login!line, Login!server,
        Login!client, Login!local
<1>1. ASSUME NEW t \in Login!Threads, Login!Call(t)
      PROVE  Login!NotRefused'
  BY <1>1 DEF Login!Call, Login!TypeOK, LineInv, KeyInv, TokenInv,
     Login!NotRefused
<1>2. ASSUME NEW t \in Login!Threads, Login!NoAnswer(t)
      PROVE  Login!NotRefused'
  BY <1>2 DEF Login!NoAnswer, Login!GiveUp, Login!Goes, Login!Returns,
     Login!TypeOK, LineInv, KeyInv,
     TokenInv, Login!NotRefused
<1>3. ASSUME NEW t \in Login!Threads, Login!Opened(t)
      PROVE  Login!NotRefused'
  BY <1>3 DEF Login!Opened, Login!Answered, Login!Understood, Login!Goes,
     Login!Returns, Login!TypeOK, LineInv,
     KeyInv, TokenInv, Login!NotRefused
<1>4. ASSUME NEW t \in Login!Threads, Login!GetKey(t)
      PROVE  Login!NotRefused'
  BY <1>4 DEF Login!GetKey, Login!Answered, Login!Goes, Login!Returns,
     Login!TypeOK, LineInv, KeyInv,
     TokenInv, Login!NotRefused
<1>5. ASSUME NEW t \in Login!Threads, Login!Login(t)
      PROVE  Login!NotRefused'
  <2>1. refused' => refused \/ hash[t] # given \/ what[t] = "nothing"
    BY <1>5 DEF Login!Login
  <2>2. UNCHANGED foreign /\ pc[t] = "login" /\ asked[t] = connection /\ listen = "reads"
    BY <1>5 DEF Login!Login, Login!Answered, Login!line
  <2>3. ~foreign => hash[t] = given
    BY <2>2 DEF KeyInv
  <2>4. ~foreign => what[t] # "nothing"
    <3>1. CASE t = InitThread
      BY <3>1 DEF TokenInv
    <3>2. CASE t = Refresher
      BY <2>2, <3>2 DEF LineInv, Login!TypeOK, TokenInv
    <3>3. QED
      BY <3>1, <3>2
  <2>5. QED
    BY <2>1, <2>2, <2>3, <2>4 DEF Login!NotRefused
<1>6. ASSUME NEW t \in Login!Threads, Login!EnableUpdates(t)
      PROVE  Login!NotRefused'
  BY <1>6 DEF Login!EnableUpdates, Login!Answered, Login!Goes, Login!Returns,
     Login!TypeOK, LineInv, KeyInv,
     TokenInv, Login!NotRefused
<1>7. ASSUME NEW t \in Login!Threads, Login!SetKey(t)
      PROVE  Login!NotRefused'
  BY <1>7 DEF Login!SetKey, Login!Goes, Login!TypeOK, LineInv, KeyInv, TokenInv,
     Login!NotRefused
<1>8. ASSUME NEW t \in Login!Threads, Login!Hash(t)
      PROVE  Login!NotRefused'
  BY <1>8 DEF Login!Hash, Login!Goes, Login!GetToken, Login!TypeOK, LineInv,
     KeyInv, TokenInv,
     Login!NotRefused
<1>9. ASSUME NEW t \in Login!Threads, Login!SetToken(t)
      PROVE  Login!NotRefused'
  BY <1>9 DEF Login!SetToken, Login!Goes, Login!TypeOK, LineInv, KeyInv,
     TokenInv, Login!NotRefused
<1>10. CASE Login!StartRefresh
  BY <1>10 DEF Login!StartRefresh, Login!TypeOK, LineInv, KeyInv, TokenInv,
     Login!NotRefused
<1>11. CASE Login!Refresh
  BY <1>11 DEF Login!Refresh, Login!Goes, Login!TypeOK, LineInv, KeyInv,
     TokenInv, Login!NotRefused
<1>12. CASE Login!Lose
  BY <1>12 DEF Login!Lose, Login!TypeOK, LineInv, KeyInv, TokenInv,
     Login!NotRefused
<1>13. CASE Login!Reconnect
  BY <1>13 DEF Login!Reconnect, Login!TypeOK, LineInv, KeyInv, TokenInv,
     Login!NotRefused
<1>14. CASE Login!Restart
  BY <1>14 DEF Login!Restart, Login!TypeOK, LineInv, KeyInv, TokenInv,
     Login!NotRefused
<1>15. CASE Login!Open
  BY <1>15 DEF Login!Open, Login!TypeOK, LineInv, KeyInv, TokenInv,
     Login!NotRefused
<1>16. CASE Login!StartInit
  BY <1>16 DEF Login!StartInit, Login!Goes, Login!TypeOK, LineInv, KeyInv,
     TokenInv, Login!NotRefused
<1>17. CASE UNCHANGED Login!vars
  BY <1>17 DEF Login!vars, Login!TypeOK, LineInv, KeyInv, TokenInv,
     Login!NotRefused
<1>18. QED
  BY <1>1, <1>2, <1>3, <1>4, <1>5, <1>6, <1>7, <1>8, <1>9, <1>10, <1>11, <1>12,
     <1>13, <1>14, <1>15, <1>16, <1>17 DEF Login!Next

-----------------------------------------------------------------------------
(* The invariant *)

LEMMA LoginInvInit ==
  ASSUME Login!ThreadsAssumption, Login!BoundsAssumption
  PROVE  Login!Init => LoginInv
<1> USE DEF Login!Threads, Login!ThreadsAssumption, Login!BoundsAssumption
<1>1. Login!Init => Login!TypeOK
  <2> SUFFICES ASSUME Login!Init PROVE Login!TypeOK
    OBVIOUS
  <2>1. stopped \in BOOLEAN /\ token \in BOOLEAN /\ validUntil \in BOOLEAN
        /\ refused \in BOOLEAN /\ foreign \in BOOLEAN
    BY DEF Login!Init
  <2>2. of = [t \in Login!Threads |-> 0] /\ asked = of /\ got = of /\ hash = of
    BY DEF Login!Init
  <2>3. listen = "opens" /\ connection = 0 /\ level = 0 /\ given = 0 /\ issued = 0
        /\ key = 0 /\ pc = [t \in Login!Threads |-> "none"]
        /\ what = [t \in Login!Threads |-> "password"]
    BY DEF Login!Init
  <2>4. QED
    BY Levels, <2>1, <2>2, <2>3 DEF Login!TypeOK, Login!LoggedIn
<1>2. Login!Init => PlaceInv /\ LineInv /\ RefreshAlone /\ KeyInv /\ TokenInv /\ LevelInv
  BY DEF Login!Init, PlaceInv, LineInv, RefreshAlone, KeyInv, TokenInv, LevelInv
<1>3. Login!Init => Login!NotRefused
  BY DEF Login!Init, Login!NotRefused
<1>4. QED
  BY <1>1, <1>2, <1>3 DEF LoginInv

LEMMA LoginInvStep ==
  ASSUME Login!ThreadsAssumption, Login!BoundsAssumption
  PROVE  LoginInv /\ [Login!Next]_Login!vars => LoginInv'
BY LoginTypes, PlaceStep, LineStep, RefreshAloneStep, KeyStep, TokenStep,
   LevelStep,
   LoginRefusals DEF LoginInv

-----------------------------------------------------------------------------
(* All of them *)

PartsInv ==
  /\ runs = "Encryption" => SaltInv
  /\ runs = "SecuredCommands" => VisuInv
  /\ runs = "Session" => LoginInv

LEMMA Invariant == Spec => []PartsInv
<1> USE ConstantsAssumption DEF ConstantsAssumption
<1>1. Init => PartsInv
  BY SaltInvInit, VisuInvInit, LoginInvInit DEF Init, PartsInv
<1>2. PartsInv /\ [Next]_vars => PartsInv'
  <2> SUFFICES ASSUME PartsInv, [Next]_vars
               PROVE  PartsInv'
    OBVIOUS
  <2>1. CASE InSalt(Salt!Next)
    BY <2>1, SaltInvStep DEF InSalt, PartsInv
  <2>2. CASE InVisu(Visu!Next)
    BY <2>2, VisuInvStep DEF InVisu, PartsInv
  <2>3. CASE InLogin(Login!Next)
    BY <2>3, LoginInvStep DEF InLogin, PartsInv
  <2>4. CASE UNCHANGED vars
    <3>1. UNCHANGED <<runs, Salt!vars, Visu!vars, Login!vars>>
      BY <2>4 DEF vars, keys, encryption, secured, session, Salt!vars,
         Visu!vars, Login!vars
    <3>2. QED
      BY <3>1, SaltInvStep, VisuInvStep, LoginInvStep DEF PartsInv
  <2>5. QED
    BY <2>1, <2>2, <2>3, <2>4 DEF Next
<1>3. QED
  BY <1>1, <1>2, PTL DEF Spec

-----------------------------------------------------------------------------
(* What follows from it *)

(* Salts, keys, hashes and connections are those that were there, in each of
   the three. *)
TypesOK ==
  /\ runs = "Encryption" => Salt!TypeOK
  /\ runs = "SecuredCommands" => Visu!TypeOK
  /\ runs = "Session" => Login!TypeOK

THEOREM TypeCorrect == Spec => []TypesOK
<1>1. PartsInv => TypesOK
  BY DEF PartsInv, TypesOK, SaltInv, VisuInv, LoginInv
<1>2. QED
  BY <1>1, Invariant, PTL

(* Without a race the Miniserver expects the salt of the next command, through
   any number of renewals and reconnections, and refreshToken() misses only the
   answer of a command that renewed it (LoxoneEncryption.cpp, getSalt() and
   removeSalt()). *)
THEOREM SaltsStayInStep == Spec => []InStep
<1>1. SaltInv => Salt!InStep
  <2> SUFFICES ASSUME SaltInv, Salt!Quiet, ~raced
               PROVE  server \in {None, salt}
    BY DEF Salt!InStep
  <2>1. ChainInv /\ wire = <<>> /\ \A t \in Salt!Threads : ~Salt!Inside(t)
    BY DEF Salt!Quiet, Calm, SaltInv, CalmInv
  <2>2. QED
    BY <2>1 DEF ChainInv, Last
<1>2. SaltInv => Salt!AnswerLostOnly
  <2> SUFFICES ASSUME SaltInv, Salt!Unanswered, ~stopped, ~raced
               PROVE  renewing
    BY DEF Salt!AnswerLostOnly
  <2>1. AnswerInv
    BY DEF SaltInv, CalmInv, Calm
  <2>2. QED
    BY <2>1 DEF Salt!Unanswered, AnswerInv, Asks
<1>3. PartsInv => InStep
  BY <1>1, <1>2 DEF PartsInv, InStep
<1>4. QED
  BY <1>3, Invariant, PTL

(* A secured command has the hash of the key and the salt of one answer, if
   only its thread prepares commands and the preparation succeeds; the
   Miniserver refuses one only if two threads made commands at once or the
   connection was given up (Miniserver.cpp, lines 45, 403 and 404). *)
THEOREM HashesAreOfOneAnswer == Spec => []OneAnswer
<1>1. VisuInv => Visu!OneAnswer /\ Visu!NoSilentRefusal
  BY DEF VisuInv, LatestInv, Latest, Visu!OneAnswer
<1>2. PartsInv => OneAnswer
  BY <1>1 DEF PartsInv, OneAnswer
<1>3. QED
  BY <1>2, Invariant, PTL

(* The right password and the right token are refused only if a refreshToken()
   of another connection is at work (Miniserver.cpp, acquireToken() and
   refreshToken()). *)
THEOREM LoginsAreAccepted == Spec => []NotRefused
<1>1. PartsInv => NotRefused
  BY DEF PartsInv, LoginInv, NotRefused
<1>2. QED
  BY <1>1, Invariant, PTL

(* init() starts refreshToken() on its connection only when it is logged in
   there, although it goes on when the log-in failed. *)
THEOREM InitIsLoggedIn == Spec => []UpdatesLoggedIn
<1>1. LoginInv => Login!UpdatesLoggedIn
  BY DEF LoginInv, LevelInv, Login!UpdatesLoggedIn
<1>2. PartsInv => UpdatesLoggedIn
  BY <1>1 DEF PartsInv, UpdatesLoggedIn
<1>3. QED
  BY <1>2, Invariant, PTL
=============================================================================
