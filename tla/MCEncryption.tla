---------------------------- MODULE MCEncryption ----------------------------
(***************************************************************************)
(* What the threads have in common of LoxoneEncryption: Encryption, the    *)
(* salt and the cipher handle of all commands, SecuredCommands, the key of *)
(* the visualisation, and Session, the key and the token of the log-in.    *)
(* The three have different fields of it and are checked one at a time: a  *)
(* behavior runs one of them, and what only the others have is Unused.     *)
(***************************************************************************)
EXTENDS Naturals

CONSTANTS
  None, InitThread, Refresher, Unused,
  Callers, MaxUses, Salts, MaxWire,  \* of Encryption
  Senders, MaxSalts, MaxLosses,      \* of SecuredCommands
  MaxConnections, MaxKeys            \* of Session

VARIABLES
  runs,  \* the module that runs
  stopped, pc,                                                  \* all of them
  salt,                                                         \* the first two
  key, hash, issued, refused,                                   \* the last two
  uses, cipher, command, wire, echo, lpc, control, server, raced, renewing,
  mine, made, fresh, gaveUp, crossed, losses,
  listen, connection, level, given, token, validUntil, of, asked, got, what,
  foreign

Salt == INSTANCE Encryption WITH Senders <- Callers
Visu == INSTANCE SecuredCommands
Login == INSTANCE Session

ASSUME ConstantsAssumption ==
  /\ Salt!RefresherAssumption /\ Salt!BoundsAssumption /\ Salt!SaltsAssumption
  /\ Visu!InitThreadAssumption /\ Visu!BoundsAssumption
  /\ Login!ThreadsAssumption /\ Login!BoundsAssumption

keys == <<key, hash, issued, refused>>
encryption == <<uses, cipher, command, wire, echo, lpc, control, server, raced, renewing>>
secured == <<mine, made, fresh, gaveUp, crossed, losses>>
session == <<listen, connection, level, given, token, validUntil, of, asked, got,
             what, foreign>>
vars == <<runs, stopped, pc, salt, keys, encryption, secured, session>>

NoKeys == key = Unused /\ hash = Unused /\ issued = Unused /\ refused = Unused
NoEncryption ==
  /\ uses = Unused /\ cipher = Unused /\ command = Unused /\ wire = Unused
  /\ echo = Unused /\ lpc = Unused /\ control = Unused /\ server = Unused
  /\ raced = Unused /\ renewing = Unused
NoSecured ==
  /\ mine = Unused /\ made = Unused /\ fresh = Unused /\ gaveUp = Unused
  /\ crossed = Unused /\ losses = Unused
NoSession ==
  /\ listen = Unused /\ connection = Unused /\ level = Unused /\ given = Unused
  /\ token = Unused /\ validUntil = Unused /\ of = Unused /\ asked = Unused
  /\ got = Unused /\ what = Unused /\ foreign = Unused

Init ==
  \/ runs = "Encryption" /\ Salt!Init /\ NoKeys /\ NoSecured /\ NoSession
  \/ runs = "SecuredCommands" /\ Visu!Init /\ NoEncryption /\ NoSession
  \/ runs = "Session" /\ Login!Init /\ salt = Unused /\ NoEncryption /\ NoSecured

\* A step of the module that runs.
InSalt(A) == runs = "Encryption" /\ A /\ UNCHANGED <<runs, keys, secured, session>>
InVisu(A) == runs = "SecuredCommands" /\ A /\ UNCHANGED <<runs, encryption, session>>
InLogin(A) == runs = "Session" /\ A /\ UNCHANGED <<runs, salt, encryption, secured>>

Next == InSalt(Salt!Next) \/ InVisu(Visu!Next) \/ InLogin(Login!Next)

\* The fairness of Encryption.
Fairness ==
  /\ WF_vars(InSalt(Salt!EncryptCommand(Refresher)))
  /\ \A t \in Callers : WF_vars(InSalt(pc[t] # "idle" /\ Salt!EncryptCommand(t)))
  /\ WF_vars(InSalt(Salt!Receive))
  /\ WF_vars(InSalt(Salt!Listen))
  /\ WF_vars(InSalt(Salt!TimesOut))
  /\ WF_vars(InSalt(Salt!Reconnect))

Spec == Init /\ [][Next]_vars /\ Fairness

-----------------------------------------------------------------------------
(* Properties, each that of its module *)

\* Without a race the Miniserver expects the salt that the next command has,
\* and refreshToken() misses only the answer of a command that renewed it.
InStep == runs = "Encryption" => Salt!InStep /\ Salt!AnswerLostOnly

\* What a race has put out of step is in step again.
Resyncs == []<>(runs = "Encryption" => Salt!Resynced)

\* A secured command has the hash of the key and the salt of one answer, and
\* one that is refused is no silent loss.
OneAnswer == runs = "SecuredCommands" => Visu!OneAnswer /\ Visu!NoSilentRefusal

\* The right password and the right token are never refused.
NotRefused == runs = "Session" => Login!NotRefused

\* init() gets to its end only if it is logged in.
UpdatesLoggedIn == runs = "Session" => Login!UpdatesLoggedIn
=============================================================================
