----------------------------- MODULE PeerParts -----------------------------
(***************************************************************************)
(* The parts of a peer that share no state, each checked by itself:        *)
(* PeerStore, the rows of its control in the database (Rows: one control   *)
(* that changes; Kinds: one control of every type), Commands, the commands *)
(* made of values, ConfigParameters, and DaytimerEntries.  A behavior runs *)
(* one of them, and what only the others have is Unused.                   *)
(***************************************************************************)
EXTENDS Naturals

CONSTANTS
  None, Unused,
  Uuid, Rooms, NoRoom, Default,                               \* of PeerStore
  Entries, Interfaces, MaxSaves, MaxCrashes,                  \* of Rows
  KindEntries, KindInterfaces, MaxKindSaves, MaxKindCrashes,  \* of Kinds
  Callers,                                                    \* of Commands
  Clients, Searcher,                                          \* of ConfigParameters
  Values, MaxSteps,                                           \* of both
  Channels, MaxEntries, MaxPackets                            \* of DaytimerEntries

VARIABLES
  runs,  \* the part that runs
  up, control, home, attached, queue, table, last, ever, saves, crashes,
  frame, class, call, args, at, told, theirs, refused,
  central, file, configured, db, todo, place, seen, raced, clients,
  daytimer, packet, count, entry, field, shown,
  mem,      \* of Commands or ConfigParameters,
  channel,  \* of Commands or DaytimerEntries,
  steps     \* and of these three

Rows == INSTANCE PeerStore
Kinds == INSTANCE PeerStore WITH
  Entries <- KindEntries, Interfaces <- KindInterfaces,
  MaxSaves <- MaxKindSaves, MaxCrashes <- MaxKindCrashes
Commands == INSTANCE Commands WITH Clients <- Callers
Config == INSTANCE ConfigParameters WITH Blank <- None, control <- configured
Daytimer == INSTANCE DaytimerEntries

ASSUME PartsAssumption ==
  /\ Rows!EntriesAssumption /\ Rows!BoundsAssumption
  /\ Kinds!EntriesAssumption /\ Kinds!BoundsAssumption
  /\ Commands!BoundsAssumption /\ Daytimer!BoundsAssumption
  /\ Config!SearcherAssumption /\ Config!BlankAssumption /\ Config!BoundsAssumption

store == <<up, control, home, attached, queue, table, last, ever, saves, crashes>>
commands == <<frame, class, call, args, at, told, theirs, refused>>
config == <<central, file, configured, db, todo, place, seen, raced, clients>>
entries == <<daytimer, packet, count, entry, field, shown>>
vars == <<runs, store, commands, config, entries, mem, channel, steps>>

NoStore ==
  /\ up = Unused /\ control = Unused /\ home = Unused /\ attached = Unused
  /\ queue = Unused /\ table = Unused /\ last = Unused /\ ever = Unused
  /\ saves = Unused /\ crashes = Unused
NoCommands ==
  /\ frame = Unused /\ class = Unused /\ call = Unused /\ args = Unused
  /\ at = Unused /\ told = Unused /\ theirs = Unused /\ refused = Unused
NoConfig ==
  /\ central = Unused /\ file = Unused /\ configured = Unused /\ db = Unused
  /\ todo = Unused /\ place = Unused /\ seen = Unused /\ raced = Unused
  /\ clients = Unused
NoEntries ==
  /\ daytimer = Unused /\ packet = Unused /\ count = Unused /\ entry = Unused
  /\ field = Unused /\ shown = Unused
NoSteps == mem = Unused /\ channel = Unused /\ steps = Unused

StoreInit ==
  /\ \/ runs = "Rows" /\ Rows!Init
     \/ runs = "Kinds" /\ Kinds!Init
  /\ NoCommands /\ NoConfig /\ NoEntries /\ NoSteps

Init ==
  \/ StoreInit
  \/ runs = "Commands" /\ Commands!Init /\ NoStore /\ NoConfig /\ NoEntries
  \/ /\ runs = "Config" /\ Config!Init
     /\ NoStore /\ NoCommands /\ NoEntries /\ channel = Unused
  \/ /\ runs = "Daytimer" /\ Daytimer!Init
     /\ NoStore /\ NoCommands /\ NoConfig /\ mem = Unused

StoreNext ==
  /\ \/ runs = "Rows" /\ Rows!Next
     \/ runs = "Kinds" /\ Kinds!Next
  /\ UNCHANGED <<runs, commands, config, entries, mem, channel, steps>>

Next ==
  \/ StoreNext
  \/ /\ runs = "Commands" /\ Commands!Next
     /\ UNCHANGED <<runs, store, config, entries>>
  \/ /\ runs = "Config" /\ Config!Next
     /\ UNCHANGED <<runs, store, commands, entries, channel>>
  \/ /\ runs = "Daytimer" /\ Daytimer!Next
     /\ UNCHANGED <<runs, store, commands, config, mem>>

Spec == Init /\ [][Next]_vars
StoreSpec == StoreInit /\ [][StoreNext]_vars

-----------------------------------------------------------------------------
(* Properties, each that of its module *)

\* What the rows give back: once they are written, a save survives a restart; a
\* mixture of old and new rows holds nothing that no structure file had, and
\* what is routed packets can be found by a search; the number of a control
\* leads back to its class, for every type.
RowsFaithful ==
  /\ runs = "Rows" =>
       Rows!NothingLost /\ Rows!NothingInvented /\ Rows!StatesImplyIdentity
  /\ runs = "Kinds" => Kinds!NumbersAgree

\* A peer never changes the interface it is saved with.
HomeKept == [][runs = "Rows" => Rows!StaysHome]_vars

\* A control restored from the rows has the class of its type.
ClassRestored == [][runs = "Rows" => Rows!RestoresClass]_vars

\* A command is made with the value its caller gave, and of calls that overlap
\* one command has all the values stored.
OwnValues == runs = "Commands" => Commands!OwnValue /\ Commands!NoValueForgotten

\* Every frame of the descriptions is carried out with all its elements.
Carried == runs = "Commands" => Commands!Carried

\* A restart gives the parameters their values back, the clients know them, and
\* after a search they show how the control is configured.
ParametersAgree ==
  runs = "Config" =>
    Config!DatabaseFollows /\ Config!EventsFollow /\ Config!SearchShows

\* The channels of a day timer show the entries of the last packet, in their
\* order, and at most one of them has values of two packets.
EntriesShown == runs = "Daytimer" => Daytimer!EntriesShown /\ Daytimer!OneTorn
=============================================================================
