--------------------------- MODULE DaytimerEntries ---------------------------
(***************************************************************************)
(* The entries of a day timer: its packet has all of them, and the listen  *)
(* thread writes them into the channels from 3, field by field and without *)
(* a lock, while clients read the variables.  The entries are neither      *)
(* saved nor told as events; and after a restart the control is a plain    *)
(* LoxoneControl, whose packetReceived() does nothing, until the next      *)
(* search makes it a Daytimer again.                                       *)
(***************************************************************************)
EXTENDS Naturals, Sequences, FiniteSets

CONSTANTS
  Channels,    \* the channels for entries the description has
  MaxEntries,  \* bound: entries of a packet
  MaxPackets   \* bound: packets and restarts

BoundsAssumption == Channels \in Nat \ {0} /\ MaxEntries \in Nat /\ MaxPackets \in Nat

Fields == <<"ID", "FROM", "TO", "MODE", "NEED_ACTIVATE", "VALUE">>

VARIABLES
  daytimer, \* the control is a Daytimer
  packet,   \* number of the last packet it received, 0: none since the start
  count,    \* its entries
  entry,    \* the entry being written; 0: none
  channel,  \* the channel it goes to
  field,    \* the field written next
  shown,    \* of each channel and field: packet and entry its value is of
  steps

vars == <<daytimer, packet, count, entry, channel, field, shown, steps>>

Nothing == [packet |-> 0, entry |-> 0]
Blank == [c \in 1 .. Channels |-> [f \in DOMAIN Fields |-> Nothing]]

Receive ==
  /\ daytimer /\ entry = 0 /\ steps < MaxPackets /\ steps' = steps + 1
  /\ packet' = steps' /\ count' \in 0 .. MaxEntries
  /\ entry' = IF count' = 0 THEN 0 ELSE 1
  /\ channel' = 1 /\ field' = 1
  /\ UNCHANGED <<daytimer, shown>>

\* LoxoneControl::packetReceived()
Ignore ==
  /\ ~daytimer /\ steps < MaxPackets /\ steps' = steps + 1
  /\ UNCHANGED <<daytimer, packet, count, entry, channel, field, shown>>

\* updatePeer(): the listen thread may be within a packet.
Search ==
  /\ daytimer' = TRUE
  /\ UNCHANGED <<packet, count, entry, channel, field, shown, steps>>

NextEntry == entry' = IF entry = count THEN 0 ELSE entry + 1

\* The map of the channel has no such field: the channel stays the next one.
SkipEntry ==
  /\ entry > 0 /\ channel > Channels /\ NextEntry
  /\ UNCHANGED <<daytimer, packet, count, channel, field, shown, steps>>

(* Mutant of WriteField: the channel is advanced with the field. *)
WriteFieldAstray ==
  /\ entry > 0 /\ channel <= Channels
  /\ shown' = [shown EXCEPT ![channel][field] = [packet |-> packet, entry |-> entry]]
  /\ IF field < Len(Fields) THEN field' = field + 1 /\ UNCHANGED entry
     ELSE field' = 1 /\ NextEntry
  /\ channel' = IF field' = 1 \/ field = 3 THEN channel + 1 ELSE channel
  /\ UNCHANGED <<daytimer, packet, count, steps>>

(* Mutant of WriteField: the channel is not advanced. *)
WriteFieldInPlace ==
  /\ entry > 0 /\ channel <= Channels
  /\ shown' = [shown EXCEPT ![channel][field] = [packet |-> packet, entry |-> entry]]
  /\ IF field < Len(Fields) THEN field' = field + 1 /\ UNCHANGED entry
     ELSE field' = 1 /\ NextEntry
  /\ UNCHANGED <<daytimer, packet, count, channel, steps>>

WriteField ==
  /\ entry > 0 /\ channel <= Channels
  /\ shown' = [shown EXCEPT ![channel][field] = [packet |-> packet, entry |-> entry]]
  /\ IF field < Len(Fields) THEN field' = field + 1 /\ UNCHANGED <<entry, channel>>
     ELSE field' = 1 /\ channel' = channel + 1 /\ NextEntry
  /\ UNCHANGED <<daytimer, packet, count, steps>>

\* What is not saved is gone.
Restart ==
  /\ steps < MaxPackets /\ steps' = steps + 1
  /\ daytimer' = FALSE
  /\ packet' = 0 /\ count' = 0 /\ entry' = 0 /\ channel' = 1 /\ field' = 1
  /\ shown' = Blank

\* A new peer, or one that was restored.
Init ==
  /\ daytimer \in BOOLEAN
  /\ packet = 0 /\ count = 0 /\ entry = 0 /\ channel = 1 /\ field = 1
  /\ shown = Blank /\ steps = 0

Next == Receive \/ Ignore \/ Search \/ SkipEntry \/ WriteField \/ Restart

Spec == Init /\ [][Next]_vars

-----------------------------------------------------------------------------
(* Properties *)

TypeOK ==
  /\ daytimer \in BOOLEAN /\ steps \in 0 .. MaxPackets
  /\ packet \in 0 .. steps /\ count \in 0 .. MaxEntries /\ entry \in 0 .. count
  /\ channel \in 1 .. Channels + 1 /\ field \in DOMAIN Fields
  /\ shown \in [1 .. Channels -> [DOMAIN Fields ->
                  [packet : 0 .. steps, entry : 0 .. MaxEntries]]]

\* The channels show the entries of the packet received last in their order, as many as
\* there are channels; what a longer packet left in the channels after them is
\* still of one packet, whole, and in its place.
EntriesShown ==
  entry = 0 =>
    \A c \in 1 .. Channels :
      \E p \in (IF c <= count THEN {packet} ELSE 0 .. packet) : \A f \in DOMAIN Fields :
        shown[c][f] = IF p = 0 THEN Nothing ELSE [packet |-> p, entry |-> c]

\* A client that reads the fields of an entry while a packet is written finds at
\* most one channel with values of two packets, and there the fields in front
\* are the new ones (lines 92-195).
OneTorn ==
  \A c \in 1 .. Channels : \A f, g \in DOMAIN Fields :
    shown[c][f].packet # shown[c][g].packet =>
      c = channel /\ (shown[c][f].packet = packet <=> f < field)
=============================================================================
