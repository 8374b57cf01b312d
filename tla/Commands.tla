------------------------------ MODULE Commands ------------------------------
(***************************************************************************)
(* From a value to a command: LoxonePeer::setValue() stores the value and  *)
(* collects the payload of the frame that the device description has for   *)
(* the variable, one element after the other and without a lock; the       *)
(* control's setValue() checks the types and writes the command.           *)
(*                                                                         *)
(* Instance: one control and one of its frames, Clients that set values.   *)
(* A frame is one shape of the description files of misc/; the wording of  *)
(* a command is left out, it is the elements it is made of.                *)
(***************************************************************************)
EXTENDS Naturals, Sequences

CONSTANTS
  Clients,   \* threads of Homegear
  Values,
  MaxSteps   \* bound: values set, by the clients or otherwise

BoundsAssumption == MaxSteps \in Nat

-----------------------------------------------------------------------------
(* The device descriptions *)

\* An element of a frame is a constant, or a variable or parameter: one whose
\* command is this frame, one that only other calls and packets write, one that
\* no call can write, one that the description does not have.
Const == [type |-> "string", how |-> "const"]
Own(type) == [type |-> type, how |-> "own"]
Other(type) == [type |-> type, how |-> "other"]
Fixed(type) == [type |-> type, how |-> "fixed"]
Missing == [type |-> "none", how |-> "missing"]

\* The variable of the command may be outside of the frame (a button).
Describe(class, functions, outside, payload) ==
  { [class |-> class, function |-> f, outside |-> outside, payload |-> payload] :
      f \in functions }

Frames ==
  LET Base(functions, outside, payload) ==
        Describe("LoxoneControl", functions, outside, payload)
      Color(f, payload) == Describe("ColorPicker", {f}, FALSE, payload)
      I == Own("integer")  F == Own("float")  S == Own("string")
  IN UNION {
    Base({"raw"}, FALSE, <<Own("struct")>>),
    Base({"activeSetOn", "activeSetOff", "setNext", "setPrevious", "valueSet"},
         TRUE, <<Const>>),
    Base({"stepUp", "stepDown"}, TRUE, <<Other("float"), Other("float")>>),
    Base({"activeSet", "valueSet"}, FALSE, <<F>>),
    Base({"activeSet"}, TRUE, <<Missing>>),
    Base({"booleanSet"}, FALSE, <<F, Const, Const>>),
    Base({"booleanSet"}, FALSE, <<S, Const, Const>>),
    Base({"valueSet"}, FALSE, <<S>>),
    Base({"2valueSet"}, FALSE, <<I, Const>>),
    Base({"3valueSet"}, TRUE, <<Other("string"), Const, Other("string")>>),
    Base({"valueSetToPath"}, FALSE, <<Const, F>>),
    Base({"valueSetToPath"}, FALSE, <<Const, I>>),
    Base({"valueSetToPath", "stringSetToPath"}, FALSE, <<Const, S>>),
    Base({"valueSetToPath"}, TRUE, <<Const, Missing>>),
    Base({"valueSetToPath"}, TRUE, <<Const, Other("integer")>>),
    Base({"2valueSetToPath"}, FALSE, <<Const, Const, I>>),
    Base({"2valueSetToPath"}, FALSE, <<Const, Const, S>>),
    Base({"2valueSetToPath"}, FALSE, <<Const, Other("float"), F>>),
    Base({"2valueSetToPath"}, FALSE, <<Const, Other("integer"), F>>),
    Base({"2valueSetToPath"}, FALSE, <<Const, Other("integer"), I>>),
    Base({"5valueSetToPath"}, FALSE,
         <<Const, I, Other("float"), Other("float"), Other("integer"), Other("float")>>),
    Base({"stringSetToPath"}, TRUE, <<Const, Const>>),
    Base({"valueStringSetToPath"}, FALSE, <<Const, I, Other("string")>>),
    Base({"StateSet"}, FALSE, <<Own("boolean")>>),
    Base({"VolumeSet"}, FALSE, <<F>>),
    Color("setHsv", <<I, I, Other("integer")>>),
    Color("setRgb", <<I, I, I, Other("integer")>>),
    Color("setTemperature", <<I, Other("integer")>>),
    Color("setLumitech", <<I, Other("integer")>>),
    Describe("Central", {"setControl"}, TRUE, <<Const>>),
    Describe("Central", {"setControls"}, TRUE, <<Const, Other("string")>>),
    Describe("Daytimer", {"setOverride"}, FALSE, <<F, Other("float")>>),
    Describe("NFCCodeTouch", {"setStruct"}, TRUE, <<Const, Const, Fixed("struct")>>) }

VARIABLES
  frame, channel,
  class,    \* the control's: restored from the database it is a LoxoneControl
  mem,      \* values of the variables and parameters in the frame
  call,     \* of each client: the element it sets (0: outside of the frame)
  args,     \* of each client: the elements collected
  at,       \* of each client: the element to be collected next, 0 if idle
  steps,
  \* History:
  told,     \* a command with all the values stored has been sent
  theirs,   \* the last value was written by something else
  refused   \* calls were refused

vars == <<frame, channel, class, mem, call, args, at, steps, told, theirs, refused>>

Elements == DOMAIN frame.payload
Written(how) == {i \in Elements : frame.payload[i].how \in how}

-----------------------------------------------------------------------------
(* The control *)

tString == {"string"}
tInteger == {"integer"}
tFloat == {"float"}
Printable == tString \cup tInteger \cup tFloat

\* LoxoneControl::setValue()
Shared ==
  [raw |-> << {"struct"} >>,
   activeSetOn |-> <<tString>>, activeSetOff |-> <<tString>>,
   setNext |-> <<tString>>, setPrevious |-> <<tString>>,
   stepUp |-> <<tFloat, tFloat>>, stepDown |-> <<tFloat, tFloat>>,
   activeSet |-> <<tFloat>>, booleanSet |-> <<tFloat \cup tString, tString, tString>>,
   valueSet |-> <<Printable>>, 2valueSet |-> <<Printable, Printable>>,
   3valueSet |-> <<Printable, Printable, Printable>>,
   valueSetToPath |-> <<tString, Printable>>, stringSetToPath |-> <<tString, Printable>>,
   2valueSetToPath |-> <<tString, Printable, Printable>>,
   3valueSetToPath |-> <<tString, Printable, Printable, Printable>>,
   5valueSetToPath |-> <<tString, Printable, Printable, Printable, Printable, Printable>>,
   valueStringSetToPath |-> <<tString, Printable, tString>>]

ColorPicker ==
  [setTemperature |-> <<tInteger, tInteger>>, setLumitech |-> <<tInteger, tInteger>>,
   setHsv |-> <<tInteger, tInteger, tInteger>>,
   setRgb |-> <<tInteger, tInteger, tInteger, tInteger>>]
Central == [setControl |-> <<tString>>, setControls |-> <<tString, tString>>]

(* Mutant of Daytimer: the duration has to be an integer. *)
DaytimerInteger == [setOverride |-> <<tFloat, tInteger>>]

Daytimer == [setOverride |-> <<tFloat, tFloat>>]
NFCCodeTouch == [setStruct |-> <<tString, tString, {"struct"}>>]

\* What the control requires, of its class first refused by the base class.
Rules ==
  LET own == CASE class = "ColorPicker" -> ColorPicker [] class = "Central" -> Central
               [] class = "Daytimer" -> Daytimer [] class = "NFCCodeTouch" -> NFCCodeTouch
               [] OTHER -> <<>>
  IN  [f \in DOMAIN Shared \cup DOMAIN own |-> IF f \in DOMAIN Shared THEN Shared[f] ELSE own[f]]

\* at(i) of an element that is not there throws, and the call is refused; an
\* empty struct has none of the members a command needs.
CreatesCommand(c) ==
  /\ frame.function \in DOMAIN Rules
  /\ LET rule == Rules[frame.function] IN
       /\ Len(rule) <= Len(args[c])
       /\ \A i \in DOMAIN rule : args[c][i].type \in rule[i]
  /\ \A i \in DOMAIN args[c] : args[c][i].element \notin Written({"fixed"})

-----------------------------------------------------------------------------
(* LoxonePeer::setValue() *)

Begin(element) ==
  /\ steps < MaxSteps /\ steps' = steps + 1
  /\ element \in Written({"own", "fixed"}) \cup IF frame.outside THEN {0} ELSE {}

\* Controls refuse every value above channel 2 (no class has a setValue() for
\* it that succeeds); a variable without a frame is read only.
Refuse(c, element) ==
  /\ at[c] = 0 /\ Begin(element)
  /\ channel > 2 \/ element \in Written({"fixed"})
  /\ refused' = TRUE
  /\ UNCHANGED <<frame, channel, class, mem, call, args, at, told, theirs>>

(* Mutant of Store: the value is left to the Miniserver's answer. *)
StoreLater(c, element, value) ==
  /\ at[c] = 0 /\ Begin(element)
  /\ channel <= 2 /\ element \notin Written({"fixed"})
  /\ call' = [call EXCEPT ![c] = [element |-> element, value |-> value]]
  /\ args' = [args EXCEPT ![c] = <<>>] /\ at' = [at EXCEPT ![c] = 1]
  /\ told' = FALSE /\ theirs' = FALSE
  /\ UNCHANGED <<frame, channel, class, mem, refused>>

Store(c, element, value) ==
  /\ at[c] = 0 /\ Begin(element)
  /\ channel <= 2 /\ element \notin Written({"fixed"})
  /\ mem' = [i \in Elements |-> IF i = element THEN value ELSE mem[i]]
  /\ call' = [call EXCEPT ![c] = [element |-> element, value |-> value]]
  /\ args' = [args EXCEPT ![c] = <<>>] /\ at' = [at EXCEPT ![c] = 1]
  /\ told' = FALSE /\ theirs' = FALSE
  /\ UNCHANGED <<frame, channel, class, refused>>

(* Mutant of Argument: the value of the variable, not the one given. *)
ArgumentStored(c, i) ==
  [element |-> i, type |-> frame.payload[i].type, value |-> mem[i]]

Argument(c, i) ==
  [element |-> i, type |-> frame.payload[i].type,
   value |-> IF i = call[c].element THEN call[c].value ELSE mem[i]]

\* A constant, the value given, or what the variable has now; an element that
\* is not found is left out.
Collect(c) ==
  /\ at[c] \in Elements
  /\ args' = IF at[c] \in Written({"missing"}) THEN args
             ELSE [args EXCEPT ![c] = Append(@, Argument(c, at[c]))]
  /\ at' = [at EXCEPT ![c] = @ + 1]
  /\ UNCHANGED <<frame, channel, class, mem, call, steps, told, theirs, refused>>

Done(c) == at[c] = Len(frame.payload) + 1
Return(c) ==
  /\ at' = [at EXCEPT ![c] = 0] /\ args' = [args EXCEPT ![c] = <<>>]
  /\ UNCHANGED <<frame, channel, class, mem, call, steps, theirs>>

SendPacket(c) ==
  /\ Done(c) /\ CreatesCommand(c) /\ Return(c)
  /\ told' = (told \/ \A i \in DOMAIN args[c] : args[c][i].value = mem[args[c][i].element])
  /\ UNCHANGED refused

\* An error; the value stays stored.  A raw packet may be malformed.
CannotCreatePacket(c) ==
  /\ Done(c) /\ (CreatesCommand(c) => frame.function = "raw") /\ Return(c)
  /\ refused' = TRUE /\ UNCHANGED told

\* A packet, or a call with another frame.
WrittenElsewhere(i, value) ==
  /\ steps < MaxSteps /\ steps' = steps + 1
  /\ i \in Written({"own", "other"})
  /\ mem' = [mem EXCEPT ![i] = value] /\ theirs' = TRUE
  /\ UNCHANGED <<frame, channel, class, call, args, at, told, refused>>

-----------------------------------------------------------------------------
Init ==
  /\ frame \in Frames
  /\ channel \in IF frame.function = "setControl" THEN 2 .. 3 ELSE {1}
  /\ class \in {frame.class, "LoxoneControl"}
  /\ \E value \in Values : mem = [i \in Elements |-> value]
  /\ call = [c \in Clients |-> [element |-> 0, value |-> mem[1]]]
  /\ args = [c \in Clients |-> <<>>] /\ at = [c \in Clients |-> 0]
  /\ steps = 0 /\ told = FALSE /\ theirs = FALSE /\ refused = FALSE

Next ==
  \/ \E c \in Clients :
       \/ \E element \in 0 .. Len(frame.payload) :
            Refuse(c, element) \/ \E value \in Values : Store(c, element, value)
       \/ Collect(c) \/ SendPacket(c) \/ CannotCreatePacket(c)
  \/ \E i \in Elements, value \in Values : WrittenElsewhere(i, value)

Spec == Init /\ [][Next]_vars

-----------------------------------------------------------------------------
(* Properties *)

Collected == [element : Elements, type : {frame.payload[i].type : i \in Elements}, value : Values]
TypeOK ==
  /\ frame \in Frames /\ channel \in 1 .. 3 /\ class \in {frame.class, "LoxoneControl"}
  /\ mem \in [Elements -> Values]
  /\ call \in [Clients -> [element : Elements \cup {0}, value : Values]]
  /\ at \in [Clients -> 0 .. Len(frame.payload) + 1]
  /\ args \in [Clients -> Seq(Collected)]
  /\ \A c \in Clients : Len(args[c]) <= IF at[c] = 0 THEN 0 ELSE at[c] - 1
  /\ steps \in 0 .. MaxSteps
  /\ told \in BOOLEAN /\ theirs \in BOOLEAN /\ refused \in BOOLEAN

\* A command is made with the value its caller gave, whatever other calls and
\* packets do to the variable while it is made (lines 951 to 953).
OwnValue ==
  \A c \in Clients : \A i \in DOMAIN args[c] :
    args[c][i].element = call[c].element => args[c][i].value = call[c].value

\* When calls that set different elements of one frame overlap (hue and
\* saturation), one of their commands has all the values that were stored: no
\* value is forgotten, though the last command need not be that one.
NoValueForgotten ==
  (\A c \in Clients : at[c] = 0) /\ steps > 0 /\ ~theirs /\ ~refused => told

\* Every frame of the descriptions suits the control's rules and is carried
\* out with all its elements.  The exceptions: frames that lack an element, the
\* channels above 2, functions that no control has (a MediaClient's) or whose
\* struct cannot be set (an NFCCodeTouch's), a raw command that is malformed,
\* and a control that was restored as a plain LoxoneControl.
Carried ==
  /\ refused =>
       \/ class # frame.class \/ channel > 2 \/ Written({"missing"}) # {}
       \/ frame.function \in {"raw", "StateSet", "VolumeSet", "setStruct"}
  /\ \A c \in Clients :
       Done(c) /\ CreatesCommand(c) => Len(Rules[frame.function]) = Len(args[c])
=============================================================================
