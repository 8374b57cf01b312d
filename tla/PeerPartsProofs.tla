-------------------------- MODULE PeerPartsProofs --------------------------
(***************************************************************************)
(* Proofs about three of the parts of a peer: Commands, for any clients,   *)
(* values and number of calls: the frames of the descriptions against the  *)
(* rules of the controls, shape by shape, and the calls that collect the   *)
(* elements of a frame; DaytimerEntries, for any number of channels,       *)
(* entries and packets; and ConfigParameters, for any clients and values.  *)
(***************************************************************************)
EXTENDS PeerParts, Integers, Sequences, SequenceTheorems, TLAPS

-----------------------------------------------------------------------------
(* The frames of the device descriptions and the rules of the controls *)

Elem ==
  [type : {"string", "integer", "float", "struct", "boolean", "none"},
   how : {"const", "own", "other", "fixed", "missing"}]

(* The functions whose calls may be refused. *)
Unsuited == {"raw", "StateSet", "VolumeSet", "setStruct"}

(* What the control requires for a frame, if it can carry it out. *)
HasRule(f, rule) ==
  /\ class = f.class => f.function \in DOMAIN Commands!Rules
  /\ f.function \in DOMAIN Commands!Rules => Commands!Rules[f.function] = rule

(* A frame has no more elements than the control requires, and all of them, of
   the types it requires, unless it is one of the exceptions. *)
Fits(f) ==
  /\ f.payload \in Seq(Elem) /\ Len(f.payload) \in 1 .. 6
  /\ f.function \in DOMAIN Commands!Rules =>
       Len(f.payload) <= Len(Commands!Rules[f.function])
  /\ class = f.class /\ f.function \notin Unsuited
     /\ (\A i \in 1 .. Len(f.payload) : f.payload[i].how # "missing") =>
       /\ f.function \in DOMAIN Commands!Rules
       /\ Len(Commands!Rules[f.function]) = Len(f.payload)
       /\ DOMAIN Commands!Rules[f.function] = 1 .. Len(f.payload)
       /\ \A i \in 1 .. Len(f.payload) :
            f.payload[i].type \in Commands!Rules[f.function][i]
  /\ f.function # "setStruct" => \A i \in 1 .. Len(f.payload) : f.payload[i].how # "fixed"

LEMMA SharedRule ==
  ASSUME NEW f, f.function \in DOMAIN Commands!Shared
  PROVE  HasRule(f, Commands!Shared[f.function])
BY DEF HasRule, Commands!Rules

LEMMA OwnRule ==
  ASSUME NEW f, class \in {f.class, "LoxoneControl"}
  PROVE  /\ f.class = "ColorPicker" /\ f.function \in DOMAIN Commands!ColorPicker =>
              HasRule(f, Commands!ColorPicker[f.function])
         /\ f.class = "Central" /\ f.function \in DOMAIN Commands!Central =>
              HasRule(f, Commands!Central[f.function])
         /\ f.class = "Daytimer" /\ f.function \in DOMAIN Commands!Daytimer =>
              HasRule(f, Commands!Daytimer[f.function])
         /\ f.class = "NFCCodeTouch" /\ f.function \in DOMAIN Commands!NFCCodeTouch =>
              HasRule(f, Commands!NFCCodeTouch[f.function])
<1>1. ASSUME f.class = "ColorPicker", f.function \in DOMAIN Commands!ColorPicker
      PROVE  HasRule(f, Commands!ColorPicker[f.function])
  BY <1>1 DEF HasRule, Commands!Rules, Commands!Shared, Commands!ColorPicker
<1>2. ASSUME f.class = "Central", f.function \in DOMAIN Commands!Central
      PROVE  HasRule(f, Commands!Central[f.function])
  BY <1>2 DEF HasRule, Commands!Rules, Commands!Shared, Commands!Central
<1>3. ASSUME f.class = "Daytimer", f.function \in DOMAIN Commands!Daytimer
      PROVE  HasRule(f, Commands!Daytimer[f.function])
  BY <1>3 DEF HasRule, Commands!Rules, Commands!Shared, Commands!Daytimer
<1>4. ASSUME f.class = "NFCCodeTouch", f.function \in DOMAIN Commands!NFCCodeTouch
      PROVE  HasRule(f, Commands!NFCCodeTouch[f.function])
  BY <1>4 DEF HasRule, Commands!Rules, Commands!Shared, Commands!NFCCodeTouch
<1>5. QED
  BY <1>1, <1>2, <1>3, <1>4

(* An element that suits what the rule requires in its place. *)
Suits(e, types) == e \in Elem /\ e.how # "fixed" /\ (e.type \in types \/ e.how = "missing")

LEMMA FitsRule ==
  ASSUME NEW f, NEW rule, HasRule(f, rule), f.payload \in Seq(Elem), Len(f.payload) \in 1 .. 6,
         Len(rule) = Len(f.payload), DOMAIN rule = 1 .. Len(f.payload),
         \A i \in 1 .. Len(f.payload) : Suits(f.payload[i], rule[i])
  PROVE  Fits(f)
<1>1. \A i \in 1 .. Len(f.payload) : f.payload[i].how # "fixed"
  BY DEF Suits
<1>2. ASSUME \A i \in 1 .. Len(f.payload) : f.payload[i].how # "missing"
      PROVE  \A i \in 1 .. Len(f.payload) : f.payload[i].type \in rule[i]
  BY <1>2 DEF Suits
<1>3. Len(f.payload) <= Len(rule)
  OBVIOUS
<1>4. QED
  BY <1>1, <1>2, <1>3 DEF Fits, HasRule

LEMMA FitsOne ==
  ASSUME NEW f, NEW a, NEW r,
         f.payload = <<a>>, HasRule(f, <<r>>),
         Suits(a, r)
  PROVE  Fits(f)
<1> DEFINE rule == <<r>>
<1>1. f.payload \in Seq(Elem) /\ Len(f.payload) = 1
  BY DEF Suits
<1>2. Len(rule) = 1 /\ DOMAIN rule = 1 .. 1 /\ \A i \in 1 .. 1 : Suits(f.payload[i], rule[i])
  OBVIOUS
<1>3. Len(f.payload) \in 1 .. 6 /\ HasRule(f, rule)
  BY <1>1
<1> HIDE DEF rule
<1>4. QED
  BY <1>1, <1>2, <1>3, FitsRule

LEMMA FitsTwo ==
  ASSUME NEW f, NEW a, NEW b, NEW r, NEW s,
         f.payload = <<a, b>>, HasRule(f, <<r, s>>),
         Suits(a, r), Suits(b, s)
  PROVE  Fits(f)
<1> DEFINE rule == <<r, s>>
<1>1. f.payload \in Seq(Elem) /\ Len(f.payload) = 2
  BY DEF Suits
<1>2. Len(rule) = 2 /\ DOMAIN rule = 1 .. 2 /\ \A i \in 1 .. 2 : Suits(f.payload[i], rule[i])
  OBVIOUS
<1>3. Len(f.payload) \in 1 .. 6 /\ HasRule(f, rule)
  BY <1>1
<1> HIDE DEF rule
<1>4. QED
  BY <1>1, <1>2, <1>3, FitsRule

LEMMA FitsThree ==
  ASSUME NEW f, NEW a, NEW b, NEW c, NEW r, NEW s, NEW t,
         f.payload = <<a, b, c>>, HasRule(f, <<r, s, t>>),
         Suits(a, r), Suits(b, s), Suits(c, t)
  PROVE  Fits(f)
<1> DEFINE rule == <<r, s, t>>
<1>1. f.payload \in Seq(Elem) /\ Len(f.payload) = 3
  BY DEF Suits
<1>2. Len(rule) = 3 /\ DOMAIN rule = 1 .. 3 /\ \A i \in 1 .. 3 : Suits(f.payload[i], rule[i])
  OBVIOUS
<1>3. Len(f.payload) \in 1 .. 6 /\ HasRule(f, rule)
  BY <1>1
<1> HIDE DEF rule
<1>4. QED
  BY <1>1, <1>2, <1>3, FitsRule

LEMMA FitsFour ==
  ASSUME NEW f, NEW a, NEW b, NEW c, NEW d, NEW r, NEW s, NEW t, NEW u,
         f.payload = <<a, b, c, d>>, HasRule(f, <<r, s, t, u>>),
         Suits(a, r), Suits(b, s), Suits(c, t), Suits(d, u)
  PROVE  Fits(f)
<1> DEFINE rule == <<r, s, t, u>>
<1>1. f.payload \in Seq(Elem) /\ Len(f.payload) = 4
  BY DEF Suits
<1>2. Len(rule) = 4 /\ DOMAIN rule = 1 .. 4 /\ \A i \in 1 .. 4 : Suits(f.payload[i], rule[i])
  OBVIOUS
<1>3. Len(f.payload) \in 1 .. 6 /\ HasRule(f, rule)
  BY <1>1
<1> HIDE DEF rule
<1>4. QED
  BY <1>1, <1>2, <1>3, FitsRule

LEMMA FitsSix ==
  ASSUME NEW f, NEW a, NEW b, NEW c, NEW d, NEW e, NEW g, NEW r, NEW s, NEW t, NEW u, NEW v, NEW w,
         f.payload = <<a, b, c, d, e, g>>, HasRule(f, <<r, s, t, u, v, w>>),
         Suits(a, r), Suits(b, s), Suits(c, t), Suits(d, u), Suits(e, v), Suits(g, w)
  PROVE  Fits(f)
<1> DEFINE rule == <<r, s, t, u, v, w>>
<1>1. f.payload \in Seq(Elem) /\ Len(f.payload) = 6
  BY DEF Suits
<1>2. Len(rule) = 6 /\ DOMAIN rule = 1 .. 6 /\ \A i \in 1 .. 6 : Suits(f.payload[i], rule[i])
  OBVIOUS
<1>3. Len(f.payload) \in 1 .. 6 /\ HasRule(f, rule)
  BY <1>1
<1> HIDE DEF rule
<1>4. QED
  BY <1>1, <1>2, <1>3, FitsRule

(* The elements of the frames, and what the rules take. *)
Const == Commands!Const
Own(type) == Commands!Own(type)
Other(type) == Commands!Other(type)
Fixed(type) == Commands!Fixed(type)
Missing == Commands!Missing
tString == Commands!tString
tInteger == Commands!tInteger
tFloat == Commands!tFloat
Printable == Commands!Printable
Struct == {"struct"}
Either == Commands!tFloat \cup Commands!tString

(* What the elements suit. *)
LEMMA ElementsSuit ==
  /\ Suits(Const, Printable)
  /\ Suits(Const, tString)
  /\ Suits(Missing, Printable)
  /\ Suits(Missing, tFloat)
  /\ Suits(Other("float"), Printable)
  /\ Suits(Other("float"), tFloat)
  /\ Suits(Other("integer"), Printable)
  /\ Suits(Other("integer"), tInteger)
  /\ Suits(Other("string"), Printable)
  /\ Suits(Other("string"), tString)
  /\ Suits(Own("float"), Either)
  /\ Suits(Own("float"), Printable)
  /\ Suits(Own("float"), tFloat)
  /\ Suits(Own("integer"), Printable)
  /\ Suits(Own("integer"), tInteger)
  /\ Suits(Own("string"), Either)
  /\ Suits(Own("string"), Printable)
  /\ Suits(Own("struct"), Struct)
BY DEF Suits, Elem, Const, Own, Other, Missing, tString, tInteger, tFloat,
   Printable,
   Commands!Const, Commands!Own, Commands!Other, Commands!Missing,
   Commands!tString, Commands!tInteger, Commands!tFloat, Commands!Printable, Either, Struct

(* The rules, one by one. *)
LEMMA RulesAre ==
  ASSUME NEW f, class \in {f.class, "LoxoneControl"}
  PROVE
    /\ f.function = "raw" => HasRule(f, <<Struct>>)
    /\ f.function = "activeSetOn" => HasRule(f, <<tString>>)
    /\ f.function = "activeSetOff" => HasRule(f, <<tString>>)
    /\ f.function = "setNext" => HasRule(f, <<tString>>)
    /\ f.function = "setPrevious" => HasRule(f, <<tString>>)
    /\ f.function = "stepUp" => HasRule(f, <<tFloat, tFloat>>)
    /\ f.function = "stepDown" => HasRule(f, <<tFloat, tFloat>>)
    /\ f.function = "activeSet" => HasRule(f, <<tFloat>>)
    /\ f.function = "booleanSet" => HasRule(f, <<Either, tString, tString>>)
    /\ f.function = "valueSet" => HasRule(f, <<Printable>>)
    /\ f.function = "2valueSet" => HasRule(f, <<Printable, Printable>>)
    /\ f.function = "3valueSet" => HasRule(f, <<Printable, Printable, Printable>>)
    /\ f.function = "valueSetToPath" => HasRule(f, <<tString, Printable>>)
    /\ f.function = "stringSetToPath" => HasRule(f, <<tString, Printable>>)
    /\ f.function = "2valueSetToPath" => HasRule(f, <<tString, Printable, Printable>>)
    /\ f.function = "5valueSetToPath" =>
        HasRule(f, <<tString, Printable, Printable, Printable, Printable, Printable>>)
    /\ f.function = "valueStringSetToPath" => HasRule(f, <<tString, Printable, tString>>)
    /\ f.class = "ColorPicker" /\ f.function = "setTemperature" =>
        HasRule(f, <<tInteger, tInteger>>)
    /\ f.class = "ColorPicker" /\ f.function = "setLumitech" =>
        HasRule(f, <<tInteger, tInteger>>)
    /\ f.class = "ColorPicker" /\ f.function = "setHsv" =>
        HasRule(f, <<tInteger, tInteger, tInteger>>)
    /\ f.class = "ColorPicker" /\ f.function = "setRgb" =>
        HasRule(f, <<tInteger, tInteger, tInteger, tInteger>>)
    /\ f.class = "Central" /\ f.function = "setControl" => HasRule(f, <<tString>>)
    /\ f.class = "Central" /\ f.function = "setControls" => HasRule(f, <<tString, tString>>)
    /\ f.class = "Daytimer" /\ f.function = "setOverride" => HasRule(f, <<tFloat, tFloat>>)
<1>0. f.function = "booleanSet" => HasRule(f, <<Either, tString, tString>>)
  <2>1. "booleanSet" \in DOMAIN Commands!Shared
        /\ Commands!Shared["booleanSet"] = <<Either, tString, tString>>
    BY DEF Commands!Shared, Either, tString
  <2>2. QED
    BY <2>1, SharedRule
<1> USE DEF Struct, tString, tInteger, tFloat, Printable
<1>1. f.function = "raw" => HasRule(f, <<Struct>>)
  BY SharedRule DEF Commands!Shared
<1>2. f.function = "activeSetOn" => HasRule(f, <<tString>>)
  BY SharedRule DEF Commands!Shared
<1>3. f.function = "activeSetOff" => HasRule(f, <<tString>>)
  BY SharedRule DEF Commands!Shared
<1>4. f.function = "setNext" => HasRule(f, <<tString>>)
  BY SharedRule DEF Commands!Shared
<1>5. f.function = "setPrevious" => HasRule(f, <<tString>>)
  BY SharedRule DEF Commands!Shared
<1>6. f.function = "stepUp" => HasRule(f, <<tFloat, tFloat>>)
  BY SharedRule DEF Commands!Shared
<1>7. f.function = "stepDown" => HasRule(f, <<tFloat, tFloat>>)
  BY SharedRule DEF Commands!Shared
<1>8. f.function = "activeSet" => HasRule(f, <<tFloat>>)
  BY SharedRule DEF Commands!Shared
<1>10. f.function = "valueSet" => HasRule(f, <<Printable>>)
  BY SharedRule DEF Commands!Shared
<1>11. f.function = "2valueSet" => HasRule(f, <<Printable, Printable>>)
  BY SharedRule DEF Commands!Shared
<1>12. f.function = "3valueSet" => HasRule(f, <<Printable, Printable, Printable>>)
  BY SharedRule DEF Commands!Shared
<1>13. f.function = "valueSetToPath" => HasRule(f, <<tString, Printable>>)
  BY SharedRule DEF Commands!Shared
<1>14. f.function = "stringSetToPath" => HasRule(f, <<tString, Printable>>)
  BY SharedRule DEF Commands!Shared
<1>15. f.function = "2valueSetToPath" => HasRule(f, <<tString, Printable, Printable>>)
  BY SharedRule DEF Commands!Shared
<1>16. f.function = "5valueSetToPath" =>
        HasRule(f, <<tString, Printable, Printable, Printable, Printable, Printable>>)
  BY SharedRule DEF Commands!Shared
<1>17. f.function = "valueStringSetToPath" => HasRule(f, <<tString, Printable, tString>>)
  BY SharedRule DEF Commands!Shared
<1>18. f.class = "ColorPicker" /\ f.function = "setTemperature" =>
        HasRule(f, <<tInteger, tInteger>>)
  BY OwnRule DEF Commands!ColorPicker
<1>19. f.class = "ColorPicker" /\ f.function = "setLumitech" =>
        HasRule(f, <<tInteger, tInteger>>)
  BY OwnRule DEF Commands!ColorPicker
<1>20. f.class = "ColorPicker" /\ f.function = "setHsv" =>
        HasRule(f, <<tInteger, tInteger, tInteger>>)
  BY OwnRule DEF Commands!ColorPicker
<1>21. f.class = "ColorPicker" /\ f.function = "setRgb" =>
        HasRule(f, <<tInteger, tInteger, tInteger, tInteger>>)
  BY OwnRule DEF Commands!ColorPicker
<1>22. f.class = "Central" /\ f.function = "setControl" => HasRule(f, <<tString>>)
  BY OwnRule DEF Commands!Central
<1>23. f.class = "Central" /\ f.function = "setControls" => HasRule(f, <<tString, tString>>)
  BY OwnRule DEF Commands!Central
<1>24. f.class = "Daytimer" /\ f.function = "setOverride" => HasRule(f, <<tFloat, tFloat>>)
  BY OwnRule DEF Commands!Daytimer
<1>25. QED
  BY <1>0, <1>1, <1>2, <1>3, <1>4, <1>5, <1>6, <1>7, <1>8, <1>10, <1>11, <1>12,
     <1>13, <1>14, <1>15, <1>16, <1>17, <1>18, <1>19, <1>20, <1>21, <1>22,
     <1>23, <1>24

(* The shapes of the frames, as the descriptions list them. *)
LEMMA FramesFit ==
  ASSUME NEW f \in Commands!Frames, class \in {f.class, "LoxoneControl"}
  PROVE  Fits(f)
<1> DEFINE
  Base(functions, outside, payload) ==
    Commands!Describe("LoxoneControl", functions, outside, payload)
  S1 == Base({"raw"}, FALSE, <<Own("struct")>>)
  S2 == Base({"activeSetOn", "activeSetOff", "setNext", "setPrevious", "valueSet"}, TRUE,
         <<Const>>)
  S3 == Base({"stepUp", "stepDown"}, TRUE, <<Other("float"), Other("float")>>)
  S4 == Base({"activeSet", "valueSet"}, FALSE, <<Own("float")>>)
  S5 == Base({"activeSet"}, TRUE, <<Missing>>)
  S6 == Base({"booleanSet"}, FALSE, <<Own("float"), Const, Const>>)
  S7 == Base({"booleanSet"}, FALSE, <<Own("string"), Const, Const>>)
  S8 == Base({"valueSet"}, FALSE, <<Own("string")>>)
  S9 == Base({"2valueSet"}, FALSE, <<Own("integer"), Const>>)
  S10 == Base({"3valueSet"}, TRUE, <<Other("string"), Const, Other("string")>>)
  S11 == Base({"valueSetToPath"}, FALSE, <<Const, Own("float")>>)
  S12 == Base({"valueSetToPath"}, FALSE, <<Const, Own("integer")>>)
  S13 == Base({"valueSetToPath", "stringSetToPath"}, FALSE, <<Const, Own("string")>>)
  S14 == Base({"valueSetToPath"}, TRUE, <<Const, Missing>>)
  S15 == Base({"valueSetToPath"}, TRUE, <<Const, Other("integer")>>)
  S16 == Base({"2valueSetToPath"}, FALSE, <<Const, Const, Own("integer")>>)
  S17 == Base({"2valueSetToPath"}, FALSE, <<Const, Const, Own("string")>>)
  S18 == Base({"2valueSetToPath"}, FALSE, <<Const, Other("float"), Own("float")>>)
  S19 == Base({"2valueSetToPath"}, FALSE, <<Const, Other("integer"), Own("float")>>)
  S20 == Base({"2valueSetToPath"}, FALSE, <<Const, Other("integer"), Own("integer")>>)
  S21 == Base({"5valueSetToPath"}, FALSE,
         <<Const, Own("integer"), Other("float"), Other("float"), Other("integer"), Other("float")>>)
  S22 == Base({"stringSetToPath"}, TRUE, <<Const, Const>>)
  S23 == Base({"valueStringSetToPath"}, FALSE,
         <<Const, Own("integer"), Other("string")>>)
  S24 == Base({"StateSet"}, FALSE, <<Own("boolean")>>)
  S25 == Base({"VolumeSet"}, FALSE, <<Own("float")>>)
  S26 == Commands!Describe("ColorPicker", {"setHsv"}, FALSE,
         <<Own("integer"), Own("integer"), Other("integer")>>)
  S27 == Commands!Describe("ColorPicker", {"setRgb"}, FALSE,
         <<Own("integer"), Own("integer"), Own("integer"), Other("integer")>>)
  S28 == Commands!Describe("ColorPicker", {"setTemperature"}, FALSE,
         <<Own("integer"), Other("integer")>>)
  S29 == Commands!Describe("ColorPicker", {"setLumitech"}, FALSE,
         <<Own("integer"), Other("integer")>>)
  S30 == Commands!Describe("Central", {"setControl"}, TRUE, <<Const>>)
  S31 == Commands!Describe("Central", {"setControls"}, TRUE,
         <<Const, Other("string")>>)
  S32 == Commands!Describe("Daytimer", {"setOverride"}, FALSE,
         <<Own("float"), Other("float")>>)
  S33 == Commands!Describe("NFCCodeTouch", {"setStruct"}, TRUE,
         <<Const, Const, Fixed("struct")>>)
<1>0. Commands!Frames = UNION {
     S1, S2, S3, S4, S5, S6, S7, S8, S9, S10, S11, S12, S13, S14, S15, S16, S17,
     S18, S19, S20, S21, S22, S23, S24, S25, S26, S27, S28, S29, S30, S31, S32,
     S33}
  BY Zenon DEF Commands!Frames, Const, Own, Other, Fixed, Missing
<1>1. f \in S1 => Fits(f)
  BY RulesAre, ElementsSuit, FitsOne DEF Commands!Describe
<1>2. ASSUME f \in S2
      PROVE  Fits(f)
  <2>1. f.class = "LoxoneControl" /\ f.function \in
        {"activeSetOn", "activeSetOff", "setNext", "setPrevious", "valueSet"}
      /\ f.payload = <<Const>>
    BY <1>2 DEF Commands!Describe
  <2>2. QED
    BY <2>1, RulesAre, ElementsSuit, FitsOne
<1>3. ASSUME f \in S3
      PROVE  Fits(f)
  <2>1. /\ f.class = "LoxoneControl"
        /\ f.function \in {"stepUp", "stepDown"}
        /\ f.payload = <<Other("float"), Other("float")>>
    BY <1>3 DEF Commands!Describe
  <2>2. QED
    BY <2>1, RulesAre, ElementsSuit, FitsTwo
<1>4. ASSUME f \in S4
      PROVE  Fits(f)
  <2>1. /\ f.class = "LoxoneControl"
        /\ f.function \in {"activeSet", "valueSet"}
        /\ f.payload = <<Own("float")>>
    BY <1>4 DEF Commands!Describe
  <2>2. QED
    BY <2>1, RulesAre, ElementsSuit, FitsOne
<1>5. f \in S5 => Fits(f)
  BY RulesAre, ElementsSuit, FitsOne DEF Commands!Describe
<1>6. f \in S6 => Fits(f)
  BY RulesAre, ElementsSuit, FitsThree DEF Commands!Describe
<1>7. f \in S7 => Fits(f)
  BY RulesAre, ElementsSuit, FitsThree DEF Commands!Describe
<1>8. f \in S8 => Fits(f)
  BY RulesAre, ElementsSuit, FitsOne DEF Commands!Describe
<1>9. f \in S9 => Fits(f)
  BY RulesAre, ElementsSuit, FitsTwo DEF Commands!Describe
<1>10. f \in S10 => Fits(f)
  BY RulesAre, ElementsSuit, FitsThree DEF Commands!Describe
<1>11. f \in S11 => Fits(f)
  BY RulesAre, ElementsSuit, FitsTwo DEF Commands!Describe
<1>12. f \in S12 => Fits(f)
  BY RulesAre, ElementsSuit, FitsTwo DEF Commands!Describe
<1>13. ASSUME f \in S13
      PROVE  Fits(f)
  <2>1. /\ f.class = "LoxoneControl"
        /\ f.function \in {"valueSetToPath", "stringSetToPath"}
        /\ f.payload = <<Const, Own("string")>>
    BY <1>13 DEF Commands!Describe
  <2>2. QED
    BY <2>1, RulesAre, ElementsSuit, FitsTwo
<1>14. f \in S14 => Fits(f)
  BY RulesAre, ElementsSuit, FitsTwo DEF Commands!Describe
<1>15. f \in S15 => Fits(f)
  BY RulesAre, ElementsSuit, FitsTwo DEF Commands!Describe
<1>16. f \in S16 => Fits(f)
  BY RulesAre, ElementsSuit, FitsThree DEF Commands!Describe
<1>17. f \in S17 => Fits(f)
  BY RulesAre, ElementsSuit, FitsThree DEF Commands!Describe
<1>18. f \in S18 => Fits(f)
  BY RulesAre, ElementsSuit, FitsThree DEF Commands!Describe
<1>19. f \in S19 => Fits(f)
  BY RulesAre, ElementsSuit, FitsThree DEF Commands!Describe
<1>20. f \in S20 => Fits(f)
  BY RulesAre, ElementsSuit, FitsThree DEF Commands!Describe
<1>21. f \in S21 => Fits(f)
  BY RulesAre, ElementsSuit, FitsSix DEF Commands!Describe
<1>22. f \in S22 => Fits(f)
  BY RulesAre, ElementsSuit, FitsTwo DEF Commands!Describe
<1>23. f \in S23 => Fits(f)
  BY RulesAre, ElementsSuit, FitsThree DEF Commands!Describe
<1>24. ASSUME f \in S24
      PROVE  Fits(f)
  <2>1. /\ f.class = "LoxoneControl"
        /\ f.function = "StateSet"
        /\ f.payload = <<Own("boolean")>>
    BY <1>24 DEF Commands!Describe
  <2>2. f.function \notin DOMAIN Commands!Rules
    BY <2>1 DEF Commands!Rules, Commands!Shared
  <2>3. f.payload \in Seq(Elem) /\ Len(f.payload) = 1 /\ f.payload[1].how = "own"
    BY <2>1 DEF Elem, Own, Commands!Own
  <2>4. QED
    BY <2>1, <2>2, <2>3 DEF Fits, Unsuited
<1>25. ASSUME f \in S25
      PROVE  Fits(f)
  <2>1. /\ f.class = "LoxoneControl"
        /\ f.function = "VolumeSet"
        /\ f.payload = <<Own("float")>>
    BY <1>25 DEF Commands!Describe
  <2>2. f.function \notin DOMAIN Commands!Rules
    BY <2>1 DEF Commands!Rules, Commands!Shared
  <2>3. f.payload \in Seq(Elem) /\ Len(f.payload) = 1 /\ f.payload[1].how = "own"
    BY <2>1 DEF Elem, Own, Commands!Own
  <2>4. QED
    BY <2>1, <2>2, <2>3 DEF Fits, Unsuited
<1>26. f \in S26 => Fits(f)
  BY RulesAre, ElementsSuit, FitsThree DEF Commands!Describe
<1>27. f \in S27 => Fits(f)
  BY RulesAre, ElementsSuit, FitsFour DEF Commands!Describe
<1>28. f \in S28 => Fits(f)
  BY RulesAre, ElementsSuit, FitsTwo DEF Commands!Describe
<1>29. f \in S29 => Fits(f)
  BY RulesAre, ElementsSuit, FitsTwo DEF Commands!Describe
<1>30. f \in S30 => Fits(f)
  BY RulesAre, ElementsSuit, FitsOne DEF Commands!Describe
<1>31. f \in S31 => Fits(f)
  BY RulesAre, ElementsSuit, FitsTwo DEF Commands!Describe
<1>32. f \in S32 => Fits(f)
  BY RulesAre, ElementsSuit, FitsTwo DEF Commands!Describe
<1>33. ASSUME f \in S33
      PROVE  Fits(f)
  <2>1. /\ f.class = "NFCCodeTouch"
        /\ f.function = "setStruct"
        /\ f.payload = <<Const, Const, Fixed("struct")>>
    BY <1>33 DEF Commands!Describe
  <2>2. HasRule(f, <<tString, tString, Struct>>)
    <3>1. f.function \in DOMAIN Commands!NFCCodeTouch
          /\ Commands!NFCCodeTouch[f.function] = <<tString, tString, Struct>>
      BY <2>1 DEF Commands!NFCCodeTouch, Struct, tString
    <3>2. QED
      BY <2>1, <3>1, OwnRule
  <2>3. f.payload \in Seq(Elem) /\ Len(f.payload) = 3
    BY <2>1 DEF Elem, Const, Fixed, Commands!Const, Commands!Fixed
  <2> DEFINE rule == <<tString, tString, Struct>>
  <2>4. Len(rule) = 3 /\ HasRule(f, rule)
    BY <2>2
  <2> HIDE DEF rule
  <2>5. f.function \in Unsuited
    BY <2>1 DEF Unsuited
  <2>6. f.function \in DOMAIN Commands!Rules => Len(Commands!Rules[f.function]) = 3
    BY <2>4, Zenon DEF HasRule
  <2>7. Len(f.payload) \in 1 .. 6 /\ f.function = "setStruct"
    BY <2>1, <2>3
  <2>8. Len(f.payload) <= 3
    BY <2>3
  <2>9. QED
    BY <2>3, <2>5, <2>6, <2>7, <2>8, Zenon DEF Fits
<1> HIDE DEF S1, S2, S3, S4, S5, S6, S7, S8, S9, S10, S11, S12, S13, S14, S15,
     S16, S17, S18, S19, S20, S21, S22, S23, S24, S25, S26, S27, S28, S29, S30,
     S31, S32, S33
<1>100. QED
  BY <1>0, <1>1, <1>2, <1>3, <1>4, <1>5, <1>6, <1>7, <1>8, <1>9, <1>10, <1>11,
     <1>12, <1>13, <1>14, <1>15, <1>16, <1>17, <1>18, <1>19, <1>20, <1>21,
     <1>22, <1>23, <1>24, <1>25, <1>26, <1>27, <1>28, <1>29, <1>30, <1>31,
     <1>32, <1>33

-----------------------------------------------------------------------------
(* The calls *)

(* As long as nothing else wrote the variables and no call was refused, either a
   command had all the values, or one that is being made still can. *)
Latest ==
  steps > 0 /\ ~theirs /\ ~refused /\ ~told =>
    \E c \in Callers :
      /\ at[c] > 0
      /\ call[c].element # 0 => mem[call[c].element] = call[c].value
      /\ \A i \in DOMAIN args[c] : args[c][i].value = mem[args[c][i].element]

(* What is collected: every element that the description has, in its place. *)
InPlace(c) ==
  /\ at[c] = 0 => args[c] = <<>>
  /\ at[c] > 0 /\ Commands!Written({"missing"}) = {} =>
       /\ Len(args[c]) = at[c] - 1
       /\ \A i \in 1 .. Len(args[c]) :
            args[c][i].element = i /\ args[c][i].type = frame.payload[i].type

(* What may be refused. *)
Excused ==
  refused =>
    \/ class # frame.class \/ channel > 2 \/ Commands!Written({"missing"}) # {}
    \/ frame.function \in Unsuited

CommandsInv ==
  /\ Commands!TypeOK /\ Commands!OwnValue
  /\ Latest /\ (\A c \in Callers : InPlace(c)) /\ Excused

LEMMA TheFrame ==
  ASSUME Commands!TypeOK
  PROVE  /\ Fits(frame) /\ Commands!Elements = 1 .. Len(frame.payload)
         /\ Len(frame.payload) \in 1 .. 6
<1>1. Fits(frame)
  BY FramesFit DEF Commands!TypeOK
<1>2. QED
  BY <1>1 DEF Fits, Commands!Elements

(* The elements collected of one call. *)
LEMMA ArgsOf ==
  ASSUME Commands!TypeOK, NEW c \in Callers
  PROVE  /\ args[c] \in Seq(Commands!Collected) /\ Len(args[c]) \in Nat
         /\ DOMAIN args[c] = 1 .. Len(args[c])
         /\ \A i \in 1 .. Len(args[c]) :
              args[c][i].element \in Commands!Elements /\ args[c][i].value \in Values
         /\ call[c].element \in Commands!Elements \cup {0} /\ call[c].value \in Values
         /\ at[c] \in 0 .. Len(frame.payload) + 1
<1>1. args[c] \in Seq(Commands!Collected)
  BY DEF Commands!TypeOK
<1>2. \A i \in 1 .. Len(args[c]) : args[c][i] \in Commands!Collected
  BY <1>1
<1>3. QED
  BY <1>1, <1>2 DEF Commands!TypeOK, Commands!Collected

(* The elements are those of the frame, which stays. *)
LEMMA ElementsStay ==
  ASSUME frame' = frame
  PROVE  Commands!Elements' = Commands!Elements /\ Commands!Collected' = Commands!Collected
BY DEF Commands!Elements, Commands!Collected

LEMMA CommandsInit ==
  ASSUME Commands!BoundsAssumption, Commands!Init
  PROVE  CommandsInv
<1> USE DEF Commands!Init
<1>1. class \in {frame.class, "LoxoneControl"} /\ frame \in Commands!Frames
  OBVIOUS
<1>2. Fits(frame)
  BY <1>1, FramesFit
<1>3. Commands!Elements = 1 .. Len(frame.payload) /\ Len(frame.payload) \in 1 .. 6
  BY <1>2 DEF Fits, Commands!Elements
<1>4. PICK value \in Values : mem = [i \in Commands!Elements |-> value]
  OBVIOUS
<1>5. mem[1] = value
  <2>1. \A n \in 1 .. 6 : 1 \in 1 .. n
    OBVIOUS
  <2>2. 1 \in Commands!Elements
    BY ONLY <1>3, <2>1
  <2>3. QED
    BY <1>4, <2>2
<1>6. Commands!TypeOK
  <2>1. channel \in 1 .. 3
    OBVIOUS
  <2>2. mem \in [Commands!Elements -> Values]
    BY <1>4
  <2>3. call \in [Callers -> [element : Commands!Elements \cup {0}, value : Values]]
    BY <1>5
  <2>4. at \in [Callers -> 0 .. Len(frame.payload) + 1]
    BY <1>3
  <2>5. args \in [Callers -> Seq(Commands!Collected)]
    OBVIOUS
  <2>6. \A c \in Callers : Len(args[c]) <= IF at[c] = 0 THEN 0 ELSE at[c] - 1
    OBVIOUS
  <2>7. steps \in 0 .. MaxSteps
    BY DEF Commands!BoundsAssumption
  <2>8. told \in BOOLEAN /\ theirs \in BOOLEAN /\ refused \in BOOLEAN
    OBVIOUS
  <2>9. QED
    BY <1>1, <2>1, <2>2, <2>3, <2>4, <2>5, <2>6, <2>7, <2>8 DEF Commands!TypeOK
<1>7. \A c \in Callers : args[c] = <<>> /\ at[c] = 0
  OBVIOUS
<1>8. Commands!OwnValue
  BY <1>7 DEF Commands!OwnValue
<1>9. \A c \in Callers : InPlace(c)
  BY <1>7 DEF InPlace
<1>10. Latest /\ Excused
  BY DEF Latest, Excused
<1>11. QED
  BY <1>6, <1>8, <1>9, <1>10 DEF CommandsInv

LEMMA RefuseKeeps ==
  ASSUME CommandsInv, Commands!BoundsAssumption, NEW c \in Callers,
         NEW element \in 0 .. Len(frame.payload), Commands!Refuse(c, element)
  PROVE  CommandsInv'
<1> USE DEF CommandsInv
<1>1. /\ UNCHANGED <<frame, channel, class, mem, call, args, at, told, theirs>>
      /\ refused' = TRUE /\ steps < MaxSteps /\ steps' = steps + 1
      /\ channel > 2 \/ element \in Commands!Written({"fixed"})
  BY DEF Commands!Refuse, Commands!Begin
<1>2. Commands!TypeOK'
  <2>1. steps' \in 0 .. MaxSteps
    BY <1>1 DEF Commands!TypeOK, Commands!BoundsAssumption
  <2>2. QED
    BY <1>1, <2>1, ElementsStay DEF Commands!TypeOK
<1>3. Commands!OwnValue'
  BY <1>1 DEF Commands!OwnValue
<1>4. Latest'
  BY <1>1 DEF Latest
<1>5. \A d \in Callers : InPlace(d)'
  BY <1>1 DEF InPlace, Commands!Written, Commands!Elements
<1>6. Excused'
  <2>1. channel > 2 \/ frame.function \in Unsuited
    BY <1>1, TheFrame DEF Commands!Written, Fits, Unsuited
  <2>2. QED
    BY <1>1, <2>1 DEF Excused
<1>7. QED
  BY <1>2, <1>3, <1>4, <1>5, <1>6

LEMMA StoreKeeps ==
  ASSUME CommandsInv, Commands!BoundsAssumption, NEW c \in Callers,
         NEW element \in 0 .. Len(frame.payload), NEW value \in Values,
         Commands!Store(c, element, value)
  PROVE  CommandsInv'
<1> USE DEF CommandsInv
<1>1. /\ UNCHANGED <<frame, channel, class, refused>>
      /\ at[c] = 0 /\ at' = [at EXCEPT ![c] = 1] /\ args' = [args EXCEPT ![c] = <<>>]
      /\ mem' = [i \in Commands!Elements |-> IF i = element THEN value ELSE mem[i]]
      /\ call' = [call EXCEPT ![c] = [element |-> element, value |-> value]]
      /\ told' = FALSE /\ theirs' = FALSE /\ steps < MaxSteps /\ steps' = steps + 1
  BY DEF Commands!Store, Commands!Begin
<1>2. /\ args'[c] = <<>> /\ at'[c] = 1
      /\ call'[c] = [element |-> element, value |-> value]
      /\ \A d \in Callers \ {c} : args'[d] = args[d] /\ at'[d] = at[d] /\ call'[d] = call[d]
  BY <1>1 DEF Commands!TypeOK
<1>3. element \in Commands!Elements \cup {0}
  BY TheFrame
<1>4. Commands!TypeOK'
  <2>1. steps' \in 0 .. MaxSteps
    BY <1>1 DEF Commands!TypeOK, Commands!BoundsAssumption
  <2>2. mem' \in [Commands!Elements -> Values]
    BY <1>1 DEF Commands!TypeOK
  <2>3. call' \in [Callers -> [element : Commands!Elements \cup {0}, value : Values]]
    BY <1>1, <1>3 DEF Commands!TypeOK
  <2>4. at' \in [Callers -> 0 .. Len(frame.payload) + 1]
    BY <1>1, TheFrame DEF Commands!TypeOK
  <2>5. args' \in [Callers -> Seq(Commands!Collected)]
    BY <1>1 DEF Commands!TypeOK
  <2>6. \A d \in Callers : Len(args'[d]) <= IF at'[d] = 0 THEN 0 ELSE at'[d] - 1
    <3>1. Len(args'[c]) <= at'[c] - 1 /\ at'[c] # 0
      BY <1>2
    <3>2. QED
      BY <1>2, <3>1 DEF Commands!TypeOK
  <2>7. QED
    BY <1>1, <2>1, <2>2, <2>3, <2>4, <2>5, <2>6, ElementsStay DEF
       Commands!TypeOK
<1>5. Commands!OwnValue'
  BY <1>2 DEF Commands!OwnValue
<1>6. Latest'
  <2>1. call'[c].element # 0 => mem'[call'[c].element] = call'[c].value
    BY <1>1, <1>2, <1>3
  <2>2. QED
    BY <1>2, <2>1 DEF Latest
<1>7. \A d \in Callers : InPlace(d)'
  BY <1>1, <1>2 DEF InPlace, Commands!Written, Commands!Elements
<1>8. Excused'
  BY <1>1 DEF Excused, Commands!Written, Commands!Elements
<1>9. QED
  BY <1>4, <1>5, <1>6, <1>7, <1>8

LEMMA CollectKeeps ==
  ASSUME CommandsInv, Commands!BoundsAssumption, NEW c \in Callers, Commands!Collect(c)
  PROVE  CommandsInv'
<1> USE DEF CommandsInv
<1> DEFINE n == at[c]
           arg == Commands!Argument(c, n)
           gone == n \in Commands!Written({"missing"})
<1>1. /\ n \in Commands!Elements /\ at' = [at EXCEPT ![c] = n + 1]
      /\ gone => args' = args
      /\ ~gone => args' = [args EXCEPT ![c] = Append(@, arg)]
      /\ UNCHANGED <<frame, channel, class, mem, call, steps, told, theirs, refused>>
  BY DEF Commands!Collect
<1>2. /\ n \in 1 .. Len(frame.payload) /\ Len(frame.payload) \in 1 .. 6
      /\ at'[c] = n + 1
      /\ \A d \in Callers \ {c} : args'[d] = args[d] /\ at'[d] = at[d]
  BY <1>1, TheFrame DEF Commands!TypeOK
<1>3. /\ arg.element = n /\ arg.type = frame.payload[n].type
      /\ arg.value = IF n = call[c].element THEN call[c].value ELSE mem[n]
      /\ arg \in Commands!Collected
  <2>1. arg = [element |-> n, type |-> frame.payload[n].type,
               value |-> IF n = call[c].element THEN call[c].value ELSE mem[n]]
    BY DEF Commands!Argument
  <2>2. mem[n] \in Values /\ call[c].value \in Values
    BY <1>1 DEF Commands!TypeOK
  <2>3. QED
    BY <1>1, <2>1, <2>2 DEF Commands!Collected
<1> HIDE DEF arg
<1>4. args[c] \in Seq(Commands!Collected) /\ Len(args[c]) <= n - 1 /\ Len(args[c]) \in Nat
  <2>1. n # 0
    BY <1>2
  <2>2. QED
    BY <2>1, ArgsOf DEF Commands!TypeOK
<1>5. /\ gone => args'[c] = args[c]
      /\ ~gone => args'[c] = Append(args[c], arg)
  BY <1>1 DEF Commands!TypeOK
<1>6. /\ ~gone => Len(args'[c]) = Len(args[c]) + 1
      /\ \A i \in DOMAIN args'[c] :
           \/ i \in 1 .. Len(args[c]) /\ args'[c][i] = args[c][i]
           \/ i = Len(args[c]) + 1 /\ args'[c][i] = arg /\ ~gone
  <2>1. CASE gone
    BY <1>4, <1>5, <2>1
  <2>2. CASE ~gone
    BY <1>3, <1>4, <1>5, <2>2, AppendProperties
  <2>3. QED
    BY <2>1, <2>2
<1>7. Commands!TypeOK'
  <2>1. at' \in [Callers -> 0 .. Len(frame.payload) + 1]
    BY <1>1, <1>2 DEF Commands!TypeOK
  <2>2. args' \in [Callers -> Seq(Commands!Collected)]
    <3>1. Append(args[c], arg) \in Seq(Commands!Collected)
      BY <1>3, <1>4
    <3>2. QED
      BY <1>1, <3>1 DEF Commands!TypeOK
  <2>3. Len(args'[c]) <= at'[c] - 1 /\ at'[c] # 0
    BY <1>2, <1>4, <1>5, <1>6
  <2>4. \A d \in Callers : Len(args'[d]) <= IF at'[d] = 0 THEN 0 ELSE at'[d] - 1
    BY <1>2, <2>3 DEF Commands!TypeOK
  <2>5. QED
    BY <1>1, <2>1, <2>2, <2>4, ElementsStay DEF Commands!TypeOK
<1>8. Commands!OwnValue'
  <2>1. ASSUME NEW i \in DOMAIN args'[c], args'[c][i].element = call[c].element
        PROVE  args'[c][i].value = call[c].value
    <3>1. CASE i \in 1 .. Len(args[c]) /\ args'[c][i] = args[c][i]
      BY <2>1, <3>1, ArgsOf DEF Commands!OwnValue
    <3>2. CASE args'[c][i] = arg
      BY <1>3, <2>1, <3>2
    <3>3. QED
      BY <1>6, <3>1, <3>2
  <2>2. QED
    BY <1>1, <1>2, <2>1 DEF Commands!OwnValue
<1>9. Latest'
  <2> SUFFICES ASSUME steps > 0, ~theirs, ~refused, ~told
               PROVE  \E d \in Callers :
                        /\ at'[d] > 0
                        /\ call[d].element # 0 => mem[call[d].element] = call[d].value
                        /\ \A i \in DOMAIN args'[d] : args'[d][i].value = mem[args'[d][i].element]
    BY <1>1 DEF Latest
  <2>1. PICK d \in Callers :
          /\ at[d] > 0
          /\ call[d].element # 0 => mem[call[d].element] = call[d].value
          /\ \A i \in DOMAIN args[d] : args[d][i].value = mem[args[d][i].element]
    BY DEF Latest
  <2>2. CASE d # c
    BY <1>2, <2>1, <2>2
  <2>3. CASE d = c
    <3>1. arg.value = mem[arg.element]
      BY <1>2, <1>3, <2>1, <2>3
    <3>2. \A i \in DOMAIN args'[c] : args'[c][i].value = mem[args'[c][i].element]
      BY <1>6, <2>1, <2>3, <3>1, ArgsOf
    <3>3. at'[c] > 0
      BY <1>2
    <3>4. QED
      BY <2>1, <2>3, <3>2, <3>3
  <2>4. QED
    BY <2>2, <2>3
<1>10. ASSUME NEW d \in Callers
       PROVE  InPlace(d)'
  <2>1. Commands!Written({"missing"})' = Commands!Written({"missing"})
    BY <1>1 DEF Commands!Written, Commands!Elements
  <2>2. CASE d # c
    BY <1>1, <1>2, <2>1, <2>2 DEF InPlace
  <2>3. CASE d = c
    <3> SUFFICES ASSUME Commands!Written({"missing"}) = {}
                 PROVE  /\ Len(args'[c]) = at'[c] - 1
                        /\ \A i \in DOMAIN args'[c] :
                             /\ args'[c][i].element = i
                             /\ args'[c][i].type = frame.payload[i].type
      <4>1. at'[c] # 0 /\ DOMAIN args'[c] = 1 .. Len(args'[c])
        BY <1>2, <1>7, ArgsOf DEF Commands!TypeOK
      <4>2. QED
        BY <1>1, <2>1, <2>3, <4>1 DEF InPlace
    <3>1. /\ ~gone /\ Len(args[c]) = n - 1
          /\ \A i \in 1 .. Len(args[c]) :
               args[c][i].element = i /\ args[c][i].type = frame.payload[i].type
      BY <1>2 DEF InPlace
    <3>2. Len(args'[c]) = at'[c] - 1 /\ Len(args[c]) + 1 = n
      BY <1>2, <1>6, <3>1
    <3>3. QED
      BY <1>3, <1>6, <3>1, <3>2
  <2>4. QED
    BY <2>2, <2>3
<1>11. Excused'
  BY <1>1 DEF Excused, Commands!Written, Commands!Elements
<1>12. QED
  BY <1>7, <1>8, <1>9, <1>10, <1>11

(* A call ends: what it collected is dropped. *)
LEMMA ReturnKeeps ==
  ASSUME CommandsInv, NEW c \in Callers, Commands!Return(c),
         told' \in BOOLEAN, refused' \in BOOLEAN
  PROVE  /\ Commands!TypeOK' /\ Commands!OwnValue' /\ \A d \in Callers : InPlace(d)'
         /\ \A d \in Callers \ {c} : args'[d] = args[d] /\ at'[d] = at[d]
<1> USE DEF CommandsInv
<1>1. /\ at' = [at EXCEPT ![c] = 0] /\ args' = [args EXCEPT ![c] = <<>>]
      /\ UNCHANGED <<frame, channel, class, mem, call, steps, theirs>>
  BY DEF Commands!Return
<1>2. /\ args'[c] = <<>> /\ at'[c] = 0
      /\ \A d \in Callers \ {c} : args'[d] = args[d] /\ at'[d] = at[d]
  BY <1>1 DEF Commands!TypeOK
<1>3. Commands!TypeOK'
  <2>1. at' \in [Callers -> 0 .. Len(frame.payload) + 1]
    BY <1>1, TheFrame DEF Commands!TypeOK
  <2>2. args' \in [Callers -> Seq(Commands!Collected)]
    BY <1>1 DEF Commands!TypeOK
  <2>3. \A d \in Callers : Len(args'[d]) <= IF at'[d] = 0 THEN 0 ELSE at'[d] - 1
    <3>1. Len(args'[c]) <= 0 /\ at'[c] = 0
      BY <1>2
    <3>2. QED
      BY <1>2, <3>1 DEF Commands!TypeOK
  <2>4. QED
    BY <1>1, <2>1, <2>2, <2>3, ElementsStay DEF Commands!TypeOK
<1>4. Commands!OwnValue'
  BY <1>1, <1>2 DEF Commands!OwnValue
<1>5. \A d \in Callers : InPlace(d)'
  BY <1>1, <1>2 DEF InPlace, Commands!Written, Commands!Elements
<1>6. QED
  BY <1>2, <1>3, <1>4, <1>5

LEMMA SendPacketKeeps ==
  ASSUME CommandsInv, NEW c \in Callers, Commands!SendPacket(c)
  PROVE  CommandsInv'
<1> USE DEF CommandsInv
<1>1. /\ Commands!Return(c) /\ refused' = refused
      /\ told' = (told \/ \A i \in DOMAIN args[c] : args[c][i].value = mem[args[c][i].element])
      /\ UNCHANGED <<frame, channel, class, mem, call, steps, theirs>>
  BY DEF Commands!SendPacket, Commands!Return
<1>2. told' \in BOOLEAN /\ refused' \in BOOLEAN
  BY <1>1 DEF Commands!TypeOK
<1>3. /\ Commands!TypeOK' /\ Commands!OwnValue' /\ \A d \in Callers : InPlace(d)'
      /\ \A d \in Callers \ {c} : args'[d] = args[d] /\ at'[d] = at[d]
  BY <1>1, <1>2, ReturnKeeps
<1>4. Latest'
  <2> SUFFICES ASSUME steps > 0, ~theirs, ~refused, ~told'
               PROVE  \E d \in Callers :
                        /\ at'[d] > 0
                        /\ call[d].element # 0 => mem[call[d].element] = call[d].value
                        /\ \A i \in DOMAIN args'[d] : args'[d][i].value = mem[args'[d][i].element]
    BY <1>1 DEF Latest
  <2>1. ~told /\ ~ \A i \in DOMAIN args[c] : args[c][i].value = mem[args[c][i].element]
    BY <1>1
  <2>2. PICK d \in Callers :
          /\ at[d] > 0
          /\ call[d].element # 0 => mem[call[d].element] = call[d].value
          /\ \A i \in DOMAIN args[d] : args[d][i].value = mem[args[d][i].element]
    BY <2>1 DEF Latest
  <2>3. d # c
    BY <2>1, <2>2
  <2>4. QED
    BY <1>3, <2>2, <2>3
<1>5. Excused'
  BY <1>1 DEF Excused, Commands!Written, Commands!Elements
<1>6. QED
  BY <1>3, <1>4, <1>5

(* What suits the control, and is complete, is not refused. *)
LEMMA Accepted ==
  ASSUME CommandsInv, NEW c \in Callers, Commands!Done(c),
         class = frame.class, Commands!Written({"missing"}) = {},
         frame.function \notin Unsuited
  PROVE  Commands!CreatesCommand(c)
<1> USE DEF CommandsInv
<1> DEFINE n == Len(frame.payload)
           rule == Commands!Rules[frame.function]
<1>1. Fits(frame) /\ Commands!Elements = 1 .. n /\ n \in 1 .. 6
  BY TheFrame
<1>2. \A i \in 1 .. n : frame.payload[i].how \notin {"missing"}
  BY <1>1 DEF Commands!Written
<1>3. /\ frame.function \in DOMAIN Commands!Rules /\ Len(rule) = n /\ DOMAIN rule = 1 .. n
      /\ \A i \in 1 .. n : frame.payload[i].type \in rule[i]
  BY <1>1, <1>2 DEF Fits
<1> HIDE DEF rule
<1>4. /\ Len(args[c]) = n
      /\ \A i \in 1 .. n : args[c][i].element = i /\ args[c][i].type = frame.payload[i].type
  <2>1. at[c] = n + 1 /\ at[c] > 0 /\ InPlace(c)
    BY <1>1 DEF Commands!Done
  <2>2. Len(args[c]) = at[c] - 1
    BY <2>1 DEF InPlace
  <2>3. Len(args[c]) = n
    BY <1>1, <2>1, <2>2
  <2>4. QED
    BY <2>1, <2>3 DEF InPlace
<1>5. DOMAIN args[c] = 1 .. n
  BY <1>4, ArgsOf
<1>6. Commands!Written({"fixed"}) = {}
  BY <1>1 DEF Commands!Written, Fits, Unsuited
<1>7. \A i \in DOMAIN rule : args[c][i].type \in rule[i]
  BY <1>3, <1>4
<1>8. Len(rule) <= Len(args[c])
  BY <1>1, <1>3, <1>4
<1>9. QED
  BY <1>3, <1>6, <1>7, <1>8 DEF Commands!CreatesCommand, rule

LEMMA CannotCreatePacketKeeps ==
  ASSUME CommandsInv, NEW c \in Callers, Commands!CannotCreatePacket(c)
  PROVE  CommandsInv'
<1> USE DEF CommandsInv
<1>1. /\ Commands!Done(c) /\ (Commands!CreatesCommand(c) => frame.function = "raw")
      /\ Commands!Return(c) /\ refused' = TRUE /\ told' = told
      /\ UNCHANGED <<frame, channel, class, mem, call, steps, theirs>>
  BY DEF Commands!CannotCreatePacket, Commands!Return
<1>2. told' \in BOOLEAN /\ refused' \in BOOLEAN
  BY <1>1 DEF Commands!TypeOK
<1>3. Commands!TypeOK' /\ Commands!OwnValue' /\ \A d \in Callers : InPlace(d)'
  BY <1>1, <1>2, ReturnKeeps
<1>4. Latest'
  BY <1>1 DEF Latest
<1>5. Excused'
  <2>1. \/ class # frame.class \/ Commands!Written({"missing"}) # {}
        \/ frame.function \in Unsuited
    BY <1>1, Accepted DEF Unsuited
  <2>2. QED
    BY <1>1, <2>1 DEF Excused, Commands!Written, Commands!Elements
<1>6. QED
  BY <1>3, <1>4, <1>5

LEMMA WrittenElsewhereKeeps ==
  ASSUME CommandsInv, Commands!BoundsAssumption, NEW i \in Commands!Elements,
         NEW value \in Values, Commands!WrittenElsewhere(i, value)
  PROVE  CommandsInv'
<1> USE DEF CommandsInv
<1>1. /\ steps < MaxSteps /\ steps' = steps + 1
      /\ mem' = [mem EXCEPT ![i] = value] /\ theirs' = TRUE
      /\ UNCHANGED <<frame, channel, class, call, args, at, told, refused>>
  BY DEF Commands!WrittenElsewhere
<1>2. Commands!TypeOK'
  <2>1. steps' \in 0 .. MaxSteps
    BY <1>1 DEF Commands!TypeOK, Commands!BoundsAssumption
  <2>2. mem' \in [Commands!Elements -> Values]
    BY <1>1 DEF Commands!TypeOK
  <2>3. QED
    BY <1>1, <2>1, <2>2, ElementsStay DEF Commands!TypeOK
<1>3. Commands!OwnValue'
  BY <1>1 DEF Commands!OwnValue
<1>4. Latest'
  BY <1>1 DEF Latest
<1>5. \A d \in Callers : InPlace(d)'
  BY <1>1 DEF InPlace, Commands!Written, Commands!Elements
<1>6. Excused'
  BY <1>1 DEF Excused, Commands!Written, Commands!Elements
<1>7. QED
  BY <1>2, <1>3, <1>4, <1>5, <1>6

LEMMA CommandsStep ==
  ASSUME CommandsInv, Commands!BoundsAssumption, [Commands!Next]_Commands!vars
  PROVE  CommandsInv'
<1>1. CASE UNCHANGED Commands!vars
  <2> USE <1>1 DEF Commands!vars, CommandsInv
  <2>1. Commands!TypeOK'
    BY ElementsStay DEF Commands!TypeOK
  <2>2. Commands!OwnValue'
    BY DEF Commands!OwnValue
  <2>3. Latest'
    BY DEF Latest
  <2>4. (\A d \in Callers : InPlace(d)') /\ Excused'
    BY DEF InPlace, Excused, Commands!Written, Commands!Elements
  <2>5. QED
    BY <2>1, <2>2, <2>3, <2>4
<1>2. QED
  BY <1>1, RefuseKeeps, StoreKeeps, CollectKeeps, SendPacketKeeps,
     CannotCreatePacketKeeps,
     WrittenElsewhereKeeps DEF Commands!Next

LEMMA CommandsAreRight ==
  ASSUME CommandsInv
  PROVE  Commands!OwnValue /\ Commands!NoValueForgotten /\ Commands!Carried
<1> USE DEF CommandsInv
<1>1. Commands!NoValueForgotten
  BY DEF Latest, Commands!NoValueForgotten
<1>2. ASSUME NEW c \in Callers, Commands!Done(c), Commands!CreatesCommand(c)
      PROVE  Len(Commands!Rules[frame.function]) = Len(args[c])
  <2> DEFINE rule == Commands!Rules[frame.function]
  <2>1. Len(rule) <= Len(args[c]) /\ Len(frame.payload) <= Len(rule)
    BY <1>2, TheFrame DEF Commands!CreatesCommand, Fits
  <2>2. Len(args[c]) <= Len(frame.payload) /\ Len(args[c]) \in Nat
    <3>1. at[c] = Len(frame.payload) + 1 /\ Len(frame.payload) \in 1 .. 6
      BY <1>2, TheFrame DEF Commands!Done
    <3>2. QED
      BY <3>1, ArgsOf DEF Commands!TypeOK
  <2>3. QED
    BY <2>1, <2>2
<1>3. Commands!Carried
  BY <1>2 DEF Excused, Unsuited, Commands!Carried
<1>4. QED
  BY <1>1, <1>3

-----------------------------------------------------------------------------
(* The theorems *)

CallsInv == runs = "Commands" => CommandsInv

LEMMA CallsInitially ==
  ASSUME Init
  PROVE  CallsInv
BY PartsAssumption, CommandsInit DEF Init, StoreInit, CallsInv

LEMMA CallsStep ==
  ASSUME CallsInv, [Next]_vars
  PROVE  CallsInv'
<1> SUFFICES ASSUME runs' = "Commands"
             PROVE  CommandsInv'
  BY DEF CallsInv
<1>1. runs = "Commands" /\ [Commands!Next]_Commands!vars
  <2>1. CASE Next
    BY <2>1 DEF Next, StoreNext
  <2>2. CASE UNCHANGED vars
    BY <2>2 DEF vars, commands, Commands!vars
  <2>3. QED
    BY <2>1, <2>2
<1>2. QED
  BY <1>1, PartsAssumption, CommandsStep DEF CallsInv

(* Every command is made with the value its caller gave, and of calls that
   overlap one command has all the values that were stored: however many
   clients set whatever values (LoxonePeer::setValue()). *)
THEOREM CommandsHaveTheirValues == Spec => []OwnValues
<1>1. CallsInv => OwnValues
  BY CommandsAreRight DEF CallsInv, OwnValues
<1>2. QED
  BY <1>1, CallsInitially, CallsStep, PTL DEF Spec

(* No frame of the device descriptions is refused for its elements by the rule
   its control has for it, nor is one carried out without some of them
   (LoxoneControl::setValue() and those of the classes). *)
THEOREM FramesAreCarriedOut == Spec => []Carried
<1>1. CallsInv => Carried
  BY CommandsAreRight DEF CallsInv, Carried
<1>2. QED
  BY <1>1, CallsInitially, CallsStep, PTL DEF Spec

-----------------------------------------------------------------------------
(* The entries of a day timer *)

(* What a channel shows of packet p, of which 0 is none. *)
Of(p, c) == IF p = 0 THEN Daytimer!Nothing ELSE [packet |-> p, entry |-> c]

(* What channel c shows is of one packet, whole; it is of packet new in front of
   field n, of packet old from there. *)
Whole(row, c, p) == \A f \in 1 .. 6 : row[f] = Of(p, c)
Mixed(row, c, n, new, old) ==
  \A f \in 1 .. 6 : row[f] = IF f < n THEN Of(new, c) ELSE Of(old, c)

Before(p) == {q \in Nat : q < p}

(* While a packet is written: the channels before the next have it, those
   after it an earlier one, and the next has both. *)
Written ==
  /\ packet > 0
  /\ channel = IF entry <= Channels THEN entry ELSE Channels + 1
  /\ channel > Channels => field = 1
  /\ \A c \in 1 .. Channels :
       /\ c < channel => Whole(shown[c], c, packet)
       /\ c > channel => \E p \in Before(packet) : Whole(shown[c], c, p)
       /\ c = channel => \E p \in Before(packet) : Mixed(shown[c], c, field, packet, p)

(* And when none is. *)
Rested ==
  \A c \in 1 .. Channels :
    /\ c <= count => Whole(shown[c], c, packet)
    /\ \E p \in 0 .. packet : Whole(shown[c], c, p)

EntriesInv == Daytimer!TypeOK /\ (entry > 0 => Written) /\ (entry = 0 => Rested)

LEMMA SixFields == DOMAIN Daytimer!Fields = 1 .. 6 /\ Len(Daytimer!Fields) = 6
BY DEF Daytimer!Fields

(* The two parts of the type invariant: the place, and what is shown. *)
Places ==
  /\ daytimer \in BOOLEAN /\ steps \in 0 .. MaxPackets
  /\ packet \in 0 .. steps /\ count \in 0 .. MaxEntries /\ entry \in 0 .. count
  /\ channel \in 1 .. Channels + 1 /\ field \in 1 .. 6
Pairs == [packet : 0 .. steps, entry : 0 .. MaxEntries]

LEMMA DaytimerTypeOK ==
  Daytimer!TypeOK <=> Places /\ shown \in [1 .. Channels -> [1 .. 6 -> Pairs]]
BY SixFields, Zenon DEF Daytimer!TypeOK, Places, Pairs

LEMMA DaytimerInit ==
  ASSUME Daytimer!BoundsAssumption, Daytimer!Init
  PROVE  EntriesInv
<1> USE SixFields DEF Daytimer!BoundsAssumption, Daytimer!Init, Daytimer!Blank
<1>1. Daytimer!Nothing \in Pairs
  BY DEF Daytimer!Nothing, Pairs
<1>2. shown \in [1 .. Channels -> [1 .. 6 -> Pairs]]
  BY <1>1
<1>3. Places
  BY DEF Places
<1>4. Daytimer!TypeOK
  BY <1>2, <1>3, DaytimerTypeOK
<1>5. \A c \in 1 .. Channels : Whole(shown[c], c, 0)
  BY DEF Whole, Of
<1>6. Rested
  <2>1. count = 0 /\ 0 \in 0 .. packet
    OBVIOUS
  <2>2. QED
    BY <1>5, <2>1 DEF Rested
<1>7. QED
  BY <1>4, <1>6 DEF EntriesInv

LEMMA DaytimerPlaces ==
  ASSUME Daytimer!BoundsAssumption, Places, [Daytimer!Next]_Daytimer!vars
  PROVE  Places'
<1> USE SixFields DEF Daytimer!BoundsAssumption
<1>1. CASE Daytimer!Receive
  BY <1>1 DEF Places, Daytimer!Receive
<1>2. CASE Daytimer!Ignore
  BY <1>2 DEF Places, Daytimer!Ignore
<1>3. CASE Daytimer!Search
  BY <1>3 DEF Places, Daytimer!Search
<1>4. CASE Daytimer!SkipEntry
  BY <1>4 DEF Places, Daytimer!SkipEntry, Daytimer!NextEntry
<1>5. CASE Daytimer!WriteField
  <2>1. CASE field < 6
    BY <1>5, <2>1 DEF Places, Daytimer!WriteField
  <2>2. CASE field = 6
    <3>1. entry' \in 0 .. count /\ channel' \in 1 .. Channels + 1 /\ field' = 1
      BY <1>5, <2>2 DEF Places, Daytimer!WriteField, Daytimer!NextEntry
    <3>2. UNCHANGED <<daytimer, packet, count, steps>>
      BY <1>5 DEF Places, Daytimer!WriteField
    <3>3. QED
      BY <3>1, <3>2 DEF Places
  <2>3. QED
    BY <2>1, <2>2 DEF Places
<1>6. CASE Daytimer!Restart
  <2>0. daytimer' \in BOOLEAN
    BY <1>6 DEF Daytimer!Restart
  <2>1. steps' \in 0 .. MaxPackets
    BY <1>6 DEF Daytimer!Restart, Places
  <2>2. /\ packet' \in 0 .. steps' /\ count' \in 0 .. MaxEntries /\ entry' \in 0 .. count'
        /\ channel' \in 1 .. Channels + 1 /\ field' \in 1 .. 6
    BY <1>6, <2>1 DEF Daytimer!Restart
  <2>3. QED
    BY <2>0, <2>1, <2>2 DEF Places
<1>7. CASE UNCHANGED Daytimer!vars
  BY <1>7 DEF Places, Daytimer!vars
<1>8. QED
  BY <1>1, <1>2, <1>3, <1>4, <1>5, <1>6, <1>7 DEF Daytimer!Next

LEMMA DaytimerTypes ==
  ASSUME Daytimer!BoundsAssumption, Daytimer!TypeOK, [Daytimer!Next]_Daytimer!vars
  PROVE  Daytimer!TypeOK'
<1> USE SixFields DEF Daytimer!BoundsAssumption
<1>1. Places /\ shown \in [1 .. Channels -> [1 .. 6 -> Pairs]] /\ Places'
  BY DaytimerTypeOK, DaytimerPlaces
<1>2. CASE Daytimer!WriteField
  <2>1. steps' = steps /\ [packet |-> packet, entry |-> entry] \in Pairs
    BY <1>1, <1>2 DEF Daytimer!WriteField, Places, Pairs
  <2>2. shown' \in [1 .. Channels -> [1 .. 6 -> Pairs]]
    BY <1>1, <1>2, <2>1 DEF Daytimer!WriteField, Places
  <2>3. Pairs' = Pairs
    BY <2>1 DEF Pairs
  <2>4. QED
    BY <1>1, <2>2, <2>3 DEF Daytimer!TypeOK, Places, Pairs
<1>3. CASE Daytimer!Restart
  <2>1. Daytimer!Nothing \in Pairs'
    BY <1>1 DEF Daytimer!Nothing, Places, Pairs
  <2>2. shown' \in [1 .. Channels -> [1 .. 6 -> Pairs']]
    BY <2>1, <1>3 DEF Daytimer!Restart, Daytimer!Blank
  <2>3. QED
    BY <1>1, <2>2 DEF Daytimer!TypeOK, Places, Pairs
<1>4. CASE shown' = shown /\ steps' \in {steps, steps + 1}
  <2>0. 0 .. steps \subseteq 0 .. steps'
    BY <1>1, <1>4 DEF Places
  <2>1. Pairs \subseteq Pairs'
    BY <2>0 DEF Pairs
  <2>2. shown' \in [1 .. Channels -> [1 .. 6 -> Pairs']]
    BY <1>1, <1>4, <2>1
  <2>3. QED
    BY <1>1, <2>2 DEF Daytimer!TypeOK, Places, Pairs
<1>5. QED
  BY <1>2, <1>3, <1>4 DEF Daytimer!Next, Daytimer!vars, Daytimer!Receive,
     Daytimer!Ignore,
     Daytimer!Search, Daytimer!SkipEntry
(* A field is written into a channel. *)
LEMMA FieldWritten ==
  ASSUME NEW row, row \in [1 .. 6 -> Pairs], NEW c, NEW n \in 1 .. 6,
         NEW new \in Nat \ {0}, NEW old, Mixed(row, c, n, new, old)
  PROVE  LET next == [row EXCEPT ![n] = [packet |-> new, entry |-> c]] IN
         /\ n < 6 => Mixed(next, c, n + 1, new, old)
         /\ n = 6 => Whole(next, c, new)
<1> DEFINE next == [row EXCEPT ![n] = [packet |-> new, entry |-> c]]
<1>1. next[n] = Of(new, c) /\ \A f \in 1 .. 6 \ {n} : next[f] = row[f]
  BY DEF Of
<1>2. \A f \in 1 .. 6 : next[f] = IF f < n + 1 THEN Of(new, c) ELSE Of(old, c)
  BY <1>1 DEF Mixed
<1>3. QED
  BY <1>2 DEF Mixed, Whole

LEMMA WholeIsMixed ==
  ASSUME NEW row, NEW c, NEW new, NEW old, Whole(row, c, old)
  PROVE  Mixed(row, c, 1, new, old)
BY DEF Whole, Mixed

(* A step of the writing keeps what it is about. *)
LEMMA DaytimerWritten ==
  ASSUME Daytimer!BoundsAssumption, EntriesInv, [Daytimer!Next]_Daytimer!vars,
         entry' > 0
  PROVE  Written'
<1> USE SixFields DEF Daytimer!BoundsAssumption
<1>0. Places /\ Places' /\ shown \in [1 .. Channels -> [1 .. 6 -> Pairs]]
  BY DaytimerTypeOK, DaytimerPlaces DEF EntriesInv
<1>1. CASE Daytimer!Receive
  <2>0. entry = 0 /\ Rested
    BY <1>1 DEF Daytimer!Receive, EntriesInv
  <2>1. /\ Rested /\ packet' > packet /\ packet' \in Nat
        /\ shown' = shown /\ channel' = 1 /\ field' = 1 /\ entry' = 1
    BY <1>0, <1>1, <2>0 DEF Daytimer!Receive, Places
  <2>2. ASSUME NEW c \in 1 .. Channels
        PROVE  \E p \in Before(packet') :
                 Whole(shown'[c], c, p) /\ Mixed(shown'[c], c, 1, packet', p)
    <3>1. PICK p \in 0 .. packet : Whole(shown[c], c, p)
      BY <2>1 DEF Rested
    <3>2. p \in Before(packet')
      BY <1>0, <2>1, <3>1 DEF Places, Before
    <3>3. Mixed(shown'[c], c, 1, packet', p)
      BY <2>1, <3>1, WholeIsMixed
    <3>4. QED
      BY <2>1, <3>1, <3>2, <3>3
  <2>3. packet' > 0 /\ channel' = 1 /\ 1 <= Channels
    BY <1>0, <2>1 DEF Places
  <2>4. QED
    BY <2>1, <2>2, <2>3 DEF Written
<1>2. CASE Daytimer!SkipEntry
  <2>1. /\ Written /\ channel > Channels /\ entry' = entry + 1
        /\ UNCHANGED <<packet, channel, field, shown>>
    BY <1>0, <1>2 DEF Daytimer!SkipEntry, Daytimer!NextEntry, EntriesInv, Places
  <2>2. QED
    BY <1>0, <2>1 DEF Written, Places
<1>3. CASE Daytimer!WriteField
  <2>1. /\ Written /\ channel \in 1 .. Channels /\ packet \in Nat \ {0} /\ entry = channel
        /\ packet' = packet
    BY <1>0, <1>3 DEF Daytimer!WriteField, EntriesInv, Written, Places
  <2>2. /\ \A c \in 1 .. Channels \ {channel} : shown'[c] = shown[c]
        /\ shown'[channel] = [shown[channel] EXCEPT ![field] = [packet |-> packet, entry |-> channel]]
    BY <1>0, <1>3, <2>1 DEF Daytimer!WriteField, Places
  <2>3. PICK p \in Before(packet) : Mixed(shown[channel], channel, field, packet, p)
    BY <2>1 DEF Written
  <2>4. /\ field < 6 => Mixed(shown'[channel], channel, field + 1, packet, p)
        /\ field = 6 => Whole(shown'[channel], channel, packet)
    <3>1. shown[channel] \in [1 .. 6 -> Pairs] /\ field \in 1 .. 6
      BY <1>0, <2>1 DEF Places
    <3>2. LET next == [shown[channel] EXCEPT ![field] = [packet |-> packet, entry |-> channel]] IN
          /\ field < 6 => Mixed(next, channel, field + 1, packet, p)
          /\ field = 6 => Whole(next, channel, packet)
      BY <2>1, <2>3, <3>1, FieldWritten
    <3>3. QED
      BY <2>2, <3>2
  <2>5. CASE field < 6
    <3>1. channel' = channel /\ field' = field + 1 /\ entry' = entry
      BY <1>3, <2>5 DEF Daytimer!WriteField
    <3>2. Mixed(shown'[channel], channel, field', packet', p)
      BY <2>1, <2>4, <2>5, <3>1
    <3>3. ASSUME NEW c \in 1 .. Channels
          PROVE  /\ c < channel' => Whole(shown'[c], c, packet')
                 /\ c > channel' => \E q \in Before(packet') : Whole(shown'[c], c, q)
                 /\ c = channel' => \E q \in Before(packet') :
                                      Mixed(shown'[c], c, field', packet', q)
      BY <2>1, <2>2, <3>1, <3>2 DEF Written
    <3>4. /\ packet' > 0 /\ channel' = IF entry' <= Channels THEN entry' ELSE Channels + 1
          /\ channel' > Channels => field' = 1
      BY <2>1, <3>1 DEF Written
    <3>5. QED
      BY <3>3, <3>4 DEF Written
  <2>6. CASE field = 6
    <3>1. channel' = channel + 1 /\ field' = 1 /\ entry' = entry + 1
      BY <1>0, <1>3, <2>6 DEF Daytimer!WriteField, Daytimer!NextEntry
    <3>2. channel + 1 <= Channels =>
            \E q \in Before(packet) : Mixed(shown'[channel + 1], channel + 1, 1, packet, q)
      <4> SUFFICES ASSUME channel + 1 <= Channels
                   PROVE  \E q \in Before(packet) :
                            Mixed(shown'[channel + 1], channel + 1, 1, packet, q)
        OBVIOUS
      <4>1. channel + 1 \in 1 .. Channels \ {channel} /\ channel + 1 > channel
        BY <2>1
      <4>2. PICK q \in Before(packet) : Whole(shown[channel + 1], channel + 1, q)
        BY <2>1, <4>1 DEF Written
      <4>3. Mixed(shown'[channel + 1], channel + 1, 1, packet, q)
        BY <2>2, <4>1, <4>2, WholeIsMixed
      <4>4. QED
        BY <4>3
    <3>3. ASSUME NEW c \in 1 .. Channels
          PROVE  /\ c < channel' => Whole(shown'[c], c, packet')
                 /\ c > channel' => \E q \in Before(packet') : Whole(shown'[c], c, q)
                 /\ c = channel' => \E q \in Before(packet') :
                                      Mixed(shown'[c], c, field', packet', q)
      <4>1. CASE c < channel
        BY <2>1, <2>2, <3>1, <4>1 DEF Written
      <4>2. CASE c = channel
        BY <2>1, <2>4, <2>6, <3>1, <4>2
      <4>3. CASE c = channel + 1
        BY <2>1, <3>1, <3>2, <4>3
      <4>4. CASE c > channel + 1
        BY <2>1, <2>2, <3>1, <4>4 DEF Written
      <4>5. QED
        BY <2>1, <4>1, <4>2, <4>3, <4>4
    <3>4. /\ packet' > 0 /\ channel' = IF entry' <= Channels THEN entry' ELSE Channels + 1
          /\ channel' > Channels => field' = 1
      BY <2>1, <3>1 DEF Written
    <3>5. QED
      BY <3>3, <3>4 DEF Written
  <2>7. QED
    BY <1>0, <2>5, <2>6 DEF Places
<1>4. CASE UNCHANGED <<packet, count, entry, channel, field, shown>>
  BY <1>4 DEF EntriesInv, Written
<1>5. QED
  BY <1>1, <1>2, <1>3, <1>4 DEF Daytimer!Next, Daytimer!vars, Daytimer!Ignore,
     Daytimer!Search, Daytimer!Restart

(* So does one that ends it, or the start of another life. *)
LEMMA DaytimerRested ==
  ASSUME Daytimer!BoundsAssumption, EntriesInv, [Daytimer!Next]_Daytimer!vars,
         entry' = 0
  PROVE  Rested'
<1> USE SixFields DEF Daytimer!BoundsAssumption
<1>0. Places /\ Places' /\ shown \in [1 .. Channels -> [1 .. 6 -> Pairs]]
  BY DaytimerTypeOK, DaytimerPlaces DEF EntriesInv
<1>1. CASE Daytimer!Receive
  <2>1. Rested /\ packet' > packet /\ shown' = shown /\ count' = 0
    BY <1>0, <1>1 DEF Daytimer!Receive, EntriesInv, Places
  <2>2. QED
    BY <1>0, <2>1 DEF Rested, Places
<1>2. CASE Daytimer!SkipEntry
  <2>1. Written /\ channel > Channels /\ UNCHANGED <<packet, count, shown>>
    BY <1>0, <1>2 DEF Daytimer!SkipEntry, EntriesInv, Places
  <2>2. QED
    BY <1>0, <2>1 DEF Written, Rested, Places
<1>3. CASE Daytimer!WriteField
  <2>1. /\ Written /\ channel \in 1 .. Channels /\ packet \in Nat \ {0} /\ field = 6
        /\ count = channel /\ UNCHANGED <<packet, count>>
    BY <1>0, <1>3 DEF Daytimer!WriteField, Daytimer!NextEntry, EntriesInv,
       Written, Places
  <2>2. /\ \A c \in 1 .. Channels \ {channel} : shown'[c] = shown[c]
        /\ shown'[channel] = [shown[channel] EXCEPT ![field] = [packet |-> packet, entry |-> channel]]
    BY <1>0, <1>3, <2>1 DEF Daytimer!WriteField, Places, Daytimer!NextEntry,
       EntriesInv, Written
  <2>3. PICK p \in Before(packet) : Mixed(shown[channel], channel, field, packet, p)
    BY <2>1 DEF Written
  <2>4. Whole(shown'[channel], channel, packet)
    <3>1. shown[channel] \in [1 .. 6 -> Pairs]
      BY <1>0, <2>1 DEF Places
    <3>2. QED
      BY <2>1, <2>2, <2>3, <3>1, FieldWritten
  <2>5. ASSUME NEW c \in 1 .. Channels
        PROVE  /\ c <= count' => Whole(shown'[c], c, packet')
               /\ \E q \in 0 .. packet' : Whole(shown'[c], c, q)
    <3>1. CASE c < channel
      BY <2>1, <2>2, <3>1 DEF Written
    <3>2. CASE c = channel
      BY <2>1, <2>4, <3>2
    <3>3. CASE c > channel
      BY <2>1, <2>2, <3>3 DEF Written, Before
    <3>4. QED
      BY <2>1, <3>1, <3>2, <3>3
  <2>6. QED
    BY <2>5 DEF Rested
<1>4. CASE Daytimer!Restart
  <2>1. \A c \in 1 .. Channels : Whole(shown'[c], c, 0)
    BY <1>4 DEF Daytimer!Restart, Daytimer!Blank, Whole, Of, Daytimer!Nothing
  <2>2. count' = 0 /\ packet' = 0
    BY <1>4 DEF Daytimer!Restart
  <2>3. QED
    BY <2>1, <2>2 DEF Rested
<1>5. CASE UNCHANGED <<packet, count, entry, channel, field, shown>>
  BY <1>5 DEF EntriesInv, Rested
<1>6. QED
  BY <1>1, <1>2, <1>3, <1>4, <1>5 DEF Daytimer!Next, Daytimer!vars,
     Daytimer!Ignore,
     Daytimer!Search

LEMMA DaytimerStep ==
  ASSUME Daytimer!BoundsAssumption, EntriesInv, [Daytimer!Next]_Daytimer!vars
  PROVE  EntriesInv'
<1>1. Daytimer!TypeOK'
  BY DaytimerTypes DEF EntriesInv
<1>2. QED
  BY <1>1, DaytimerWritten, DaytimerRested DEF EntriesInv

LEMMA DaytimerShows ==
  ASSUME Daytimer!BoundsAssumption, EntriesInv
  PROVE  Daytimer!EntriesShown /\ Daytimer!OneTorn
<1> USE SixFields DEF Daytimer!BoundsAssumption
<1>0. Places /\ shown \in [1 .. Channels -> [1 .. 6 -> Pairs]]
  BY DaytimerTypeOK DEF EntriesInv
<1>1. Daytimer!EntriesShown
  <2> SUFFICES ASSUME entry = 0, NEW c \in 1 .. Channels
               PROVE  \E p \in (IF c <= count THEN {packet} ELSE 0 .. packet) :
                        Whole(shown[c], c, p)
    BY DEF Daytimer!EntriesShown, Whole, Of
  <2>1. QED
    BY DEF EntriesInv, Rested
<1>2. CASE entry = 0
  <2>1. \A c \in 1 .. Channels : \A f, g \in 1 .. 6 : shown[c][f] = shown[c][g]
    BY <1>2 DEF EntriesInv, Rested, Whole
  <2>2. QED
    BY <1>1, <2>1 DEF Daytimer!OneTorn
<1>3. CASE entry > 0
  <2> SUFFICES ASSUME NEW c \in 1 .. Channels, NEW f \in 1 .. 6, NEW g \in 1 .. 6,
                      shown[c][f].packet # shown[c][g].packet
               PROVE  c = channel /\ (shown[c][f].packet = packet <=> f < field)
    BY <1>1 DEF Daytimer!OneTorn
  <2>1. Written
    BY <1>3 DEF EntriesInv
  <2>2. c = channel
    <3>1. (\E p : Whole(shown[c], c, p)) => shown[c][f] = shown[c][g]
      BY DEF Whole
    <3>2. QED
      BY <1>0, <2>1, <3>1 DEF Written, Places
  <2>3. PICK p \in Before(packet) : Mixed(shown[c], c, field, packet, p)
    BY <2>1, <2>2 DEF Written
  <2>4. \A q \in Nat : Of(q, c).packet = q
    BY DEF Of, Daytimer!Nothing
  <2>5. shown[c][f].packet = IF f < field THEN packet ELSE p
    <3>1. packet \in Nat /\ p \in Nat
      BY <1>0 DEF Places, Before
    <3>2. QED
      BY <2>3, <2>4, <3>1 DEF Mixed
  <2>6. QED
    BY <1>0, <2>1, <2>2, <2>5 DEF Places, Before
<1>4. QED
  BY <1>0, <1>1, <1>2, <1>3 DEF Places

-----------------------------------------------------------------------------
(* Sequences by what they hold *)

Elems(s) == {s[i] : i \in 1 .. Len(s)}

LEMMA ElemsOfConcat ==
  ASSUME NEW S, NEW a \in Seq(S), NEW b \in Seq(S)
  PROVE  a \o b \in Seq(S) /\ Len(a \o b) = Len(a) + Len(b)
         /\ Elems(a \o b) = Elems(a) \cup Elems(b)
<1>1. /\ a \o b \in Seq(S) /\ Len(a \o b) = Len(a) + Len(b)
      /\ \A i \in 1 .. Len(a) + Len(b) : (a \o b)[i] = IF i <= Len(a) THEN a[i] ELSE b[i - Len(a)]
  BY ConcatProperties
<1>2. Len(a) \in Nat /\ Len(b) \in Nat
  OBVIOUS
<1>3. ASSUME NEW i \in 1 .. Len(a) + Len(b)
      PROVE  (a \o b)[i] \in Elems(a) \cup Elems(b)
  <2>1. CASE i <= Len(a)
    BY <1>1, <1>2, <2>1 DEF Elems
  <2>2. CASE i > Len(a)
    <3>1. i - Len(a) \in 1 .. Len(b) /\ (a \o b)[i] = b[i - Len(a)]
      BY <1>1, <1>2, <2>2
    <3>2. QED
      BY <3>1 DEF Elems
  <2>3. QED
    BY <1>2, <2>1, <2>2
<1>4. ASSUME NEW j \in 1 .. Len(a)
      PROVE  a[j] \in Elems(a \o b)
  BY <1>1, <1>2 DEF Elems
<1>5. ASSUME NEW j \in 1 .. Len(b)
      PROVE  b[j] \in Elems(a \o b)
  <2>1. j + Len(a) \in 1 .. Len(a) + Len(b) /\ (a \o b)[j + Len(a)] = b[j]
    BY <1>1, <1>2
  <2>2. QED
    BY <1>1, <2>1 DEF Elems
<1>6. QED
  BY <1>1, <1>3, <1>4, <1>5 DEF Elems

LEMMA ElemsOfOne ==
  ASSUME NEW S, NEW e \in S
  PROVE  <<e>> \in Seq(S) /\ Len(<<e>>) = 1 /\ Elems(<<e>>) = {e}
BY DEF Elems

LEMMA ElemsOfNone ==
  /\ Elems(<<>>) = {} /\ Len(<<>>) = 0 /\ \A S : <<>> \in Seq(S)
BY DEF Elems

LEMMA ElemsOfTail ==
  ASSUME NEW S, NEW s \in Seq(S), s # <<>>
  PROVE  /\ Head(s) \in S /\ Tail(s) \in Seq(S) /\ Len(Tail(s)) = Len(s) - 1
         /\ Len(s) \in Nat \ {0} /\ (Tail(s) = <<>> <=> Len(s) = 1)
         /\ Elems(s) = {Head(s)} \cup Elems(Tail(s))
<1>1. /\ Head(s) \in S /\ Tail(s) \in Seq(S) /\ Len(Tail(s)) = Len(s) - 1
      /\ \A i \in 1 .. Len(Tail(s)) : Tail(s)[i] = s[i + 1]
  BY HeadTailProperties
<1>2. Len(s) \in Nat \ {0} /\ Head(s) = s[1]
  BY EmptySeq
<1>3. Tail(s) = <<>> <=> Len(s) = 1
  <2>1. Tail(s) = <<>> <=> Len(Tail(s)) = 0
    BY <1>1, EmptySeq
  <2>2. QED
    BY <1>1, <1>2, <2>1
<1>4. ASSUME NEW i \in 1 .. Len(s)
      PROVE  s[i] \in {Head(s)} \cup Elems(Tail(s))
  <2>1. CASE i = 1
    BY <1>2, <2>1
  <2>2. CASE i > 1
    <3>1. i - 1 \in 1 .. Len(Tail(s)) /\ Tail(s)[i - 1] = s[i]
      BY <1>1, <1>2, <2>2
    <3>2. QED
      BY <3>1 DEF Elems
  <2>3. QED
    BY <2>1, <2>2
<1>5. ASSUME NEW i \in 1 .. Len(Tail(s))
      PROVE  Tail(s)[i] \in Elems(s)
  <2>1. i + 1 \in 1 .. Len(s) /\ Tail(s)[i] = s[i + 1]
    BY <1>1, <1>2
  <2>2. QED
    BY <2>1 DEF Elems
<1>6. Head(s) \in Elems(s)
  BY <1>2 DEF Elems
<1>7. QED
  BY <1>1, <1>2, <1>3, <1>4, <1>5, <1>6 DEF Elems

-----------------------------------------------------------------------------
(* The configuration parameters *)

ToWrite == [param : Config!Params, value : Values]

(* What a thread is still to write into memory. *)
Left(t) == IF place[t] \in {"idle", "write"} THEN Elems(todo[t]) ELSE Elems(Tail(todo[t]))

(* Thread t will raise the event of the channel of parameter p: a client does
   it in the end, for the one channel of its call, a search for the parameter
   it is at, once it is written. *)
Owes(t, p) ==
  /\ place[t] # "idle" /\ (t = Searcher => place[t] # "write")
  /\ Config!Channel(Config!Param(t)) = Config!Channel(p)

(* Of a parameter that no two threads were about to save at once, whoever is
   about to save it has the value in memory, and without anybody it is saved. *)
RowsInv ==
  \A p \in Config!Params \ raced :
    /\ \A t, u \in Config!Writing(p) : t = u
    /\ \A t \in Config!Writing(p) : Head(todo[t]).value = mem[p]
    /\ Config!Writing(p) = {} => db[p] = mem[p]

(* What the clients have read is the value, or somebody will tell them. *)
OneChannel ==
  \A c \in Clients : \A r, s \in Elems(todo[c]) :
    Config!Channel(r.param) = Config!Channel(s.param)
ToldInv == \A p \in Config!Params : seen[p] = mem[p] \/ \E t \in Config!Threads : Owes(t, p)

(* A search has only the values of the control to write, and a parameter that no
   client wrote has its value or is still to be written. *)
SearchInv ==
  /\ \A r \in Elems(todo[Searcher]) :
       r.param \in DOMAIN configured /\ r.value = configured[r.param]
  /\ \A p \in DOMAIN configured \ clients :
       mem[p] = configured[p] \/ \E r \in Left(Searcher) : r.param = p

ConfigInv == Config!TypeOK /\ RowsInv /\ OneChannel /\ ToldInv /\ SearchInv

Orders == {<<"ROOM", "CATEGORY", "EXTRA">>, <<"CATEGORY", "EXTRA", "ROOM">>}

(* What is to be written of a map, in any order. *)
LEMMA RowsOf ==
  ASSUME NEW order \in Orders, NEW from,
         DOMAIN from \subseteq Config!Params, DOMAIN from # {},
         \A p \in DOMAIN from : from[p] \in Values
  PROVE  /\ Config!Rows(order, from) \in Seq(ToWrite)
         /\ Config!Rows(order, from) # <<>> /\ Len(Config!Rows(order, from)) <= 3
         /\ Elems(Config!Rows(order, from)) =
              {[param |-> p, value |-> from[p]] : p \in DOMAIN from}
<1> DEFINE There(p) == IF p \in DOMAIN from THEN <<Config!Row(p, from[p])>> ELSE <<>>
           Holds(p) == IF p \in DOMAIN from THEN {Config!Row(p, from[p])} ELSE {}
<1>1. ASSUME NEW p \in Config!Params
      PROVE  There(p) \in Seq(ToWrite) /\ Len(There(p)) \in 0 .. 1 /\ Elems(There(p)) = Holds(p)
  <2>1. CASE p \in DOMAIN from
    <3>1. Config!Row(p, from[p]) \in ToWrite
      BY <2>1 DEF Config!Row, ToWrite
    <3>2. QED
      BY <2>1, <3>1, ElemsOfOne
  <2>2. CASE p \notin DOMAIN from
    BY <2>2, ElemsOfNone
  <2>3. QED
    BY <2>1, <2>2
<1>2. PICK p, q, r \in Config!Params :
        /\ order = <<p, q, r>> /\ {p, q, r} = Config!Params
  BY DEF Orders, Config!Params, Config!Always
<1>3. Config!Rows(order, from) = There(p) \o There(q) \o There(r)
  BY <1>2 DEF Config!Rows
<1> HIDE DEF There
<1>4. /\ There(p) \o There(q) \in Seq(ToWrite)
      /\ Len(There(p) \o There(q)) = Len(There(p)) + Len(There(q))
      /\ Elems(There(p) \o There(q)) = Holds(p) \cup Holds(q)
  BY <1>1, <1>2, ElemsOfConcat
<1>5. /\ Config!Rows(order, from) \in Seq(ToWrite)
      /\ Len(Config!Rows(order, from)) = Len(There(p)) + Len(There(q)) + Len(There(r))
      /\ Elems(Config!Rows(order, from)) = Holds(p) \cup Holds(q) \cup Holds(r)
  <2> DEFINE two == There(p) \o There(q)
  <2>1. There(r) \in Seq(ToWrite) /\ Elems(There(r)) = Holds(r)
    BY <1>1, <1>2
  <2>2. Config!Rows(order, from) = two \o There(r)
    BY <1>3
  <2>3. two \in Seq(ToWrite) /\ Elems(two) = Holds(p) \cup Holds(q)
        /\ Len(two) = Len(There(p)) + Len(There(q))
    BY <1>4
  <2> HIDE DEF Holds, two
  <2>4. /\ two \o There(r) \in Seq(ToWrite) /\ Len(two \o There(r)) = Len(two) + Len(There(r))
        /\ Elems(two \o There(r)) = Elems(two) \cup Elems(There(r))
    BY <2>1, <2>3, ElemsOfConcat
  <2>5. QED
    BY <2>1, <2>2, <2>3, <2>4
<1>6. Len(Config!Rows(order, from)) <= 3
  <2>1. Len(There(p)) \in 0 .. 1 /\ Len(There(q)) \in 0 .. 1 /\ Len(There(r)) \in 0 .. 1
    BY <1>1, <1>2
  <2>2. \A a, b, c \in 0 .. 1 : a + b + c <= 3
    OBVIOUS
  <2>3. QED
    BY <1>5, <2>1, <2>2
<1>7. Elems(Config!Rows(order, from)) = {[param |-> s, value |-> from[s]] : s \in DOMAIN from}
  BY <1>2, <1>5 DEF Config!Row
<1>8. Config!Rows(order, from) # <<>>
  BY <1>7, ElemsOfNone
<1>9. QED
  BY <1>5, <1>6, <1>7, <1>8

LEMMA FilesAre ==
  ASSUME NEW f \in Config!Files
  PROVE  /\ DOMAIN f \subseteq Config!Params /\ DOMAIN f # {}
         /\ \A p \in DOMAIN f : f[p] \in Values
BY DEF Config!Files, Config!Params, Config!Always

LEMMA ConfigTypeOK ==
  Config!TypeOK <=>
    /\ central \in BOOLEAN /\ file \in Config!Files /\ configured \in Config!Files
    /\ mem \in [Config!Params -> Values \cup {None}]
    /\ db \in [Config!Params -> Values \cup {None}]
    /\ seen \in [Config!Params -> Values \cup {None}]
    /\ place \in [Config!Threads -> {"idle", "write", "save", "raise"}]
    /\ todo \in [Config!Threads -> Seq(ToWrite)]
    /\ \A t \in Config!Threads :
         Len(todo[t]) <= 3 /\ (place[t] = "idle" <=> todo[t] = <<>>)
    /\ steps \in 0 .. MaxSteps
    /\ raced \subseteq Config!Params /\ clients \subseteq Config!Params
BY Zenon DEF Config!TypeOK, ToWrite

LEMMA ConfigInit ==
  ASSUME Config!BoundsAssumption, Config!Init
  PROVE  ConfigInv
<1> USE DEF Config!Init
<1>1. mem \in [Config!Params -> Values \cup {None}]
  BY FilesAre
<1>2. Config!TypeOK
  <2>1. \A t \in Config!Threads : todo[t] = <<>> /\ place[t] = "idle"
    OBVIOUS
  <2>2. todo \in [Config!Threads -> Seq(ToWrite)]
    BY ElemsOfNone
  <2>3. place \in [Config!Threads -> {"idle", "write", "save", "raise"}]
    OBVIOUS
  <2>4. steps \in 0 .. MaxSteps
    BY DEF Config!BoundsAssumption
  <2>5. QED
    BY <1>1, <2>1, <2>2, <2>3, <2>4, ElemsOfNone, ConfigTypeOK
<1>3. \A p \in Config!Params : Config!Writing(p) = {}
  BY DEF Config!Writing
<1>4. RowsInv
  BY <1>3 DEF RowsInv
<1>5. \A t \in Config!Threads : Elems(todo[t]) = {}
  BY ElemsOfNone
<1>6. OneChannel
  BY <1>5 DEF OneChannel, Config!Threads
<1>7. ToldInv
  BY DEF ToldInv
<1>8. SearchInv
  <2>1. \A p \in DOMAIN configured : mem[p] = configured[p]
    BY FilesAre
  <2>2. QED
    BY <1>5, <2>1 DEF SearchInv, Config!Threads
<1>9. QED
  BY <1>2, <1>4, <1>6, <1>7, <1>8 DEF ConfigInv

(* What a thread that is not idle is at. *)
LEMMA AtParam ==
  ASSUME Config!TypeOK, NEW t \in Config!Threads, place[t] # "idle"
  PROVE  /\ todo[t] \in Seq(ToWrite) /\ todo[t] # <<>>
         /\ Head(todo[t]).param \in Config!Params /\ Head(todo[t]).value \in Values
         /\ Tail(todo[t]) \in Seq(ToWrite) /\ Len(Tail(todo[t])) <= 3
         /\ (Tail(todo[t]) = <<>> <=> Len(todo[t]) = 1)
         /\ Head(todo[t]) \in Elems(todo[t])
         /\ Elems(todo[t]) = {Head(todo[t])} \cup Elems(Tail(todo[t]))
<1>1. todo[t] \in Seq(ToWrite) /\ todo[t] # <<>> /\ Len(todo[t]) <= 3
  BY ConfigTypeOK
<1>2. /\ Head(todo[t]) \in ToWrite /\ Tail(todo[t]) \in Seq(ToWrite)
      /\ Len(Tail(todo[t])) = Len(todo[t]) - 1 /\ Len(todo[t]) \in Nat \ {0}
      /\ (Tail(todo[t]) = <<>> <=> Len(todo[t]) = 1)
      /\ Elems(todo[t]) = {Head(todo[t])} \cup Elems(Tail(todo[t]))
  BY <1>1, ElemsOfTail
<1>3. Len(Tail(todo[t])) <= 3
  BY <1>1, <1>2
<1>4. QED
  BY <1>1, <1>2, <1>3 DEF ToWrite

(* A step of thread t that leaves the other threads where they are. *)
Alone(t) ==
  /\ place' = [place EXCEPT ![t] = place'[t]]
  /\ todo' = [todo EXCEPT ![t] = todo'[t]]

LEMMA OthersStay ==
  ASSUME Config!TypeOK, NEW t \in Config!Threads, Alone(t)
  PROVE  \A u \in Config!Threads \ {t} : place'[u] = place[u] /\ todo'[u] = todo[u]
BY ConfigTypeOK DEF Alone

(* A step neither to nor from a save leaves the rows as they are. *)
LEMMA RowsKept ==
  ASSUME Config!TypeOK, RowsInv, NEW t \in Config!Threads, Alone(t),
         place[t] # "save", place'[t] # "save", UNCHANGED <<mem, db, raced>>
  PROVE  RowsInv'
<1>1. \A u \in Config!Threads \ {t} : place'[u] = place[u] /\ todo'[u] = todo[u]
  BY OthersStay
<1>2. \A p \in Config!Params : Config!Writing(p)' = Config!Writing(p)
  BY <1>1 DEF Config!Writing, Config!Param
<1>3. \A p \in Config!Params : \A u \in Config!Writing(p) : todo'[u] = todo[u]
  BY <1>1 DEF Config!Writing
<1>4. QED
  BY <1>2, <1>3 DEF RowsInv

LEMMA ConfigBegins ==
  ASSUME Config!TypeOK, NEW t \in Config!Threads, place[t] = "idle",
         place' = [place EXCEPT ![t] = "write"],
         NEW s \in Seq(ToWrite), s # <<>>, Len(s) <= 3, todo' = [todo EXCEPT ![t] = s],
         steps < MaxSteps /\ steps' = steps + 1, Config!BoundsAssumption,
         UNCHANGED <<central, file, mem, db, seen, raced>>,
         configured' \in Config!Files, clients' \subseteq Config!Params
  PROVE  /\ Config!TypeOK' /\ Alone(t) /\ place'[t] = "write" /\ todo'[t] = s
         /\ ToldInv => ToldInv'
<1>1. /\ place \in [Config!Threads -> {"idle", "write", "save", "raise"}]
      /\ todo \in [Config!Threads -> Seq(ToWrite)]
      /\ \A u \in Config!Threads :
           Len(todo[u]) <= 3 /\ (place[u] = "idle" <=> todo[u] = <<>>)
  BY ConfigTypeOK
<1>2. Alone(t) /\ place'[t] = "write" /\ todo'[t] = s
  BY <1>1 DEF Alone
<1>3. /\ place' \in [Config!Threads -> {"idle", "write", "save", "raise"}]
      /\ todo' \in [Config!Threads -> Seq(ToWrite)]
  BY <1>1
<1>4. \A u \in Config!Threads :
        Len(todo'[u]) <= 3 /\ (place'[u] = "idle" <=> todo'[u] = <<>>)
  BY <1>1
<1>5. steps' \in 0 .. MaxSteps
  BY ConfigTypeOK DEF Config!BoundsAssumption
<1>6. Config!TypeOK'
  BY <1>3, <1>4, <1>5, ConfigTypeOK DEF Config!TypeOK, ToWrite
<1>7. ASSUME ToldInv
      PROVE  ToldInv'
  <2>1. \A u \in Config!Threads \ {t} : place'[u] = place[u] /\ todo'[u] = todo[u]
    BY <1>2, OthersStay
  <2>2. ASSUME NEW p \in Config!Params, NEW u \in Config!Threads, Owes(u, p)
        PROVE  Owes(u, p)'
    BY <2>1, <2>2 DEF Owes, Config!Channel, Config!Param
  <2>3. QED
    BY <1>7, <2>2 DEF ToldInv
<1>8. QED
  BY <1>2, <1>6, <1>7

LEMMA SearchBeginsKeeps ==
  ASSUME ConfigInv, Config!BoundsAssumption, Config!SearcherAssumption, Config!SearchBegins
  PROVE  ConfigInv'
<1> DEFINE S == Config!Rows(<<"ROOM", "CATEGORY", "EXTRA">>, file)
<1> USE DEF ConfigInv
<1>1. Searcher \in Config!Threads /\ \A c \in Clients : c \in Config!Threads /\ c # Searcher
  BY DEF Config!Threads, Config!SearcherAssumption
<1>2. file \in Config!Files /\ configured' = file /\ clients' = {}
  BY ConfigTypeOK DEF Config!SearchBegins
<1>3. /\ S \in Seq(ToWrite) /\ S # <<>> /\ Len(S) <= 3
      /\ Elems(S) = {[param |-> p, value |-> file[p]] : p \in DOMAIN file}
  <2>1. <<"ROOM", "CATEGORY", "EXTRA">> \in Orders
    BY DEF Orders
  <2>2. QED
    BY <1>2, <2>1, FilesAre, RowsOf
<1>4. /\ Config!TypeOK' /\ Alone(Searcher) /\ place'[Searcher] = "write" /\ todo'[Searcher] = S
      /\ ToldInv'
  <2>1. /\ place[Searcher] = "idle" /\ place' = [place EXCEPT ![Searcher] = "write"]
        /\ todo' = [todo EXCEPT ![Searcher] = S] /\ steps < MaxSteps /\ steps' = steps + 1
        /\ UNCHANGED <<central, file, mem, db, seen, raced>>
    BY DEF Config!SearchBegins, Config!Step, Config!Goes
  <2> HIDE DEF S
  <2>2. QED
    BY <1>1, <1>2, <1>3, <2>1, ConfigBegins
<1> HIDE DEF S
<1>5. RowsInv'
  <2>1. place[Searcher] # "save" /\ UNCHANGED <<mem, db, raced>>
    BY DEF Config!SearchBegins
  <2>2. QED
    BY <1>1, <1>4, <2>1, RowsKept
<1>6. OneChannel'
  <2>1. \A c \in Clients : todo'[c] = todo[c]
    BY <1>1, <1>4, OthersStay
  <2>2. central' = central
    BY DEF Config!SearchBegins
  <2>3. QED
    BY <2>1, <2>2 DEF OneChannel, Config!Channel
<1>7. SearchInv'
  <2>1. \A r \in Elems(S) : r.param \in DOMAIN file /\ r.value = file[r.param]
    BY <1>3
  <2>2. ASSUME NEW p \in DOMAIN file
        PROVE  \E r \in Elems(S) : r.param = p
    <3>1. [param |-> p, value |-> file[p]] \in Elems(S)
      BY <1>3
    <3>2. QED
      BY <3>1
  <2>3. Left(Searcher)' = Elems(S)
    BY <1>4 DEF Left
  <2>4. QED
    BY <1>2, <1>4, <2>1, <2>2, <2>3 DEF SearchInv
<1>8. QED
  BY <1>4, <1>5, <1>6, <1>7

LEMMA PutParamsetKeeps ==
  ASSUME ConfigInv, Config!BoundsAssumption, Config!SearcherAssumption,
         NEW c \in Clients, NEW params \in Config!ParamSets, Config!PutParamset(c, params)
  PROVE  ConfigInv'
<1> USE DEF ConfigInv
<1>1. c \in Config!Threads /\ Searcher \in Config!Threads /\ c # Searcher
  BY DEF Config!Threads, Config!SearcherAssumption
<1>2. PICK value \in Values :
        todo' = [todo EXCEPT ![c] =
                   Config!Rows(<<"CATEGORY", "EXTRA", "ROOM">>, [p \in params |-> value])]
  BY DEF Config!PutParamset
<1> DEFINE S == Config!Rows(<<"CATEGORY", "EXTRA", "ROOM">>, [p \in params |-> value])
<1>3. /\ params \subseteq Config!Params /\ params # {}
      /\ \A p, q \in params : Config!Channel(p) = Config!Channel(q)
  <2>1. PICK o \in Config!Params : params \in SUBSET Config!Together(o) /\ params # {}
    BY Zenon DEF Config!ParamSets
  <2>2. \A p \in params : p \in Config!Params /\ Config!Channel(p) = Config!Channel(o)
    BY <2>1 DEF Config!Together
  <2>3. QED
    BY <2>1, <2>2
<1>4. /\ S \in Seq(ToWrite) /\ S # <<>> /\ Len(S) <= 3
      /\ \A r \in Elems(S) : r.param \in params
  <2> DEFINE from == [p \in params |-> value]
  <2>1. /\ DOMAIN from = params /\ \A p \in DOMAIN from : from[p] \in Values
        /\ <<"CATEGORY", "EXTRA", "ROOM">> \in Orders
    BY DEF Orders
  <2> HIDE DEF from
  <2>2. LET s == Config!Rows(<<"CATEGORY", "EXTRA", "ROOM">>, from) IN
        /\ s \in Seq(ToWrite) /\ s # <<>> /\ Len(s) <= 3
        /\ Elems(s) = {[param |-> p, value |-> from[p]] : p \in DOMAIN from}
    BY <1>3, <2>1, RowsOf
  <2>3. QED
    BY <2>1, <2>2 DEF from
<1>5. /\ Config!TypeOK' /\ Alone(c) /\ place'[c] = "write" /\ todo'[c] = S /\ ToldInv'
  <2>1. /\ place[c] = "idle" /\ place' = [place EXCEPT ![c] = "write"]
        /\ todo' = [todo EXCEPT ![c] = S] /\ steps < MaxSteps /\ steps' = steps + 1
        /\ UNCHANGED <<central, file, mem, db, seen, raced>>
    BY <1>2 DEF Config!PutParamset, Config!Step, Config!Goes
  <2>2. configured' \in Config!Files /\ clients' \subseteq Config!Params
    BY ConfigTypeOK DEF Config!PutParamset
  <2> HIDE DEF S
  <2>3. QED
    BY <1>1, <1>4, <2>1, <2>2, ConfigBegins
<1> HIDE DEF S
<1>6. \A u \in Config!Threads \ {c} : place'[u] = place[u] /\ todo'[u] = todo[u]
  BY <1>1, <1>5, OthersStay
<1>7. UNCHANGED <<central, configured, mem, db, raced, clients>> /\ place[c] # "save"
  BY DEF Config!PutParamset
<1>8. RowsInv'
  BY <1>1, <1>5, <1>7, RowsKept
<1>9. OneChannel'
  <2>1. ASSUME NEW d \in Clients, NEW r \in Elems(todo'[d]), NEW s \in Elems(todo'[d])
        PROVE  Config!Channel(r.param) = Config!Channel(s.param)
    <3>1. CASE d = c
      BY <1>3, <1>4, <1>5, <3>1
    <3>2. CASE d # c
      BY <1>6, <3>2 DEF OneChannel, Config!Threads
    <3>3. QED
      BY <3>1, <3>2
  <2>2. QED
    BY <1>7, <2>1 DEF OneChannel, Config!Channel
<1>10. SearchInv'
  BY <1>1, <1>6, <1>7 DEF SearchInv, Left
<1>11. QED
  BY <1>5, <1>8, <1>9, <1>10

LEMMA SetBinaryDataKeeps ==
  ASSUME ConfigInv, Config!SearcherAssumption, NEW t \in Config!Threads, Config!SetBinaryData(t)
  PROVE  ConfigInv'
<1> USE DEF ConfigInv
<1> DEFINE h == Head(todo[t])
<1>1. /\ place[t] = "write" /\ place' = [place EXCEPT ![t] = "save"]
      /\ mem' = [mem EXCEPT ![h.param] = h.value]
      /\ raced' = IF Config!Writing(h.param) = {} THEN raced \ {h.param}
                  ELSE raced \cup {h.param}
      /\ clients' = IF t = Searcher THEN clients ELSE clients \cup {h.param}
      /\ UNCHANGED <<central, file, configured, db, todo, steps, seen>>
  BY DEF Config!SetBinaryData, Config!Goes, Config!Param
<1>2. /\ h.param \in Config!Params /\ h.value \in Values /\ h \in Elems(todo[t])
      /\ Elems(todo[t]) = {h} \cup Elems(Tail(todo[t])) /\ todo[t] # <<>>
  BY <1>1, AtParam
<1> HIDE DEF h
<1>3. /\ place \in [Config!Threads -> {"idle", "write", "save", "raise"}]
      /\ mem \in [Config!Params -> Values \cup {None}]
      /\ \A u \in Config!Threads : place[u] = "idle" <=> todo[u] = <<>>
  BY ConfigTypeOK
<1>4. place'[t] = "save" /\ \A u \in Config!Threads \ {t} : place'[u] = place[u]
  BY <1>1, <1>3
<1>5. mem'[h.param] = h.value /\ \A p \in Config!Params \ {h.param} : mem'[p] = mem[p]
  BY <1>1, <1>2, <1>3
<1>6. Config!TypeOK'
  <2>1. mem' \in [Config!Params -> Values \cup {None}]
    BY <1>1, <1>2, <1>3
  <2>2. place' \in [Config!Threads -> {"idle", "write", "save", "raise"}]
    BY <1>1, <1>3
  <2>3. raced' \subseteq Config!Params /\ clients' \subseteq Config!Params
    BY <1>1, <1>2, ConfigTypeOK
  <2>4. \A u \in Config!Threads : Len(todo'[u]) <= 3 /\ (place'[u] = "idle" <=> todo'[u] = <<>>)
    BY <1>1, <1>2, <1>3, <1>4, ConfigTypeOK
  <2>5. UNCHANGED <<central, file, configured, db, todo, steps, seen>>
    BY <1>1
  <2>6. QED
    BY <2>1, <2>2, <2>3, <2>4, <2>5, ConfigTypeOK DEF Config!TypeOK, ToWrite
<1>7. RowsInv'
  <2>1. ASSUME NEW p \in Config!Params, p = h.param
        PROVE  Config!Writing(p)' = Config!Writing(p) \cup {t}
    BY <1>1, <1>4, <2>1 DEF Config!Writing, Config!Param, h
  <2>2. ASSUME NEW p \in Config!Params, p # h.param
        PROVE  Config!Writing(p)' = Config!Writing(p)
    BY <1>1, <1>4, <2>2 DEF Config!Writing, Config!Param, h
  <2>3. ASSUME NEW p \in Config!Params \ raced'
        PROVE  /\ \A u, v \in Config!Writing(p)' : u = v
               /\ \A u \in Config!Writing(p)' : Head(todo'[u]).value = mem'[p]
               /\ Config!Writing(p)' = {} => db'[p] = mem'[p]
    <3>1. CASE p = h.param
      <4>1. Config!Writing(p) = {}
        BY <1>1, <3>1
      <4>2. Config!Writing(p)' = {t}
        BY <2>1, <3>1, <4>1
      <4>3. Head(todo'[t]).value = mem'[p]
        BY <1>1, <1>5, <3>1 DEF h
      <4>4. QED
        BY <4>2, <4>3
    <3>2. CASE p # h.param
      <4>1. p \notin raced /\ mem'[p] = mem[p]
        BY <1>1, <1>5, <3>2
      <4>2. QED
        BY <1>1, <2>2, <3>2, <4>1 DEF RowsInv
    <3>3. QED
      BY <3>1, <3>2
  <2>4. QED
    BY <2>3 DEF RowsInv
<1>8. OneChannel'
  BY <1>1 DEF OneChannel, Config!Channel
<1>9. ToldInv'
  <2>1. ASSUME NEW p \in Config!Params, p = h.param
        PROVE  Owes(t, p)'
    BY <1>1, <1>4, <2>1 DEF Owes, Config!Channel, Config!Param, h
  <2>2. ASSUME NEW p \in Config!Params, NEW u \in Config!Threads, Owes(u, p)
        PROVE  Owes(u, p)'
    <3>1. CASE u = t
      BY <1>1, <1>4, <2>2, <3>1 DEF Owes, Config!Channel, Config!Param
    <3>2. CASE u # t
      BY <1>1, <1>4, <2>2, <3>2 DEF Owes, Config!Channel, Config!Param
    <3>3. QED
      BY <3>1, <3>2
  <2>3. ASSUME NEW p \in Config!Params
        PROVE  seen'[p] = mem'[p] \/ \E u \in Config!Threads : Owes(u, p)'
    BY <1>1, <1>5, <2>1, <2>2 DEF ToldInv
  <2>4. QED
    BY <2>3 DEF ToldInv
<1>10. SearchInv'
  <2>1. Searcher \in Config!Threads
    BY DEF Config!Threads
  <2>2. \A r \in Elems(todo'[Searcher]) :
          r.param \in DOMAIN configured' /\ r.value = configured'[r.param]
    BY <1>1 DEF SearchInv
  <2>3. ASSUME NEW p \in DOMAIN configured \ clients'
        PROVE  mem'[p] = configured[p] \/ \E r \in Left(Searcher)' : r.param = p
    <3>0. p \in DOMAIN configured \ clients /\ p \in Config!Params
      BY <1>1, FilesAre, ConfigTypeOK
    <3>1. CASE t = Searcher
      <4>1. h.value = configured[h.param]
        BY <1>2, <3>1 DEF SearchInv
      <4>2. Left(Searcher) = {h} \cup Left(Searcher)'
        BY <1>1, <1>2, <1>4, <3>1 DEF Left
      <4>3. QED
        BY <1>5, <3>0, <4>1, <4>2 DEF SearchInv
    <3>2. CASE t # Searcher
      <4>1. p # h.param /\ mem'[p] = mem[p]
        BY <1>1, <1>5, <3>0, <3>2
      <4>2. Left(Searcher)' = Left(Searcher)
        BY <1>1, <1>4, <2>1, <3>2 DEF Left
      <4>3. QED
        BY <3>0, <4>1, <4>2 DEF SearchInv
    <3>3. QED
      BY <3>1, <3>2
  <2>4. QED
    BY <1>1, <2>2, <2>3 DEF SearchInv
<1>11. QED
  BY <1>6, <1>7, <1>8, <1>9, <1>10

(* Thread t goes on to its next parameter, or ends. *)
LEMMA Advances ==
  ASSUME Config!TypeOK, NEW t \in Config!Threads, place[t] # "idle",
         NEW to \in {"idle", "write"}, (to = "idle") <=> (Len(todo[t]) = 1),
         place' = [place EXCEPT ![t] = to], todo' = [todo EXCEPT ![t] = Tail(@)]
  PROVE  /\ Alone(t) /\ place'[t] = to /\ todo'[t] = Tail(todo[t])
         /\ place' \in [Config!Threads -> {"idle", "write", "save", "raise"}]
         /\ todo' \in [Config!Threads -> Seq(ToWrite)]
         /\ \A u \in Config!Threads :
              Len(todo'[u]) <= 3 /\ (place'[u] = "idle" <=> todo'[u] = <<>>)
<1>1. /\ place \in [Config!Threads -> {"idle", "write", "save", "raise"}]
      /\ todo \in [Config!Threads -> Seq(ToWrite)]
      /\ \A u \in Config!Threads :
           Len(todo[u]) <= 3 /\ (place[u] = "idle" <=> todo[u] = <<>>)
  BY ConfigTypeOK
<1>2. /\ Tail(todo[t]) \in Seq(ToWrite) /\ Len(Tail(todo[t])) <= 3
      /\ (Tail(todo[t]) = <<>> <=> Len(todo[t]) = 1)
  BY AtParam
<1> DEFINE tail == Tail(todo[t])
<1>3. todo' = [todo EXCEPT ![t] = tail]
  OBVIOUS
<1> HIDE DEF tail
<1>4. place'[t] = to /\ todo'[t] = tail
  BY <1>1, <1>3
<1>5. /\ place' \in [Config!Threads -> {"idle", "write", "save", "raise"}]
      /\ todo' \in [Config!Threads -> Seq(ToWrite)]
  BY <1>1, <1>2, <1>3 DEF tail
<1>6. \A u \in Config!Threads \ {t} : place'[u] = place[u] /\ todo'[u] = todo[u]
  BY <1>1, <1>3
<1>7. \A u \in Config!Threads :
        Len(todo'[u]) <= 3 /\ (place'[u] = "idle" <=> todo'[u] = <<>>)
  BY <1>1, <1>2, <1>4, <1>6 DEF tail
<1>8. Alone(t)
  BY <1>3, <1>4 DEF Alone
<1>9. QED
  BY <1>4, <1>5, <1>7, <1>8 DEF tail

LEMMA SaveParameterKeeps ==
  ASSUME ConfigInv, Config!SearcherAssumption, NEW t \in Config!Threads, Config!SaveParameter(t)
  PROVE  ConfigInv'
<1> USE DEF ConfigInv
<1> DEFINE h == Head(todo[t])
           ends == t = Searcher \/ Len(todo[t]) = 1
<1>1. /\ place[t] = "save" /\ db' = [db EXCEPT ![h.param] = h.value]
      /\ UNCHANGED <<central, file, configured, mem, steps, seen, raced, clients>>
      /\ ends => place' = [place EXCEPT ![t] = "raise"] /\ todo' = todo
      /\ ~ends => place' = [place EXCEPT ![t] = "write"] /\ todo' = [todo EXCEPT ![t] = Tail(@)]
  BY DEF Config!SaveParameter, Config!Goes, Config!Param
<1>2. /\ h.param \in Config!Params /\ h.value \in Values /\ h \in Elems(todo[t])
      /\ Elems(todo[t]) = {h} \cup Elems(Tail(todo[t])) /\ todo[t] # <<>>
  BY <1>1, AtParam
<1> HIDE DEF h
<1>3. /\ place \in [Config!Threads -> {"idle", "write", "save", "raise"}]
      /\ todo \in [Config!Threads -> Seq(ToWrite)]
      /\ db \in [Config!Params -> Values \cup {None}]
      /\ \A u \in Config!Threads :
           Len(todo[u]) <= 3 /\ (place[u] = "idle" <=> todo[u] = <<>>)
  BY ConfigTypeOK
<1>4. /\ Alone(t) /\ place'[t] = (IF ends THEN "raise" ELSE "write")
      /\ todo'[t] = (IF ends THEN todo[t] ELSE Tail(todo[t]))
      /\ place' \in [Config!Threads -> {"idle", "write", "save", "raise"}]
      /\ todo' \in [Config!Threads -> Seq(ToWrite)]
      /\ \A u \in Config!Threads :
           Len(todo'[u]) <= 3 /\ (place'[u] = "idle" <=> todo'[u] = <<>>)
  <2>1. CASE ends
    <3>1. place' = [place EXCEPT ![t] = "raise"] /\ todo' = todo
      BY <1>1, <2>1
    <3> HIDE DEF ends
    <3>2. QED
      BY <1>1, <1>2, <1>3, <2>1, <3>1 DEF Alone
  <2>2. CASE ~ends
    <3>1. place[t] # "idle" /\ Len(todo[t]) # 1
      BY <1>1, <2>2
    <3>2. place' = [place EXCEPT ![t] = "write"] /\ todo' = [todo EXCEPT ![t] = Tail(@)]
      BY <1>1, <2>2
    <3> HIDE DEF ends
    <3>3. QED
      BY <2>2, <3>1, <3>2, Advances
  <2>3. QED
    BY <2>1, <2>2
<1>5. \A u \in Config!Threads \ {t} : place'[u] = place[u] /\ todo'[u] = todo[u]
  BY <1>4, OthersStay
<1>6. Config!TypeOK'
  <2>1. db' \in [Config!Params -> Values \cup {None}]
    BY <1>1, <1>2, <1>3
  <2>2. QED
    BY <1>1, <1>4, <2>1, ConfigTypeOK DEF Config!TypeOK, ToWrite
<1>7. RowsInv'
  <2>1. place'[t] # "save"
    BY <1>4
  <2>2. \A p \in Config!Params : Config!Writing(p)' = Config!Writing(p) \ {t}
    BY <1>5, <2>1 DEF Config!Writing, Config!Param
  <2>3. \A p \in Config!Params : \A u \in Config!Writing(p)' : todo'[u] = todo[u]
    BY <1>5, <2>1 DEF Config!Writing
  <2>4. ASSUME NEW p \in Config!Params \ raced, Config!Writing(p)' = {}
        PROVE  db'[p] = mem[p]
    <3>1. CASE p = h.param
      <4>1. t \in Config!Writing(p)
        BY <1>1, <3>1 DEF Config!Writing, Config!Param, h
      <4>2. h.value = mem[p]
        BY <4>1 DEF RowsInv, h
      <4>3. QED
        BY <1>1, <1>2, <1>3, <3>1, <4>2
    <3>2. CASE p # h.param
      <4>1. t \notin Config!Writing(p)
        BY <3>2 DEF Config!Writing, Config!Param, h
      <4>2. db[p] = mem[p]
        BY <2>2, <2>4, <4>1 DEF RowsInv
      <4>3. QED
        BY <1>1, <1>2, <1>3, <3>2, <4>2
    <3>3. QED
      BY <3>1, <3>2
  <2>5. QED
    BY <1>1, <2>2, <2>3, <2>4 DEF RowsInv
<1>8. Elems(todo'[t]) \subseteq Elems(todo[t])
  BY <1>2, <1>4
<1>9. OneChannel'
  <2>1. \A c \in Clients : Elems(todo'[c]) \subseteq Elems(todo[c])
    BY <1>5, <1>8 DEF Config!Threads
  <2>2. QED
    BY <1>1, <2>1 DEF OneChannel, Config!Channel
<1>10. ToldInv'
  <2>1. ASSUME NEW p \in Config!Params, NEW u \in Config!Threads, Owes(u, p)
        PROVE  Owes(u, p)'
    <3>1. CASE u = t /\ ends
      <4>1. place'[u] = "raise" /\ todo'[u] = todo[u]
        BY <1>4, <3>1
      <4>2. QED
        BY <1>1, <2>1, <3>1, <4>1 DEF Owes, Config!Channel, Config!Param
    <3>2. CASE u = t /\ ~ends
      <4>1. place'[u] = "write" /\ todo'[u] = Tail(todo[u]) /\ u # Searcher /\ u \in Clients
        BY <1>4, <3>2 DEF Config!Threads
      <4>2. todo'[u] # <<>> /\ todo'[u] \in Seq(ToWrite)
        BY <1>4, <4>1
      <4>3. Head(todo'[u]) \in Elems(todo'[u])
        BY <4>2, ElemsOfTail
      <4>4. Config!Channel(Head(todo'[u]).param) = Config!Channel(h.param)
        BY <1>2, <1>8, <3>2, <4>1, <4>3 DEF OneChannel
      <4>5. Config!Channel(h.param) = Config!Channel(p)
        BY <2>1, <3>2 DEF Owes, Config!Param, h
      <4>6. QED
        BY <1>1, <4>1, <4>4, <4>5 DEF Owes, Config!Channel, Config!Param
    <3>3. CASE u # t
      <4>1. place'[u] = place[u] /\ todo'[u] = todo[u]
        BY <1>5, <3>3
      <4>2. QED
        BY <1>1, <2>1, <4>1 DEF Owes, Config!Channel, Config!Param
    <3>4. QED
      BY <3>1, <3>2, <3>3
  <2>2. QED
    BY <1>1, <2>1 DEF ToldInv
<1>11. SearchInv'
  <2>1. /\ Elems(todo'[Searcher]) \subseteq Elems(todo[Searcher])
        /\ Left(Searcher)' = Left(Searcher)
    <3>1. CASE t = Searcher
      BY <1>1, <1>4, <3>1 DEF Left
    <3>2. CASE t # Searcher
      BY <1>5, <3>2 DEF Left, Config!Threads
    <3>3. QED
      BY <3>1, <3>2
  <2>2. QED
    BY <1>1, <2>1 DEF SearchInv
<1>12. QED
  BY <1>6, <1>7, <1>9, <1>10, <1>11

LEMMA RaiseUpdateDeviceKeeps ==
  ASSUME ConfigInv, Config!SearcherAssumption, NEW t \in Config!Threads,
         Config!RaiseUpdateDevice(t)
  PROVE  ConfigInv'
<1> USE DEF ConfigInv
<1> DEFINE h == Head(todo[t])
           to == IF Len(todo[t]) = 1 THEN "idle" ELSE "write"
<1>1. /\ place[t] = "raise" /\ place' = [place EXCEPT ![t] = to]
      /\ seen' = [p \in Config!Params |->
                    IF p \in Config!Together(h.param) THEN mem[p] ELSE seen[p]]
      /\ todo' = [todo EXCEPT ![t] = Tail(@)]
      /\ UNCHANGED <<central, file, configured, mem, db, steps, raced, clients>>
  BY DEF Config!RaiseUpdateDevice, Config!Goes, Config!Param
<1>2. /\ h.param \in Config!Params /\ h \in Elems(todo[t])
      /\ Elems(todo[t]) = {h} \cup Elems(Tail(todo[t]))
  BY <1>1, AtParam
<1> HIDE DEF h
<1>3. /\ Alone(t) /\ place'[t] = to /\ todo'[t] = Tail(todo[t])
      /\ place' \in [Config!Threads -> {"idle", "write", "save", "raise"}]
      /\ todo' \in [Config!Threads -> Seq(ToWrite)]
      /\ \A u \in Config!Threads :
           Len(todo'[u]) <= 3 /\ (place'[u] = "idle" <=> todo'[u] = <<>>)
  <2>1. place[t] # "idle" /\ to \in {"idle", "write"} /\ (to = "idle" <=> Len(todo[t]) = 1)
    BY <1>1
  <2> HIDE DEF to
  <2>2. QED
    BY <1>1, <2>1, Advances
<1>4. \A u \in Config!Threads \ {t} : place'[u] = place[u] /\ todo'[u] = todo[u]
  BY <1>3, OthersStay
<1>5. /\ \A p \in Config!Params : Config!Channel(p) = Config!Channel(h.param) => seen'[p] = mem[p]
      /\ \A p \in Config!Params : seen'[p] \in {mem[p], seen[p]}
  BY <1>1 DEF Config!Together
<1>6. Config!TypeOK'
  <2>1. seen' \in [Config!Params -> Values \cup {None}]
    BY <1>1, ConfigTypeOK
  <2>2. QED
    BY <1>1, <1>3, <2>1, ConfigTypeOK DEF Config!TypeOK, ToWrite
<1>7. RowsInv'
  <2>1. place[t] # "save" /\ place'[t] # "save"
    BY <1>1, <1>3
  <2>2. QED
    BY <1>1, <1>3, <2>1, RowsKept
<1>8. OneChannel'
  <2>1. \A c \in Clients : Elems(todo'[c]) \subseteq Elems(todo[c])
    BY <1>2, <1>3, <1>4 DEF Config!Threads
  <2>2. QED
    BY <1>1, <2>1 DEF OneChannel, Config!Channel
<1>9. ToldInv'
  <2>1. ASSUME NEW p \in Config!Params, seen'[p] # mem[p]
        PROVE  \E u \in Config!Threads : Owes(u, p)'
    <3>1. seen[p] # mem[p] /\ Config!Channel(p) # Config!Channel(h.param)
      BY <1>5, <2>1
    <3>2. PICK u \in Config!Threads : Owes(u, p)
      BY <3>1 DEF ToldInv
    <3>3. u # t
      BY <3>1, <3>2 DEF Owes, Config!Param, h
    <3>4. Owes(u, p)'
      BY <1>1, <1>4, <3>2, <3>3 DEF Owes, Config!Channel, Config!Param
    <3>5. QED
      BY <3>4
  <2>2. QED
    BY <1>1, <2>1 DEF ToldInv
<1>10. SearchInv'
  <2>1. /\ Elems(todo'[Searcher]) \subseteq Elems(todo[Searcher])
        /\ Left(Searcher)' = Left(Searcher)
    <3>1. CASE t = Searcher
      BY <1>1, <1>2, <1>3, <3>1 DEF Left
    <3>2. CASE t # Searcher
      BY <1>4, <3>2 DEF Left, Config!Threads
    <3>3. QED
      BY <3>1, <3>2
  <2>2. QED
    BY <1>1, <2>1 DEF SearchInv
<1>11. QED
  BY <1>6, <1>7, <1>8, <1>9, <1>10

LEMMA ConfigRestartKeeps ==
  ASSUME ConfigInv, Config!BoundsAssumption, Config!Restart
  PROVE  ConfigInv'
<1> USE DEF ConfigInv
<1>1. /\ mem' = db /\ seen' = db /\ raced' = {} /\ clients' = Config!Params
      /\ todo' = [t \in Config!Threads |-> <<>>] /\ place' = [t \in Config!Threads |-> "idle"]
      /\ UNCHANGED <<central, file, configured, db>>
      /\ steps < MaxSteps /\ steps' = steps + 1
  BY DEF Config!Restart, Config!Step
<1>2. \A t \in Config!Threads : todo'[t] = <<>> /\ place'[t] = "idle"
  BY <1>1
<1>3. Config!TypeOK'
  <2>1. todo' \in [Config!Threads -> Seq(ToWrite)]
    BY <1>1, ElemsOfNone
  <2>2. place' \in [Config!Threads -> {"idle", "write", "save", "raise"}]
    BY <1>1
  <2>3. steps' \in 0 .. MaxSteps
    BY <1>1, ConfigTypeOK DEF Config!BoundsAssumption
  <2>4. \A t \in Config!Threads :
          Len(todo'[t]) <= 3 /\ (place'[t] = "idle" <=> todo'[t] = <<>>)
    BY <1>2, ElemsOfNone
  <2>5. raced' \subseteq Config!Params /\ clients' \subseteq Config!Params
    BY <1>1
  <2>6. QED
    BY <1>1, <2>1, <2>2, <2>3, <2>4, <2>5, ConfigTypeOK DEF Config!TypeOK,
       ToWrite
<1>4. \A p \in Config!Params : Config!Writing(p)' = {}
  BY <1>2 DEF Config!Writing
<1>5. RowsInv'
  BY <1>1, <1>4 DEF RowsInv
<1>6. \A t \in Config!Threads : Elems(todo'[t]) = {}
  BY <1>2, ElemsOfNone
<1>7. OneChannel'
  BY <1>6 DEF OneChannel, Config!Threads
<1>8. ToldInv'
  BY <1>1 DEF ToldInv
<1>9. SearchInv'
  <2>1. DOMAIN configured \subseteq Config!Params
    BY FilesAre, ConfigTypeOK
  <2>2. QED
    BY <1>1, <1>6, <2>1 DEF SearchInv, Config!Threads
<1>10. QED
  BY <1>3, <1>5, <1>7, <1>8, <1>9

LEMMA FileChangesKeeps ==
  ASSUME ConfigInv, Config!BoundsAssumption, Config!FileChanges
  PROVE  ConfigInv'
<1> USE DEF ConfigInv
<1>1. /\ file' \in Config!Files /\ steps < MaxSteps /\ steps' = steps + 1
      /\ UNCHANGED <<central, configured, mem, db, todo, place, seen, raced, clients>>
  BY DEF Config!FileChanges, Config!Step
<1>2. steps' \in 0 .. MaxSteps
  BY <1>1, ConfigTypeOK DEF Config!BoundsAssumption
<1>3. Config!TypeOK'
  BY <1>1, <1>2, ConfigTypeOK DEF Config!TypeOK, ToWrite
<1>4. RowsInv'
  BY <1>1 DEF RowsInv, Config!Writing, Config!Param
<1>5. OneChannel'
  BY <1>1 DEF OneChannel, Config!Channel
<1>6. ToldInv'
  BY <1>1 DEF ToldInv, Owes, Config!Channel, Config!Param
<1>7. SearchInv'
  BY <1>1 DEF SearchInv, Left
<1>8. QED
  BY <1>3, <1>4, <1>5, <1>6, <1>7

LEMMA ConfigStep ==
  ASSUME ConfigInv, Config!BoundsAssumption, Config!SearcherAssumption,
         [Config!Next]_Config!vars
  PROVE  ConfigInv'
<1>1. CASE UNCHANGED Config!vars
  <2> USE <1>1 DEF Config!vars, ConfigInv
  <2>1. Config!TypeOK'
    BY DEF Config!TypeOK
  <2>2. RowsInv'
    BY DEF RowsInv, Config!Writing, Config!Param
  <2>3. OneChannel'
    BY DEF OneChannel, Config!Channel
  <2>4. ToldInv'
    BY DEF ToldInv, Owes, Config!Channel, Config!Param
  <2>5. SearchInv'
    BY DEF SearchInv, Left
  <2>6. QED
    BY <2>1, <2>2, <2>3, <2>4, <2>5
<1>2. QED
  BY <1>1, SearchBeginsKeeps, PutParamsetKeeps, SetBinaryDataKeeps,
     SaveParameterKeeps,
     RaiseUpdateDeviceKeeps, ConfigRestartKeeps, FileChangesKeeps DEF Config!Next

LEMMA ConfigAgrees ==
  ASSUME ConfigInv
  PROVE  Config!DatabaseFollows /\ Config!EventsFollow /\ Config!SearchShows
<1> USE DEF ConfigInv
<1>1. Config!DatabaseFollows
  BY DEF RowsInv, Config!DatabaseFollows
<1>2. Config!EventsFollow
  <2> SUFFICES ASSUME Config!Idle
               PROVE  seen = mem
    BY DEF Config!EventsFollow
  <2>1. \A p \in Config!Params : seen[p] = mem[p]
    BY DEF ToldInv, Owes, Config!Idle
  <2>2. QED
    BY <2>1, ConfigTypeOK
<1>3. Config!SearchShows
  <2> SUFFICES ASSUME place[Searcher] = "idle"
               PROVE  \A p \in DOMAIN configured \ clients : mem[p] = configured[p]
    BY DEF Config!SearchShows
  <2>1. todo[Searcher] = <<>>
    BY ConfigTypeOK DEF Config!Threads
  <2>2. Left(Searcher) = {}
    BY <2>1, ElemsOfNone DEF Left
  <2>3. QED
    BY <2>2 DEF SearchInv
<1>4. QED
  BY <1>1, <1>2, <1>3

-----------------------------------------------------------------------------
(* The theorems *)

PartsInv ==
  /\ runs = "Daytimer" => EntriesInv
  /\ runs = "Config" => ConfigInv

LEMMA PartsInit ==
  ASSUME Init
  PROVE  PartsInv
<1>1. CASE runs = "Daytimer"
  <2>1. Daytimer!Init
    BY <1>1 DEF Init, StoreInit
  <2>2. QED
    BY <1>1, <2>1, PartsAssumption, DaytimerInit DEF PartsInv
<1>2. CASE runs = "Config"
  <2>1. Config!Init
    BY <1>2 DEF Init, StoreInit
  <2>2. QED
    BY <1>2, <2>1, PartsAssumption, ConfigInit DEF PartsInv
<1>3. QED
  BY <1>1, <1>2 DEF PartsInv

LEMMA PartsStep ==
  ASSUME PartsInv, [Next]_vars
  PROVE  PartsInv'
<1>1. runs' = runs
  BY DEF Next, StoreNext, vars
<1>2. CASE runs = "Daytimer"
  <2>1. [Daytimer!Next]_Daytimer!vars
    <3>1. CASE Next
      BY <1>2, <3>1 DEF Next, StoreNext
    <3>2. CASE UNCHANGED vars
      BY <3>2 DEF vars, entries, Daytimer!vars
    <3>3. QED
      BY <3>1, <3>2
  <2>2. QED
    BY <1>1, <1>2, <2>1, PartsAssumption, DaytimerStep DEF PartsInv
<1>3. CASE runs = "Config"
  <2>1. [Config!Next]_Config!vars
    <3>1. CASE Next
      BY <1>3, <3>1 DEF Next, StoreNext
    <3>2. CASE UNCHANGED vars
      BY <3>2 DEF vars, config, Config!vars
    <3>3. QED
      BY <3>1, <3>2
  <2>2. QED
    BY <1>1, <1>3, <2>1, PartsAssumption, ConfigStep DEF PartsInv
<1>4. QED
  BY <1>1, <1>2, <1>3 DEF PartsInv

(* When a packet of a day timer is written, its channels show its entries in
   their order, and what an earlier packet left behind them whole; a reader in
   between finds at most one channel of two packets
   (Daytimer::processPacket() and its entries, written field by field). *)
THEOREM EntriesAreShown == Spec => []EntriesShown
<1>1. PartsInv => EntriesShown
  BY PartsAssumption, DaytimerShows DEF PartsInv, EntriesShown
<1>2. QED
  BY <1>1, PartsInit, PartsStep, PTL DEF Spec

(* A restart gives back the values of the parameters but those two threads saved
   at once; the clients know the values whenever no thread is writing; and a
   search leaves what the control is configured to, but for what clients set
   since it began: whoever writes, in any number
   (saveConfig(), putParamset(), setBinaryData() and saveParameter()). *)
THEOREM ParametersFollow == Spec => []ParametersAgree
<1>1. PartsInv => ParametersAgree
  BY ConfigAgrees DEF PartsInv, ParametersAgree
<1>2. QED
  BY <1>1, PartsInit, PartsStep, PTL DEF Spec
=============================================================================
