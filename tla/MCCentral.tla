------------------------------ MODULE MCCentral ------------------------------
(***************************************************************************)
(* An instance of Central for TLC: two controls with a device description, *)
(* the first with two states, and one without.                             *)
(***************************************************************************)
EXTENDS Central, TLC

CONSTANTS a, b, c, u1, u2, v

MCActions == {a, b, c}
MCDescribed == {a, b}
MCUuids == {u1, u2, v}
MCStateOf == a :> {u1, u2} @@ b :> {v} @@ c :> {}

\* The two uuids of a control play the same part, and so do the serials.
Symmetry == Permutations({u1, u2}) \cup Permutations(Serials)

\* Two crashes, two deletions, or one of each; a behavior ends with a torn
\* deletion, after which nothing is claimed.
CrashesAndDeletions == crashes + deletes <= 2 /\ ~torn
=============================================================================
