--------------------------- MODULE VersionOrder ---------------------------
(***************************************************************************)
(* Version strings and the three ways the code reads them: the order of    *)
(* utils/version.py, the one check-version uses to find the highest        *)
(* result, and the first dotted part that a major pin looks at.            *)
(*                                                                         *)
(* A version is what the dots, dashes and underscores leave of the string: *)
(* its dotted parts, each a sequence of pieces; a piece is a number, or    *)
(* NotDigits ("beta", "rc1").  v tells of a leading "v".                   *)
(***************************************************************************)
EXTENDS Integers, Sequences, SequencesExt

NotDigits == -1

\* Splitting a string leaves at least one part, and of that one piece.
Piece == Nat \cup {NotDigits}
Version == [v : BOOLEAN, parts : Seq(Seq(Piece) \ {<<>>}) \ {<<>>}]

\* The version "unknown", which a title without a version gets.
Unknown == [v |-> FALSE, parts |-> <<<<NotDigits>>>>]

Plain(nums) == [v |-> FALSE, parts |-> [i \in 1..Len(nums) |-> <<nums[i]>>]]

IsPlain(ver) ==
    /\ ~ver.v
    /\ \A i \in 1..Len(ver.parts) :
          Len(ver.parts[i]) = 1 /\ ver.parts[i][1] # NotDigits

-----------------------------------------------------------------------------

\* The pieces before the first that is no number.
Leading(pieces) ==
    LET stop == SelectInSeq(pieces, LAMBDA p : p = NotDigits)
    IN  IF stop = 0 THEN pieces ELSE SubSeq(pieces, 1, stop - 1)

VersionTuple(ver) ==
    LET nums == Leading(FlattenSeq(ver.parts))
    IN  IF nums = <<>> THEN <<0>> ELSE nums

\* Python's order of tuples: at the first difference, and a proper prefix is
\* the smaller one.
Exceeds(s, t) ==
    \E i \in 1..Len(s) :
        /\ i <= Len(t) + 1
        /\ \A j \in 1..(i - 1) : s[j] = t[j]
        /\ i <= Len(t) => s[i] > t[i]

CompareVersions(a, b) ==
    LET s == VersionTuple(a)  t == VersionTuple(b)
    IN  IF Exceeds(s, t) THEN 1 ELSE IF Exceeds(t, s) THEN -1 ELSE 0

Newer(a, b) == CompareVersions(a, b) > 0

-----------------------------------------------------------------------------

\* check-version drops every dotted part that is not all digits: the "v7" of
\* "v7.6.1" and the "1-beta" of "7.6.1-beta".
DottedTuple(ver) ==
    FlattenSeq([i \in 1..Len(ver.parts) |->
        IF Len(ver.parts[i]) = 1 /\ ver.parts[i][1] # NotDigits /\ ~(ver.v /\ i = 1)
        THEN ver.parts[i] ELSE <<>>])

-----------------------------------------------------------------------------

\* A pin: "off" stands for none, the mode "disabled", an unknown mode and an
\* empty value.  The value of an exact pin is a version, of a major pin a
\* number.
NoPin == [mode |-> "off"]

PinAllows(pin, ver) ==
    CASE pin.mode = "exact" -> ver = pin.value
      [] pin.mode = "major" -> ~ver.v /\ ver.parts[1] = <<pin.value>>
      [] OTHER -> TRUE

=============================================================================
