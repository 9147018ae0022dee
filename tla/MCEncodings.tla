------------------------------ MODULE MCEncodings ------------------------------
(* TLC instance of two encodings that are undone by reading: the text of   *)
(* manifests and reports (JsonText), and the IDs along a curve             *)
(* (SpaceCurves).  They share no state: `part` says which of them a        *)
(* behaviour is about, the variables of the other are idle.                *)
(*                                                                         *)
(* Objects and arrays of up to two strings or numbers, or of those, so     *)
(* that the depth of two is just exceeded; one, two and three bits per     *)
(* axis of a lattice, with sides that are and are not a power of two.      *)
EXTENDS Integers, SequencesExt

CONSTANTS None, Letters, Numerals, MaxDepth, Sides

VARIABLES
  part,
  written, text, damage, read,
  side, base, axes, code, point, id, back, last, found,
  stage

textVars == <<written, text, damage, read>>
curveVars == <<side, base, axes, code, point, id, back, last, found>>
vars == <<part, textVars, curveVars, stage>>

Quote == "quote"
Backslash == "backslash"
Strings == BoundedSeq({"x", "}", Quote, Backslash}, 1)
             \cup {<<Backslash, Quote>>, <<Quote, Backslash>>, <<Backslash, Backslash>>}
Leaves == {<<"string", s>> : s \in Strings} \cup {<<"number", <<"1", "1">>>>}
TextKeys == {<<"x">>, <<Quote>>}
Containers(inner) ==
  {<<"[", items>> : items \in BoundedSeq(inner, 2)}
  \cup {<<"{", pairs>> : pairs \in BoundedSeq(TextKeys \X inner, 1)}
Flat == Containers(Leaves)
Nested == Containers({<<"[", <<>>>>, <<"{", <<<<<<Quote>>, <<"number", <<"1">>>>>>>>>>,
                      <<"[", <<<<"string", <<"}", Quote>>>>, <<"number", <<"1">>>>>>>>})
Deep == Containers({<<"[", <<<<"[", <<<<"number", <<"1">>>>>>>>>>>>})
Manifests == Flat \cup Nested \cup Deep

Text == INSTANCE JsonText WITH Values <- Manifests, Digits <- Numerals
Curves == INSTANCE SpaceCurves

ASSUME
  /\ Text!JsonTextAssumption
  /\ Curves!SpaceCurvesAssumption

TextIdle == written = None /\ text = None /\ damage = None /\ read = None
CurvesIdle ==
  /\ side = None /\ base = None /\ axes = None /\ code = None /\ point = None
  /\ id = None /\ back = None /\ last = None /\ found = None

Init ==
  \/ part = "text" /\ Text!Init /\ CurvesIdle
  \/ part = "curves" /\ Curves!Init /\ TextIdle

Next ==
  \/ part = "text" /\ Text!Next /\ UNCHANGED <<part, curveVars>>
  \/ part = "curves" /\ Curves!Next /\ UNCHANGED <<part, textVars>>

Spec == Init /\ [][Next]_vars

(* JsonText: json_io.cpp:58-126, exactly what was rendered as a whole is   *)
(* read, as the same value.                                                *)
OnlyWholeRead == part = "text" => Text!OnlyWholeRead

(* SpaceCurves: layout.cpp:45-54, 323-332, codes and IDs are inverse to    *)
(* each other on the whole lattice, along an unbroken curve.               *)
CurveComplete == part = "curves" => Curves!CurveComplete
===============================================================================
