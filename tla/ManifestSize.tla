----------------------------- MODULE ManifestSize -----------------------------
(***************************************************************************)
(* update_sizes of src/pipeline.cpp and the write_json that follows it.    *)
(* The manifest lists the size of every file of the package, its own one   *)
(* among them, so the size of the text depends on the size it lists: the   *)
(* text is rendered again until the two agree, ten times at most.          *)
(* How long the text is for a listed size is any function (`lengths`).     *)
(***************************************************************************)
EXTENDS Integers, FiniteSets

CONSTANTS
  Others,     (* what the other files of the package may add up to         *)
  Sizes,      (* the lengths the text may have                             *)
  MaxRounds   (* for (int i = 0; i < 10; ++i)                              *)

ManifestSizeAssumption ==
  /\ Others \subseteq Nat
  /\ Sizes \subseteq Nat \ {0} /\ Sizes # {} /\ IsFiniteSet(Sizes)
  /\ MaxRounds \in Nat \ {0, 1}

VARIABLES
  others,     (* the sizes of the files under compressed/                  *)
  lengths,    (* the length of the text by the size it lists, where known  *)
  i,          (* the loop variable                                         *)
  component,  (* components["manifest.json"]                               *)
  listed,     (* compressed_components_bytes["manifest.json"] of m         *)
  total,      (* compressed_total_bytes of m                               *)
  written,    (* the length of manifest.json, once it is written           *)
  stage

vars == <<others, lengths, i, component, listed, total, written, stage>>

TypeOK ==
  /\ others \in Others
  /\ DOMAIN lengths \subseteq Sizes \cup {0}
  /\ \A s \in DOMAIN lengths : lengths[s] \in Sizes
  /\ i \in 0..MaxRounds
  /\ component \in Sizes \cup {0} /\ listed \in Sizes \cup {0}
  /\ total \in Nat
  /\ written \in Sizes \cup {0}
  /\ stage \in {"sizing", "settled", "given_up", "written"}

Init ==
  /\ others \in Others
  /\ lengths = [s \in {} |-> 0]
  /\ i = 0
  /\ component = 0
  /\ listed = 0 /\ total = 0
  /\ written = 0
  /\ stage = "sizing"

(* json_text(m).size(): the same text has the same length.                 *)
Rendered(size) ==
  IF listed' \in DOMAIN lengths
  THEN size = lengths[listed'] /\ UNCHANGED lengths
  ELSE /\ size \in Sizes
       /\ lengths' = [s \in DOMAIN lengths \cup {listed'} |->
                        IF s = listed' THEN size ELSE lengths[s]]

(* The mistakes: the sum is taken before the manifest is counted, the loop *)
(* stops when the text is no longer than what is listed, a round too late, *)
(* or before the sizes can be seen to repeat.                              *)
TotalOfOthers == others
AgreesWhenShorter(size) == size <= component
RoundsOneMore == MaxRounds + 1
RoundsThree == 3

Total == others + component
Agrees(size) == size = component
Rounds == MaxRounds

(* A round whose text has the size it lists: break.                        *)
Settle ==
  /\ stage = "sizing" /\ i < Rounds
  /\ listed' = component
  /\ total' = Total
  /\ \E size \in Sizes : Rendered(size) /\ Agrees(size)
  /\ stage' = "settled"
  /\ UNCHANGED <<others, i, component, written>>

Round ==
  /\ stage = "sizing" /\ i < Rounds
  /\ listed' = component
  /\ total' = Total
  /\ \E size \in Sizes : Rendered(size) /\ ~Agrees(size) /\ component' = size
  /\ i' = i + 1
  /\ UNCHANGED <<others, written, stage>>

GiveUp ==
  /\ stage = "sizing" /\ i = Rounds
  /\ stage' = "given_up"
  /\ UNCHANGED <<others, lengths, i, component, listed, total, written>>

(* write_json(work / "manifest.json", m)                                   *)
Write ==
  /\ stage \in {"settled", "given_up"}
  /\ written' = lengths[listed]
  /\ stage' = "written"
  /\ UNCHANGED <<others, lengths, i, component, listed, total>>

Done == stage = "written" /\ UNCHANGED vars

Next == Settle \/ Round \/ GiveUp \/ Write \/ Done

Spec == Init /\ [][Next]_vars

-------------------------------------------------------------------------------
Spread == CHOOSE d \in 0..(CHOOSE n \in Sizes : \A s \in Sizes : s <= n) :
            \E a, b \in Sizes : /\ d = b - a
                                /\ \A s \in Sizes : a <= s /\ s <= b

(* The sizes a package reports about itself: when the loop has ended       *)
(* before its last round, the total on record is what the files on disk    *)
(* add up to, the manifest that says so included.                          *)
SettledIsExact ==
  stage = "written" /\ i < MaxRounds => total = others + written

(* When it has not, the total misses the truth by no more than the lengths *)
(* of the text differ: the manifest is never left out of the sum.          *)
RecordedNearActual ==
  stage = "written" => /\ total - (others + written) <= Spread
                       /\ (others + written) - total <= Spread

(* The loop gives up only where it would never settle: if the text has     *)
(* fewer lengths than there are rounds, the sizes have begun to repeat,    *)
(* and the listed size that would settle it was never reached.             *)
GivesUpInCycle ==
  stage = "given_up" /\ Cardinality(Sizes) + 1 < MaxRounds =>
    /\ component \in DOMAIN lengths
    /\ \A s \in DOMAIN lengths : lengths[s] # s /\ lengths[s] \in DOMAIN lengths

(* What a package says of its own size, settled or not.                    *)
SizesTrue == SettledIsExact /\ RecordedNearActual /\ GivesUpInCycle
===============================================================================
