-------------------------------- MODULE JsonText --------------------------------
(***************************************************************************)
(* The JSON text of manifests and reports (src/json_io.cpp): json_text     *)
(* renders a value, the file may be cut off or end in foreign characters,  *)
(* and Reader takes it apart again.                                        *)
(*                                                                         *)
(* A value is <<"number", token>>, <<"string", characters>>,               *)
(* <<"[", values>> or <<"{", <<key, value>> pairs in the order of the      *)
(* keys>>.  Strings consist of plain characters, quotes and backslashes;   *)
(* other escapes begin with a backslash as well.                           *)
(***************************************************************************)
EXTENDS Integers, FiniteSets, SequencesExt

CONSTANTS
  Values,     (* what is written                                           *)
  Letters,    (* the plain characters of strings                           *)
  Digits,     (* the characters of numbers                                 *)
  MaxDepth    (* the nesting the reader allows (512)                       *)

JsonTextAssumption == MaxDepth \in Nat

Quote == "quote"
Backslash == "backslash"
Blank == "blank"      (* a space or a newline *)
Structure == {"{", "}", "[", "]", ",", ":"}
Alphabet == Structure \cup Letters \cup Digits \cup {Quote, Backslash, Blank}

VARIABLES
  written,   (* the value that was rendered                                *)
  text,      (* the characters of the file                                 *)
  damage,    (* what happened to them                                      *)
  read,      (* what Reader::read returned                                 *)
  stage

vars == <<written, text, damage, read, stage>>

Close(c) == IF c = "[" THEN "]" ELSE "}"

-------------------------------------------------------------------------------
(* render                                                                  *)

Escaped(c) == IF c \in {Quote, Backslash} THEN <<Backslash, c>> ELSE <<c>>

Dump(string) ==
  <<Quote>> \o FlattenSeq([i \in DOMAIN string |-> Escaped(string[i])]) \o <<Quote>>

RECURSIVE Render(_)
Render(value) ==
  LET items == value[2]
      item(i) == IF value[1] = "[" THEN Render(items[i])
                 ELSE Dump(items[i][1]) \o <<":", Blank>> \o Render(items[i][2])
      lines == FlattenSeq([i \in DOMAIN items |->
                 (IF i > 1 THEN <<",", Blank>> ELSE <<Blank>>) \o item(i)])
  IN  CASE value[1] = "number" -> value[2]
        [] value[1] = "string" -> Dump(value[2])
        [] OTHER -> <<value[1]>> \o lines
                      \o (IF items = <<>> THEN <<>> ELSE <<Blank>>) \o <<Close(value[1])>>

Init ==
  /\ written \in Values
  /\ text = Render(written) \o <<Blank>>
  /\ damage = "none" /\ read = <<>>
  /\ stage = "file"

-------------------------------------------------------------------------------
(* The file                                                                *)

Found(how) ==
  /\ stage = "file"
  /\ damage' = how
  /\ stage' = "read"
  /\ UNCHANGED <<written, read>>

Intact == Found("none") /\ UNCHANGED text

(* At least the last character before the newline is missing.              *)
Cut == \E n \in 0..(Len(text) - 2) : Found("cut") /\ text' = SubSeq(text, 1, n)

Longer == \E c \in Alphabet \ {Blank} : Found("longer") /\ text' = Append(text, c)

-------------------------------------------------------------------------------
(* Reader; p is the number of characters read.                             *)

Fail == [ok |-> FALSE, value |-> <<>>, pos |-> 0]
Got(value, p) == [ok |-> TRUE, value |-> value, pos |-> p]

(* The first place from p on that is not one of `these`.                   *)
Past(t, p, these) ==
  CHOOSE q \in p..Len(t) :
    (q < Len(t) => t[q + 1] \notin these) /\ \A r \in p..(q - 1) : t[r + 1] \in these

Space(t, p) == Past(t, p, {Blank})
Peek(t, p) == LET q == Space(t, p) IN IF q = Len(t) THEN "" ELSE t[q + 1]

(* Whether each character of t is escaped, read from p on; and the mistake *)
(* that any character behind a backslash is.                               *)
EscapesByNeighbour(t, p) ==
  [i \in p..Len(t) |-> i > p /\ t[i] = Backslash]
Escapes(t, p) ==
  LET e[i \in p..Len(t)] == IF i = p THEN FALSE ELSE t[i] = Backslash /\ ~e[i - 1]
  IN  e

(* string(): up to the first quote that is not escaped, then Json::parse.  *)
String(t, p) ==
  LET escape == Escapes(t, p + 1)      (* escape[i] is about t[i + 1] *)
      ends == {i \in (p + 2)..Len(t) : t[i] = Quote /\ ~escape[i - 1]}
      end == CHOOSE i \in ends : \A j \in ends : i <= j
      plain == {i \in (p + 2)..(end - 1) : escape[i - 1] \/ t[i] # Backslash}
  IN  IF ends = {} THEN Fail
      ELSE IF \E i \in plain : escape[i - 1] /\ t[i] \notin {Quote, Backslash} THEN Fail
      ELSE Got(<<"string", [k \in 1..Cardinality(plain) |-> t[SetToSortSeq(plain, <)[k]]]>>, end)

(* Anything that is not a string or a container: Json::parse of a token.   *)
Token(t, p) ==
  LET end == Past(t, p, Alphabet \ {",", "]", "}", Blank})
      token == SubSeq(t, p + 1, end)
  IN  IF token = <<>> \/ Range(token) \notin SUBSET Digits THEN Fail
      ELSE Got(<<"number", token>>, end)

RECURSIVE Value(_, _, _), Items(_, _, _, _, _)
Value(t, p, depth) ==
  LET c == Peek(t, p)
      q == Space(t, p)
  IN  IF depth > MaxDepth \/ c = "" THEN Fail
      ELSE IF c = Quote THEN String(t, q)
      ELSE IF c \notin {"{", "["} THEN Token(t, q)
      ELSE IF Peek(t, q + 1) = Close(c) THEN Got(<<c, <<>>>>, Space(t, q + 1) + 1)
      ELSE Items(t, q + 1, depth, c, <<>>)

Items(t, p, depth, c, items) ==
  LET key == IF c = "[" THEN Got(<<>>, p)
             ELSE IF Peek(t, p) = Quote THEN String(t, Space(t, p)) ELSE Fail
      colon == c = "[" \/ Peek(t, key.pos) = ":"
      item == Value(t, IF c = "[" THEN p ELSE Space(t, key.pos) + 1, depth + 1)
      all == Append(items, IF c = "[" THEN item.value ELSE <<key.value[2], item.value>>)
      q == Space(t, item.pos)
  IN  IF ~key.ok THEN Fail
      ELSE IF ~colon THEN Fail
      ELSE IF ~item.ok THEN Fail
      ELSE IF Peek(t, q) = Close(c) THEN Got(<<c, all>>, q + 1)
      ELSE IF Peek(t, q) = "," THEN Items(t, q + 1, depth, c, all)
      ELSE Fail

(* The mistakes: what follows the value is not looked at; the end of the   *)
(* text closes what is open.                                               *)
WholeUnchecked(t) == Value(t, 0, 0)
WholeClosing(t) ==
  LET attempts == {Value(t \o rest, 0, 0) : rest \in BoundedSeq({"}", "]"}, 2)}
  IN  IF \E v \in attempts : v.ok THEN CHOOSE v \in attempts : v.ok ELSE Fail

(* Reader::read                                                            *)
Whole(t) ==
  LET v == Value(t, 0, 0)
  IN  IF v.ok /\ Space(t, v.pos) = Len(t) THEN v ELSE Fail

Read ==
  /\ stage = "read"
  /\ read' = Whole(text).value
  /\ stage' = IF Whole(text).ok THEN "accepted" ELSE "rejected"
  /\ UNCHANGED <<written, text, damage>>

Done == stage \in {"accepted", "rejected"} /\ UNCHANGED vars

Next == Intact \/ Cut \/ Longer \/ Read \/ Done

Spec == Init /\ [][Next]_vars

-------------------------------------------------------------------------------
(* Properties.                                                             *)

RECURSIVE Depth(_)
Depth(value) ==
  LET inner == IF value[1] = "[" THEN {Depth(value[2][i]) : i \in DOMAIN value[2]}
               ELSE IF value[1] = "{" THEN {Depth(value[2][i][2]) : i \in DOMAIN value[2]}
               ELSE {}
  IN  IF inner = {} THEN 0 ELSE 1 + Max(inner)

(* json_io.cpp:65-107: what was rendered is read back as the same value,   *)
(* whatever brackets, quotes and backslashes its strings contain, and      *)
(* exactly when it is not nested too deep.                                 *)
ReadsBack ==
  damage = "none" =>
    /\ stage = "accepted" => read = written
    /\ stage = "accepted" => Depth(written) <= MaxDepth
    /\ stage = "rejected" => Depth(written) > MaxDepth

(* json_io.cpp:58, 78: a manifest or report that was cut off while it was  *)
(* written is no JSON: Package and Batch call it unreadable.               *)
CutRejected == damage = "cut" => stage # "accepted"

(* json_io.cpp:126: neither is one with anything behind its value.         *)
LongerRejected == damage = "longer" => stage # "accepted"

(* Exactly the texts json_text wrote as a whole are read.                  *)
OnlyWholeRead == ReadsBack /\ CutRejected /\ LongerRejected
===============================================================================
