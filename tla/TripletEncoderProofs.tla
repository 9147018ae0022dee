------------------------- MODULE TripletEncoderProofs -------------------------
(***************************************************************************)
(* The retries of encode_native and the join of encode_triplet, for every  *)
(* number of chunks, every bound and every set of errors codecs may leave; *)
(* then the Huffman code of huffman.cpp, for every number of values, every *)
(* width of a value and every size of a byte.                              *)
(*                                                                         *)
(* The argument for the encoder is an order of the settings: every retry   *)
(* moves to later ones (the cube quantizer, or a smaller bound), so no     *)
(* settings return; and what a finished chunk was validated with are its   *)
(* current options, which are what the join compares.                      *)
(*                                                                         *)
(* The argument for the code has three parts.  The nodes are a forest      *)
(* whose leaves fill the code space below each root.  The code of an entry *)
(* is the room that the entries before it take, so the codes are intervals *)
(* side by side: the next one overflows exactly when the space is spent.   *)
(* And whatever lengths are chosen, the nodes can be given lengths that    *)
(* cost no more: the two lightest may have the longest, and be joined.     *)
(***************************************************************************)
EXTENDS MCTripletCodes, BitNumbers, SequenceTheorems, FiniteSetTheorems, FunctionTheorems,
        WellFoundedInduction, TLAPS

(* Settings t may be tried after settings s.                               *)
Precedes(s, t) ==
  /\ s.quantizer = "cube" => t.quantizer = "cube"
  /\ \/ t.bound < s.bound
     \/ t.bound = s.bound /\ s.quantizer = "to" /\ t.quantizer = "cube"

Missed(attempt) == ~(attempt.error # None /\ Fits(attempt.error))

(* The attempts of a chunk are in order and only the last may have fitted. *)
OrderInv(i) ==
  \A a, b \in DOMAIN attempts[i] :
    a < b => /\ Precedes(attempts[i][a].settings, attempts[i][b].settings)
             /\ Missed(attempts[i][a])

(* A chunk at work has an attempt left, with settings behind all others.   *)
PendingInv(i) ==
  Map!Pending(i) =>
    /\ Len(attempts[i]) < MaxAttempts
    /\ \A a \in DOMAIN attempts[i] :
         /\ Precedes(attempts[i][a].settings, options[i])
         /\ Missed(attempts[i][a])

(* A chunk with a result has the settings of the attempt that fitted.      *)
ValueInv(i) ==
  codec = "xnyzip" /\ value[i] # None =>
    /\ Len(attempts[i]) > 0
    /\ attempts[i][Len(attempts[i])].settings = options[i]
    /\ attempts[i][Len(attempts[i])].error # None
    /\ Fits(attempts[i][Len(attempts[i])].error)

(* What RefusalEarned says of one chunk.                                   *)
Earned(i) ==
  LET n == Len(attempts[i])
      last == attempts[i][n]
  IN  /\ n > 0
      /\ last.error # None =>
           \/ n = MaxAttempts
           \/ /\ last.error = Infinite
                 \/ last.settings.bound <= 2 * (last.error - Requested)
                 \/ last.settings.bound <= Requested \div 100
              /\ position => last.settings.quantizer = "cube"

ThrewInv(i) == codec = "xnyzip" /\ i \in threw => Earned(i)

ChunkInv(i) == OrderInv(i) /\ PendingInv(i) /\ ValueInv(i) /\ ThrewInv(i)

(* The join runs on all results, and what it has stored agrees with the    *)
(* chunks it has passed.                                                   *)
JoinInv ==
  /\ outcome = "value" => \A i \in Index : value[i] = i
  /\ merged > 0 \/ verdict # "joining" => outcome = "value"
  /\ merged > 0 => stored = options[0]
  /\ codec = "xnyzip" => \A j \in Index : j < merged => options[j] = stored
  /\ verdict = "stored" => merged = Jobs

EncoderInv == TypeOK /\ (\A i \in Index : ChunkInv(i)) /\ JoinInv

-------------------------------------------------------------------------------
LEMMA JobsPositive == Jobs \in Nat /\ Jobs > 0 /\ 0 \in Index
BY TripletEncoderAssumption DEF Jobs, Index

LEMMA NoneApart == \A i \in Index : i # None
BY TripletEncoderAssumption, JobsPositive DEF Index

LEMMA ErrorsAreInt == Errors \subseteq Int /\ Infinite \in Nat /\ Requested \in Nat
BY TripletEncoderAssumption

(* The margin taken off after an attempt that missed is positive.          *)
LEMMA MarginPositive ==
  ASSUME NEW e \in Errors, ~Fits(e), e # Infinite
  PROVE  Margin(e) \in Nat \ {0}
<1>1. Requested \in Nat \ {0} /\ e \in Int /\ e > Requested
  BY TripletEncoderAssumption DEF Fits
<1>2. Requested \div 100 \in Nat
  BY <1>1
<1> DEFINE percent == Requested \div 100
<1>3. Margin(e) = IF percent < 2 * (e - Requested) THEN 2 * (e - Requested) ELSE percent
  BY DEF Margin
<1> HIDE DEF percent
<1>4. percent \in Nat
  BY <1>2 DEF percent
<1> QED BY <1>1, <1>3, <1>4

(* The settings of a retry are settings, and come after the ones before.   *)
LEMMA PrecedesTransitive ==
  ASSUME NEW s \in Settings, NEW t \in Settings, NEW u \in Settings,
         Precedes(s, t), Precedes(t, u)
  PROVE  Precedes(s, u)
<1>1. s.bound \in Int /\ t.bound \in Int /\ u.bound \in Int
  BY DEF Settings
<1> QED BY <1>1 DEF Precedes

LEMMA PrecedesDiffers ==
  ASSUME NEW s \in Settings, NEW t \in Settings, Precedes(s, t)
  PROVE  s # t
<1>1. s.bound \in Int
  BY DEF Settings
<1> QED BY <1>1 DEF Precedes

LEMMA CubeFollows ==
  ASSUME TypeOK, NEW i \in Index, TryCube(i),
         options' = [options EXCEPT ![i].quantizer = "cube"]
  PROVE  options'[i] \in Settings /\ Precedes(options[i], options'[i])
<1>1. options[i] \in Settings /\ options[i].quantizer = "to" /\ options[i].bound \in Int
  BY DEF TypeOK, TryCube, Settings
<1>2. options'[i] = [options[i] EXCEPT !.quantizer = "cube"]
  BY DEF TypeOK
<1> QED BY <1>1, <1>2 DEF Precedes, Settings

LEMMA ShrunkFollows ==
  ASSUME TypeOK, NEW i \in Index, NEW e \in Errors, ~Fits(e), Shrinkable(i, e),
         options' = [options EXCEPT ![i].bound = NextBound(i, e)]
  PROVE  options'[i] \in Settings /\ Precedes(options[i], options'[i])
<1>1. options[i] \in Settings /\ options[i].bound \in 1..Requested
  BY DEF TypeOK, Settings
<1>2. options'[i] = [options[i] EXCEPT !.bound = NextBound(i, e)]
  BY DEF TypeOK
<1>3. Margin(e) \in Nat \ {0}
  BY MarginPositive DEF Shrinkable
<1>4. NextBound(i, e) \in 1..Requested /\ NextBound(i, e) < options[i].bound
  BY <1>1, <1>3, ErrorsAreInt DEF NextBound, Shrinkable
<1> QED BY <1>1, <1>2, <1>4 DEF Precedes, Settings

(* An attempt is recorded behind those made so far.                        *)
LEMMA MeasuredEffect ==
  ASSUME TypeOK, NEW i \in Index, NEW e \in Errors \cup {None}, Measured(i, e)
  PROVE  /\ attempts' \in [Index -> Seq(Attempt)]
         /\ \A j \in Index : j # i => attempts'[j] = attempts[j]
         /\ Len(attempts[i]) \in Nat
         /\ DOMAIN attempts[i] = 1..Len(attempts[i])
         /\ Len(attempts'[i]) = Len(attempts[i]) + 1
         /\ DOMAIN attempts'[i] = 1..(Len(attempts[i]) + 1)
         /\ \A a \in DOMAIN attempts[i] :
              attempts'[i][a] = attempts[i][a] /\ attempts[i][a] \in Attempt
         /\ attempts'[i][Len(attempts[i]) + 1].settings = options[i]
         /\ attempts'[i][Len(attempts[i]) + 1].error = e
<1> DEFINE new == [settings |-> options[i], error |-> e]
<1>1. new \in Attempt /\ attempts[i] \in Seq(Attempt)
  BY DEF TypeOK, Attempt
<1>2. attempts' = [attempts EXCEPT ![i] = Append(attempts[i], new)]
  BY DEF Measured
<1>3. attempts'[i] = Append(attempts[i], new)
  BY <1>2 DEF TypeOK
<1> HIDE DEF new
<1>4. /\ Append(attempts[i], new) \in Seq(Attempt)
      /\ Len(Append(attempts[i], new)) = Len(attempts[i]) + 1
      /\ \A a \in 1..Len(attempts[i]) : Append(attempts[i], new)[a] = attempts[i][a]
      /\ Append(attempts[i], new)[Len(attempts[i]) + 1] = new
  BY <1>1, AppendProperties
<1>5. /\ Len(attempts[i]) \in Nat /\ DOMAIN attempts[i] = 1..Len(attempts[i])
      /\ \A a \in 1..Len(attempts[i]) : attempts[i][a] \in Attempt
  BY <1>1, ElementOfSeq, LenProperties
<1>6. DOMAIN attempts'[i] = 1..(Len(attempts[i]) + 1)
  BY <1>3, <1>4, LenProperties
<1>7. attempts' \in [Index -> Seq(Attempt)] /\ \A j \in Index : j # i => attempts'[j] = attempts[j]
  BY <1>2, <1>4 DEF TypeOK
<1> QED BY <1>3, <1>4, <1>5, <1>6, <1>7 DEF new

-------------------------------------------------------------------------------
(* A step of another chunk, of the join or of parallel_map.                *)
LEMMA ChunkKept ==
  ASSUME NEW j \in Index, ChunkInv(j),
         attempts'[j] = attempts[j], options'[j] = options[j],
         value'[j] = value[j], j \in threw' <=> j \in threw,
         codec' = codec, position' = position
  PROVE  ChunkInv(j)'
BY DEF ChunkInv, OrderInv, PendingInv, ValueInv, ThrewInv, Earned, Map!Pending,
       Missed, Fits

(* While a chunk is at work the join has not begun.                        *)
LEMMA JoinWaits ==
  ASSUME TypeOK, JoinInv, outcome = "running", outcome' = outcome,
         UNCHANGED <<codec, joinVars>>
  PROVE  JoinInv'
<1>1. merged = 0 /\ verdict = "joining"
  BY DEF JoinInv, TypeOK
<1>2. \A j \in Index : ~(j < 0)
  BY JobsPositive DEF Index
<1> QED BY <1>1, <1>2 DEF JoinInv, joinVars

LEMMA OrderAfter ==
  ASSUME TypeOK, NEW i \in Index, NEW e \in Errors \cup {None}, Measured(i, e),
         OrderInv(i), PendingInv(i)
  PROVE  OrderInv(i)'
<1> DEFINE n == Len(attempts[i])
<1>1. Map!Pending(i)
  BY DEF Measured
<1>2. ASSUME NEW a \in DOMAIN attempts'[i], NEW b \in DOMAIN attempts'[i], a < b
      PROVE  /\ Precedes(attempts'[i][a].settings, attempts'[i][b].settings)
             /\ Missed(attempts'[i][a])
  <2>1. n \in Nat /\ a \in 1..(n + 1) /\ b \in 1..(n + 1) /\ DOMAIN attempts[i] = 1..n
    BY <1>2, MeasuredEffect
  <2> HIDE DEF n
  <2>2. a \in DOMAIN attempts[i] /\ (b \in DOMAIN attempts[i] \/ b = n + 1)
    BY <2>1, <1>2
  <2>3. attempts'[i][a] = attempts[i][a]
    BY <2>2, MeasuredEffect
  <2>4. CASE b \in DOMAIN attempts[i]
    <3>1. attempts'[i][b] = attempts[i][b]
      BY <2>4, MeasuredEffect
    <3> QED BY <3>1, <2>2, <2>3, <2>4, <1>2 DEF OrderInv
  <2>5. CASE b = n + 1
    <3>1. attempts'[i][b].settings = options[i]
      BY <2>5, MeasuredEffect DEF n
    <3> QED BY <3>1, <2>2, <2>3, <1>1 DEF PendingInv
  <2> QED BY <2>2, <2>4, <2>5
<1> QED BY <1>2 DEF OrderInv, Missed, Fits

(* The common part of the four ways an attempt ends.                       *)
LEMMA AttemptType ==
  ASSUME TypeOK, NEW i \in Index, NEW e \in Errors \cup {None}, Measured(i, e),
         PendingInv(i)
  PROVE  /\ codec' \in {"lcp", "xnyzip"} /\ position' \in BOOLEAN
         /\ attempts' \in [Index -> Seq(Attempt)]
         /\ \A j \in Index : Len(attempts'[j]) <= MaxAttempts
         /\ merged' \in 0..Jobs /\ stored' \in Settings \cup {None}
         /\ verdict' \in {"joining", "stored", "inconsistent"}
<1>1. Map!Pending(i) /\ UNCHANGED <<codec, position, joinVars>>
  BY DEF Measured
<1>2. Len(attempts'[i]) <= MaxAttempts
  <2>1. Len(attempts[i]) \in Nat /\ Len(attempts'[i]) = Len(attempts[i]) + 1
    BY MeasuredEffect
  <2>2. Len(attempts[i]) < MaxAttempts
    BY <1>1 DEF PendingInv
  <2> QED BY <2>1, <2>2 DEF MaxAttempts
<1>3. \A j \in Index : Len(attempts'[j]) <= MaxAttempts
  <2> TAKE j \in Index
  <2>1. CASE j = i
    BY <2>1, <1>2
  <2>2. CASE j # i
    BY <2>2, MeasuredEffect DEF TypeOK
  <2> QED BY <2>1, <2>2
<1> QED BY <1>1, <1>3, MeasuredEffect DEF TypeOK, joinVars

LEMMA CompleteEffect ==
  ASSUME TypeOK, NEW i \in Index, Map!Complete(i)
  PROVE  /\ value' \in [Index -> Index \cup {None}] /\ value'[i] = i
         /\ \A j \in Index : j # i => value'[j] = value[j]
         /\ threw' = threw /\ outcome' = outcome /\ outcome = "running"
         /\ i \notin threw
BY DEF Map!Complete, Map!Pending, TypeOK

LEMMA FailEffect ==
  ASSUME TypeOK, NEW i \in Index, Map!Fail(i)
  PROVE  /\ threw' \in SUBSET Index /\ i \in threw'
         /\ \A j \in Index : j # i => (j \in threw' <=> j \in threw)
         /\ value' = value /\ outcome' = outcome /\ outcome = "running"
         /\ value[i] = None
BY DEF Map!Fail, Map!Pending, TypeOK

-------------------------------------------------------------------------------
LEMMA AcceptStep ==
  ASSUME EncoderInv, NEW i \in Index, Accept(i)
  PROVE  EncoderInv'
<1>1. PICK e \in Errors : Fits(e) /\ Measured(i, e) /\ Map!Complete(i) /\ UNCHANGED options
  BY DEF Accept
<1>2. TypeOK /\ JoinInv /\ ChunkInv(i) /\ e \in Errors \cup {None}
  BY DEF EncoderInv
<1>3. e # None
  BY ErrorsAreInt, TripletEncoderAssumption
<1>4. UNCHANGED <<codec, position, joinVars>>
  BY <1>1 DEF Measured
<1>5. TypeOK'
  BY <1>1, <1>2, AttemptType, CompleteEffect DEF TypeOK, ChunkInv
<1>6. ChunkInv(i)'
  <2>1. OrderInv(i)'
    BY <1>1, <1>2, OrderAfter DEF ChunkInv
  <2>2. value'[i] # None /\ i \notin threw'
    BY <1>1, <1>2, CompleteEffect, NoneApart
  <2>3. PendingInv(i)' /\ ThrewInv(i)'
    BY <2>2 DEF PendingInv, ThrewInv, Map!Pending
  <2>4. ValueInv(i)'
    <3>1. /\ Len(attempts'[i]) = Len(attempts[i]) + 1 /\ Len(attempts[i]) \in Nat
          /\ attempts'[i][Len(attempts'[i])].settings = options'[i]
          /\ attempts'[i][Len(attempts'[i])].error = e
      BY <1>1, <1>2, MeasuredEffect
    <3>2. Len(attempts'[i]) > 0
      BY <3>1
    <3> QED BY <3>1, <3>2, <1>1, <1>3 DEF ValueInv, Fits
  <2> QED BY <2>1, <2>3, <2>4 DEF ChunkInv
<1>7. \A j \in Index : ChunkInv(j)'
  <2> TAKE j \in Index
  <2>1. CASE j # i
    BY <2>1, <1>1, <1>2, <1>4, MeasuredEffect, CompleteEffect, ChunkKept DEF EncoderInv
  <2> QED BY <2>1, <1>6
<1>8. JoinInv'
  BY <1>1, <1>2, <1>4, CompleteEffect, JoinWaits
<1> QED BY <1>5, <1>7, <1>8 DEF EncoderInv

LEMMA RetryStep ==
  ASSUME EncoderInv, NEW i \in Index, Retry(i)
  PROVE  EncoderInv'
<1>1. PICK e \in Errors :
        /\ ~Fits(e) /\ ~LastAttempt(i)
        /\ Measured(i, e)
        /\ \/ /\ TryCube(i)
              /\ options' = [options EXCEPT ![i].quantizer = "cube"]
           \/ /\ ~TryCube(i) /\ Shrinkable(i, e)
              /\ options' = [options EXCEPT ![i].bound = NextBound(i, e)]
        /\ UNCHANGED mapVars
  BY DEF Retry
<1>2. TypeOK /\ JoinInv /\ ChunkInv(i) /\ e \in Errors \cup {None} /\ OrderInv(i) /\ PendingInv(i)
  BY DEF EncoderInv, ChunkInv
<1>3. UNCHANGED <<codec, position, joinVars, value, threw, outcome, reported>>
  BY <1>1 DEF Measured, mapVars
<1>4. Map!Pending(i) /\ outcome = "running"
  BY <1>1 DEF Measured
<1>5. /\ options'[i] \in Settings /\ Precedes(options[i], options'[i])
      /\ \A j \in Index : j # i => options'[j] = options[j]
      /\ options' \in [Index -> Settings]
  <2>1. options'[i] \in Settings /\ Precedes(options[i], options'[i])
    BY <1>1, <1>2, CubeFollows, ShrunkFollows
  <2>2. \A j \in Index : j # i => options'[j] = options[j]
    BY <1>1, <1>2 DEF TypeOK
  <2>3. options' \in [Index -> Settings]
    <3>1. DOMAIN options' = Index /\ options' = [j \in Index |-> options'[j]]
      BY <1>1, <1>2 DEF TypeOK
    <3>2. \A j \in Index : options'[j] \in Settings
      BY <2>1, <2>2, <1>2 DEF TypeOK
    <3> QED BY <3>1, <3>2
  <2> QED BY <2>1, <2>2, <2>3
<1>6. TypeOK'
  BY <1>1, <1>2, <1>3, <1>5, AttemptType DEF TypeOK
<1>7. ChunkInv(i)'
  <2>1. OrderInv(i)'
    BY <1>1, <1>2, OrderAfter
  <2>2. ValueInv(i)' /\ ThrewInv(i)'
    BY <1>3, <1>4 DEF ValueInv, ThrewInv, Map!Pending
  <2>3. Len(attempts'[i]) < MaxAttempts
    <3>1. /\ Len(attempts[i]) \in Nat /\ Len(attempts'[i]) = Len(attempts[i]) + 1
          /\ Len(attempts[i]) < MaxAttempts /\ Len(attempts[i]) + 1 # MaxAttempts
      BY <1>1, <1>2, <1>4, MeasuredEffect DEF PendingInv, LastAttempt
    <3> QED BY <3>1 DEF MaxAttempts
  <2>4. ASSUME NEW a \in DOMAIN attempts'[i]
        PROVE  Precedes(attempts'[i][a].settings, options'[i]) /\ Missed(attempts'[i][a])
    <3>1. Len(attempts[i]) \in Nat /\ DOMAIN attempts[i] = 1..Len(attempts[i])
          /\ DOMAIN attempts'[i] = 1..(Len(attempts[i]) + 1)
      BY <1>1, <1>2, MeasuredEffect
    <3>2. a \in DOMAIN attempts[i] \/ a = Len(attempts[i]) + 1
      BY <3>1
    <3>3. CASE a \in DOMAIN attempts[i]
      <4>1. attempts'[i][a] = attempts[i][a] /\ attempts[i][a] \in Attempt
        BY <1>1, <1>2, <3>3, MeasuredEffect
      <4>2. Precedes(attempts[i][a].settings, options[i]) /\ Missed(attempts[i][a])
        BY <1>2, <1>4, <3>3 DEF PendingInv
      <4>3. attempts[i][a].settings \in Settings /\ options[i] \in Settings
        BY <4>1, <1>2 DEF Attempt, TypeOK
      <4> QED BY <4>1, <4>2, <4>3, <1>5, PrecedesTransitive
    <3>4. CASE a = Len(attempts[i]) + 1
      <4>1. attempts'[i][a].settings = options[i] /\ attempts'[i][a].error = e
        BY <1>1, <1>2, <3>4, MeasuredEffect
      <4> QED BY <4>1, <1>1, <1>5 DEF Missed
    <3> QED BY <3>2, <3>3, <3>4
  <2>5. PendingInv(i)'
    BY <2>3, <2>4 DEF PendingInv, Missed, Fits
  <2> QED BY <2>1, <2>2, <2>5 DEF ChunkInv
<1>8. \A j \in Index : ChunkInv(j)'
  <2> TAKE j \in Index
  <2>1. CASE j # i
    BY <2>1, <1>1, <1>2, <1>3, <1>5, MeasuredEffect, ChunkKept DEF EncoderInv
  <2> QED BY <2>1, <1>7
<1>9. JoinInv'
  BY <1>2, <1>3, <1>4, JoinWaits
<1> QED BY <1>6, <1>8, <1>9 DEF EncoderInv

(* An attempt that ends the chunk with an exception.                       *)
LEMMA FailedAttempt ==
  ASSUME EncoderInv, NEW i \in Index, NEW e \in Errors \cup {None},
         Measured(i, e), Map!Fail(i), UNCHANGED options, Earned(i)'
  PROVE  EncoderInv'
<1>1. TypeOK /\ JoinInv /\ ChunkInv(i)
  BY DEF EncoderInv
<1>2. UNCHANGED <<codec, position, joinVars>>
  BY DEF Measured
<1>3. TypeOK'
  BY <1>1, <1>2, AttemptType, FailEffect DEF TypeOK, ChunkInv
<1>4. ChunkInv(i)'
  <2>1. OrderInv(i)'
    BY <1>1, OrderAfter DEF ChunkInv
  <2>2. value'[i] = None /\ i \in threw'
    BY <1>1, FailEffect
  <2> QED BY <2>1, <2>2 DEF ChunkInv, PendingInv, ValueInv, ThrewInv, Map!Pending
<1>5. \A j \in Index : ChunkInv(j)'
  <2> TAKE j \in Index
  <2>1. CASE j # i
    BY <2>1, <1>1, <1>2, MeasuredEffect, FailEffect, ChunkKept DEF EncoderInv
  <2> QED BY <2>1, <1>4
<1>6. JoinInv'
  BY <1>1, <1>2, FailEffect, JoinWaits
<1> QED BY <1>3, <1>5, <1>6 DEF EncoderInv

LEMMA RefuseStep ==
  ASSUME EncoderInv, NEW i \in Index, Refuse(i)
  PROVE  EncoderInv'
<1>1. PICK e \in Errors :
        /\ ~Fits(e)
        /\ LastAttempt(i) \/ (~TryCube(i) /\ ~Shrinkable(i, e))
        /\ Measured(i, e)
        /\ Map!Fail(i)
        /\ UNCHANGED options
  BY DEF Refuse
<1>2. TypeOK /\ e \in Errors \cup {None}
  BY DEF EncoderInv
<1> DEFINE n == Len(attempts[i])
<1>3. /\ n \in Nat /\ Len(attempts'[i]) = n + 1
      /\ attempts'[i][n + 1].settings = options[i]
      /\ attempts'[i][n + 1].error = e
  BY <1>1, <1>2, MeasuredEffect
<1>4. ASSUME ~LastAttempt(i)
      PROVE  /\ \/ e = Infinite
                \/ options[i].bound <= 2 * (e - Requested)
                \/ options[i].bound <= Requested \div 100
             /\ position => options[i].quantizer = "cube"
  <2>1. ~TryCube(i) /\ ~Shrinkable(i, e)
    BY <1>1, <1>4
  <2>2. options[i].bound \in Int /\ options[i].quantizer \in {"to", "cube"}
    BY <1>2 DEF TypeOK, Settings
  <2>3. position => options[i].quantizer = "cube"
    BY <2>1, <2>2 DEF TryCube
  <2>4. CASE e # Infinite
    <3>1. ~(options[i].bound - Margin(e) > 0) /\ Margin(e) \in Nat
      BY <1>1, <2>1, <2>4, MarginPositive DEF Shrinkable, NextBound
    <3>2. options[i].bound <= Margin(e)
      BY <2>2, <3>1
    <3>3. Margin(e) = 2 * (e - Requested) \/ Margin(e) = Requested \div 100
      BY DEF Margin
    <3> QED BY <2>3, <3>2, <3>3
  <2> QED BY <2>3, <2>4
<1>5. Earned(i)'
  <2>1. n + 1 > 0
    BY <1>3
  <2>2. LastAttempt(i) => n + 1 = MaxAttempts
    BY DEF LastAttempt
  <2>3. position' = position
    BY <1>1 DEF Measured
  <2> HIDE DEF n
  <2> QED BY <2>1, <2>2, <2>3, <1>3, <1>4 DEF Earned, MaxAttempts
<1> QED BY <1>1, <1>2, <1>5, FailedAttempt

LEMMA NativeThrowsStep ==
  ASSUME EncoderInv, NEW i \in Index, NativeThrows(i)
  PROVE  EncoderInv'
<1>1. Measured(i, None) /\ Map!Fail(i) /\ UNCHANGED options /\ TypeOK
  BY DEF NativeThrows, EncoderInv
<1>2. /\ Len(attempts[i]) \in Nat /\ Len(attempts'[i]) = Len(attempts[i]) + 1
      /\ attempts'[i][Len(attempts'[i])].error = None
  BY <1>1, MeasuredEffect
<1>3. Len(attempts'[i]) > 0
  BY <1>2
<1>4. Earned(i)'
  BY <1>2, <1>3 DEF Earned
<1> QED BY <1>1, <1>4, FailedAttempt

LEMMA LcpStep ==
  ASSUME EncoderInv, NEW i \in Index, EncodeLcp(i)
  PROVE  EncoderInv'
<1>1. codec = "lcp" /\ UNCHANGED <<codec, position, options, attempts, joinVars>>
  BY DEF EncodeLcp
<1>2. Map!Complete(i) \/ Map!Fail(i)
  BY DEF EncodeLcp
<1>3. TypeOK /\ JoinInv
  BY DEF EncoderInv
<1>4. outcome = "running" /\ outcome' = outcome
  BY <1>2, <1>3, CompleteEffect, FailEffect
<1>5. TypeOK'
  BY <1>1, <1>2, <1>3, CompleteEffect, FailEffect DEF TypeOK, joinVars
<1>6. \A j \in Index : Map!Pending(j)' => Map!Pending(j)
  BY <1>2, <1>3 DEF Map!Complete, Map!Fail, Map!Pending, TypeOK
<1>7. \A j \in Index : ChunkInv(j)'
  <2> TAKE j \in Index
  <2>1. ChunkInv(j)
    BY DEF EncoderInv
  <2>2. OrderInv(j)'
    BY <1>1, <2>1 DEF ChunkInv, OrderInv, Missed, Fits
  <2>3. PendingInv(j)'
    BY <1>1, <1>6, <2>1 DEF ChunkInv, PendingInv, Missed, Fits
  <2>4. ValueInv(j)' /\ ThrewInv(j)'
    BY <1>1 DEF ValueInv, ThrewInv
  <2> QED BY <2>2, <2>3, <2>4 DEF ChunkInv
<1>8. JoinInv'
  BY <1>1, <1>3, <1>4, JoinWaits
<1> QED BY <1>5, <1>7, <1>8 DEF EncoderInv

(* The steps that leave every chunk alone.                                 *)
LEMMA ChunksKept ==
  ASSUME EncoderInv, UNCHANGED <<codec, position, value, threw, options, attempts>>
  PROVE  \A j \in Index : ChunkInv(j)'
BY ChunkKept DEF EncoderInv

LEMMA AnswerStep ==
  ASSUME EncoderInv, Answer
  PROVE  EncoderInv'
<1>1. /\ outcome = "running" /\ outcome' \in {"value", "error", "spawn_failed"}
      /\ UNCHANGED <<codec, position, value, threw, options, attempts, joinVars>>
      /\ outcome' = "value" => \A i \in Index : value[i] = i
  BY DEF Answer, Map!ReturnAll, Map!Rethrow, Map!GiveUp, Map!Index, Index
<1>2. TypeOK'
  BY <1>1 DEF EncoderInv, TypeOK, joinVars
<1>3. \A j \in Index : ChunkInv(j)'
  BY <1>1, ChunksKept
<1>4. JoinInv'
  <2>1. merged = 0 /\ verdict = "joining"
    BY <1>1 DEF EncoderInv, JoinInv, TypeOK
  <2>2. \A j \in Index : ~(j < 0)
    BY JobsPositive DEF Index
  <2> QED BY <1>1, <2>1, <2>2 DEF JoinInv, joinVars
<1> QED BY <1>2, <1>3, <1>4 DEF EncoderInv

LEMMA JoinStep ==
  ASSUME EncoderInv, Join
  PROVE  EncoderInv'
<1>1. /\ outcome = "value" /\ merged < Jobs
      /\ UNCHANGED <<codec, position, value, threw, outcome, reported, options,
                     attempts, verdict>>
      /\ stored' = (IF merged = 0 THEN options[0] ELSE stored)
      /\ merged' = merged + 1
      /\ merged > 0 => Agrees(merged)
      /\ verdict = "joining"
  BY DEF Join, Joining, mapVars
<1>2. merged \in Nat /\ merged \in Index /\ merged + 1 \in 0..Jobs
  BY <1>1, JobsPositive DEF EncoderInv, TypeOK, Index
<1>3. TypeOK'
  <2>1. options[0] \in Settings
    BY JobsPositive DEF EncoderInv, TypeOK
  <2> QED BY <1>1, <1>2, <2>1 DEF EncoderInv, TypeOK
<1>4. \A j \in Index : ChunkInv(j)'
  BY <1>1, ChunksKept
<1>5. stored' = options[0]
  BY <1>1, <1>2 DEF EncoderInv, JoinInv
<1>6. ASSUME codec = "xnyzip", NEW j \in Index, j < merged + 1
      PROVE  options[j] = stored'
  <2>1. j < merged \/ j = merged
    BY <1>2, <1>6, JobsPositive DEF Index
  <2>2. CASE j < merged
    <3>1. options[j] = stored /\ merged > 0
      BY <2>2, <1>2, <1>6, JobsPositive DEF EncoderInv, JoinInv, Index
    <3> QED BY <3>1, <1>1, <1>2
  <2>3. CASE j = merged /\ merged > 0
    BY <2>3, <1>1, <1>2, <1>6 DEF Agrees
  <2>4. CASE j = merged /\ merged = 0
    BY <2>4, <1>5
  <2> QED BY <2>1, <2>2, <2>3, <2>4, <1>2
<1>7. JoinInv'
  BY <1>1, <1>2, <1>5, <1>6 DEF EncoderInv, JoinInv
<1> QED BY <1>3, <1>4, <1>7 DEF EncoderInv

LEMMA JoinEnds ==
  ASSUME EncoderInv, JoinThrows \/ Store
  PROVE  EncoderInv'
<1>1. /\ outcome = "value"
      /\ UNCHANGED <<codec, position, value, threw, outcome, reported, options,
                     attempts, merged, stored>>
      /\ verdict' \in {"stored", "inconsistent"}
      /\ verdict' = "stored" => merged = Jobs
  BY DEF JoinThrows, Store, Joining, mapVars
<1>2. TypeOK'
  BY <1>1 DEF EncoderInv, TypeOK
<1>3. \A j \in Index : ChunkInv(j)'
  BY <1>1, ChunksKept
<1>4. JoinInv'
  BY <1>1 DEF EncoderInv, JoinInv
<1> QED BY <1>2, <1>3, <1>4 DEF EncoderInv

-------------------------------------------------------------------------------
LEMMA EncoderInit == Init => EncoderInv
<1> SUFFICES ASSUME Init PROVE EncoderInv
  OBVIOUS
<1>0. Map!Index = Index
  BY DEF Map!Index, Index
<1>1. \A i \in Index : attempts[i] = <<>> /\ value[i] = None /\ i \notin threw
  BY <1>0 DEF Init, Map!Init
<1>2. TypeOK
  <2>1. [quantizer |-> "to", bound |-> Requested] \in Settings
    BY TripletEncoderAssumption DEF Settings
  <2>2. <<>> \in Seq(Attempt) /\ Len(<<>>) <= MaxAttempts
    BY DEF MaxAttempts
  <2>3. value \in [Index -> Index \cup {None}]
    BY <1>0 DEF Init, Map!Init
  <2>4. options \in [Index -> Settings] /\ attempts \in [Index -> Seq(Attempt)]
    BY <2>1, <2>2 DEF Init
  <2>5. \A i \in Index : Len(attempts[i]) <= MaxAttempts
    BY <1>1, <2>2
  <2>6. /\ codec \in {"lcp", "xnyzip"} /\ position \in BOOLEAN
        /\ threw \in SUBSET Index /\ outcome = "running"
        /\ stored = None /\ verdict = "joining" /\ merged \in 0..Jobs
    BY JobsPositive DEF Init, Map!Init
  <2> QED BY <2>3, <2>4, <2>5, <2>6 DEF TypeOK
<1>3. \A i \in Index : ChunkInv(i)
  BY <1>1 DEF Init, Map!Init, ChunkInv, OrderInv, PendingInv, ValueInv, ThrewInv, MaxAttempts
<1>4. JoinInv
  BY JobsPositive DEF JoinInv, Init, Map!Init, Index
<1> QED BY <1>2, <1>3, <1>4 DEF EncoderInv

LEMMA EncoderStep ==
  ASSUME EncoderInv, [Next]_vars
  PROVE  EncoderInv'
<1>1. CASE \E i \in Index : EncodeNative(i)
  BY <1>1, AcceptStep, RetryStep, RefuseStep, NativeThrowsStep, LcpStep
  DEF EncodeNative
<1>2. CASE Answer
  BY <1>2, AnswerStep
<1>3. CASE Join
  BY <1>3, JoinStep
<1>4. CASE JoinThrows \/ Store
  BY <1>4, JoinEnds
<1>5. CASE UNCHANGED vars
  <2>1. \A j \in Index : ChunkInv(j)'
    BY <1>5, ChunksKept DEF vars
  <2>2. TypeOK' /\ JoinInv'
    BY <1>5 DEF vars, EncoderInv, TypeOK, JoinInv
  <2> QED BY <2>1, <2>2 DEF EncoderInv
<1> QED BY <1>1, <1>2, <1>3, <1>4, <1>5 DEF Next, Finished

LEMMA EncoderInvariant == Spec => []EncoderInv
BY EncoderInit, EncoderStep, PTL DEF Spec

(* The settings and attempts of every chunk keep their types: no bound     *)
(* that is handed to a codec is zero or negative.                          *)
THEOREM TypeCorrect == Spec => []TypeOK
<1>1. EncoderInv => TypeOK
  BY DEF EncoderInv
<1> QED BY <1>1, EncoderInvariant, PTL

(* No chunk is compressed twice with the same settings.                    *)
THEOREM NoAttemptRepeated == Spec => []AttemptsDiffer
<1>1. ASSUME EncoderInv PROVE AttemptsDiffer
  <2> SUFFICES ASSUME NEW i \in Index, NEW a \in DOMAIN attempts[i],
                      NEW b \in DOMAIN attempts[i], a < b
               PROVE  /\ attempts[i][a].settings # attempts[i][b].settings
                      /\ ~(attempts[i][a].error # None /\ Fits(attempts[i][a].error))
    BY DEF AttemptsDiffer
  <2>1. Precedes(attempts[i][a].settings, attempts[i][b].settings) /\ Missed(attempts[i][a])
    BY <1>1 DEF EncoderInv, ChunkInv, OrderInv
  <2>2. attempts[i] \in Seq(Attempt)
    BY <1>1 DEF EncoderInv, TypeOK
  <2>3. attempts[i][a] \in Attempt /\ attempts[i][b] \in Attempt
    BY <2>2, ElementOfSeq, LenProperties
  <2>4. attempts[i][a].settings \in Settings /\ attempts[i][b].settings \in Settings
    BY <2>3 DEF Attempt
  <2> QED BY <2>1, <2>4, PrecedesDiffers DEF Missed
<1> QED BY <1>1, EncoderInvariant, PTL

(* Data is refused only when nothing was left to try.                      *)
THEOREM RefusalsEarned == Spec => []RefusalEarned
<1>1. ASSUME EncoderInv PROVE RefusalEarned
  <2> SUFFICES ASSUME codec = "xnyzip", NEW i \in threw PROVE Earned(i)
    BY DEF RefusalEarned, Earned
  <2>1. i \in Index
    BY <1>1 DEF EncoderInv, TypeOK
  <2> QED BY <1>1, <2>1 DEF EncoderInv, ChunkInv, ThrewInv
<1> QED BY <1>1, EncoderInvariant, PTL

(* Together: no retry is wasted, and a chunk is refused only when nothing  *)
(* is left to try.                                                         *)
THEOREM RetriesAreEarned == Spec => []RetriesEarned
<1>1. AttemptsDiffer /\ RefusalEarned => RetriesEarned
  BY DEF RetriesEarned
<1> QED BY <1>1, NoAttemptRepeated, RefusalsEarned, PTL

(* The one set of settings that is stored fits every chunk.                *)
THEOREM StoredFits == Spec => []StoredSettingsFit
<1>1. ASSUME EncoderInv PROVE StoredSettingsFit
  <2> SUFFICES ASSUME verdict = "stored", codec = "xnyzip", NEW i \in Index
               PROVE  /\ attempts[i] # <<>>
                      /\ attempts[i][Len(attempts[i])].settings = stored
                      /\ attempts[i][Len(attempts[i])].error <= Requested
    BY DEF StoredSettingsFit
  <2>1. value[i] = i /\ i < merged
    BY <1>1, JobsPositive DEF EncoderInv, JoinInv, TypeOK, Index
  <2>2. options[i] = stored
    BY <1>1, <2>1 DEF EncoderInv, JoinInv
  <2>3. ValueInv(i)
    BY <1>1 DEF EncoderInv, ChunkInv
  <2>4. value[i] # None
    BY <2>1, NoneApart
  <2> QED BY <2>2, <2>3, <2>4 DEF ValueInv, Fits
<1> QED BY <1>1, EncoderInvariant, PTL

-------------------------------------------------------------------------------
(* ---- numbers ----------------------------------------------------------- *)

(* The least and the largest of some numbers.                              *)
LEMMA LeastNatural ==
  ASSUME NEW T, T \subseteq Nat, T # {}
  PROVE  \E n \in T : \A m \in T : n <= m
<1>1. \E n \in T : \A m \in T : ~(<<m, n>> \in OpToRel(<, Nat))
  BY WFMin, NatLessThanWellFounded, Zenon
<1>2. \A n, m \in T : m < n => <<m, n>> \in OpToRel(<, Nat)
  BY DEF OpToRel
<1>3. PICK n \in T : \A m \in T : ~(m < n)
  BY <1>1, <1>2, Zenon
<1> QED BY <1>3

LEMMA LargestNatural ==
  ASSUME NEW T, NEW n \in Nat, T \subseteq 0..n, T # {}
  PROVE  \E m \in T : \A k \in T : k <= m
<1> DEFINE U == {k \in 0..n : n - k \in T}
<1>1. U \subseteq Nat
  OBVIOUS
<1>2. PICK t \in T : TRUE
  OBVIOUS
<1>3. n - t \in U /\ n - (n - t) = t
  BY <1>2
<1>4. U # {}
  BY <1>3
<1> HIDE DEF U
<1>5. PICK u \in U : \A k \in U : u <= k
  BY <1>1, <1>4, LeastNatural
<1>6. n - u \in T /\ u \in 0..n
  BY <1>5 DEF U
<1>7. \A k \in T : n - k \in U /\ k \in 0..n
  BY DEF U
<1>8. \A k \in T : k <= n - u
  BY <1>5, <1>6, <1>7
<1> QED BY <1>6, <1>8

-------------------------------------------------------------------------------
(* ---- recursive functions ---------------------------------------------- *)

(* f is defined by its value at zero and by a step.                        *)
Recursive(f, D, a, g) == \A k \in D : f[k] = IF k = 0 THEN a ELSE g[k][f[k - 1]]

(* Such a function exists.                                                 *)
LEMMA RecursionExists ==
  ASSUME NEW D, D \subseteq Nat, NEW T, NEW a \in T, NEW g \in [Nat -> [T -> T]],
         \A k \in D : k > 0 => k - 1 \in D
  PROVE  \E f \in [D -> T] : Recursive(f, D, a, g)
<1> DEFINE Partial(k) == {f \in [0..k -> T] :
                            \A j \in 0..k : f[j] = IF j = 0 THEN a ELSE g[j][f[j - 1]]}
<1>1. \A k \in Nat : Partial(k) # {}
  <2> DEFINE Without == {k \in Nat : Partial(k) = {}}
  <2> SUFFICES ASSUME Without # {} PROVE FALSE
    OBVIOUS
  <2> HIDE DEF Partial
  <2>1. PICK k \in Without : \A j \in Without : k <= j
    <3>1. Without \subseteq Nat
      OBVIOUS
    <3> QED BY <3>1, LeastNatural
  <2>2. k \in Nat /\ Partial(k) = {}
    OBVIOUS
  <2>3. k # 0
    <3>1. [j \in 0..0 |-> a] \in Partial(0)
      BY DEF Partial
    <3> QED BY <2>2, <3>1
  <2>4. k - 1 \in Nat /\ k - 1 \notin Without
    <3>1. k - 1 \in Nat /\ ~(k <= k - 1)
      BY <2>2, <2>3
    <3> HIDE DEF Without
    <3> QED BY <2>1, <3>1
  <2>5. PICK f \in Partial(k - 1) : TRUE
    <3>1. \A j \in Nat : j \notin Without => Partial(j) # {}
      OBVIOUS
    <3> HIDE DEF Without
    <3>2. Partial(k - 1) # {}
      BY <2>4, <3>1
    <3> QED BY <3>2
  <2> DEFINE h == [j \in 0..k |-> IF j = k THEN g[k][f[k - 1]] ELSE f[j]]
  <2>6. /\ f \in [0..(k - 1) -> T]
        /\ \A j \in 0..(k - 1) : f[j] = IF j = 0 THEN a ELSE g[j][f[j - 1]]
    BY DEF Partial
  <2>7. f[k - 1] \in T /\ g[k][f[k - 1]] \in T
    BY <2>2, <2>4, <2>6
  <2>8. h \in [0..k -> T]
    BY <2>2, <2>6, <2>7
  <2>9. \A j \in 0..k : h[j] = IF j = 0 THEN a ELSE g[j][h[j - 1]]
    BY <2>2, <2>3, <2>6
  <2>10. h \in Partial(k)
    <3> HIDE DEF h
    <3> QED BY <2>8, <2>9 DEF Partial
  <2> QED BY <2>2, <2>10
<1>2. ASSUME NEW k \in Nat, NEW l \in Nat, NEW f \in Partial(k), NEW h \in Partial(l)
      PROVE  \A j \in Nat : j <= k /\ j <= l => f[j] = h[j]
  <2> DEFINE Apart == {j \in Nat : j <= k /\ j <= l /\ f[j] # h[j]}
  <2> SUFFICES ASSUME Apart # {} PROVE FALSE
    OBVIOUS
  <2>1. PICK j \in Apart : \A i \in Apart : j <= i
    <3>1. Apart \subseteq Nat
      OBVIOUS
    <3> HIDE DEF Apart
    <3> QED BY <3>1, LeastNatural
  <2>2. j \in Nat /\ j \in 0..k /\ j \in 0..l /\ f[j] # h[j]
    OBVIOUS
  <2>3. /\ f[j] = IF j = 0 THEN a ELSE g[j][f[j - 1]]
        /\ h[j] = IF j = 0 THEN a ELSE g[j][h[j - 1]]
    BY <2>2
  <2>4. j # 0
    BY <2>2, <2>3
  <2>5. f[j - 1] = h[j - 1]
    <3>1. j - 1 \in Nat /\ j - 1 <= k /\ j - 1 <= l /\ ~(j <= j - 1)
      BY <2>2, <2>4
    <3>2. j - 1 \notin Apart
      BY <2>1, <3>1
    <3> QED BY <3>1, <3>2
  <2> QED BY <2>2, <2>3, <2>4, <2>5
<1> DEFINE Some(k) == CHOOSE f \in Partial(k) : TRUE
           F == [k \in D |-> Some(k)[k]]
<1>3. \A k \in Nat : Some(k) \in Partial(k)
  BY <1>1
<1>4. \A k \in Nat : /\ Some(k) \in [0..k -> T]
                     /\ \A j \in 0..k : Some(k)[j] = IF j = 0 THEN a ELSE g[j][Some(k)[j - 1]]
  <2> HIDE DEF Some
  <2> QED BY <1>3
<1>5. \A k \in Nat : k > 0 => Some(k)[k - 1] = Some(k - 1)[k - 1]
  <2> HIDE DEF Some, Partial
  <2> TAKE k \in Nat
  <2> HAVE k > 0
  <2>1. k - 1 \in Nat /\ k - 1 <= k /\ k - 1 <= k - 1
    OBVIOUS
  <2> QED BY <1>2, <1>3, <2>1
<1> HIDE DEF Some, Partial
<1>6. F \in [D -> T]
  BY <1>4
<1>7. \A k \in D : F[k] = IF k = 0 THEN a ELSE g[k][F[k - 1]]
  <2> TAKE k \in D
  <2>1. k \in Nat /\ k \in 0..k
    OBVIOUS
  <2>2. F[k] = IF k = 0 THEN a ELSE g[k][Some(k)[k - 1]]
    BY <1>4, <2>1
  <2>3. k # 0 => k - 1 \in D /\ k > 0
    BY <2>1
  <2>4. k # 0 => F[k - 1] = Some(k)[k - 1]
    BY <1>5, <2>1, <2>3
  <2> QED BY <2>2, <2>4
<1> HIDE DEF F
<1> QED BY <1>6, <1>7 DEF Recursive

(* Powers of two.                                                          *)
LEMMA PowersAre ==
  /\ PowerOfTwo \in [Nat -> Nat]
  /\ PowerOfTwo[0] = 1
  /\ \A k \in Nat : PowerOfTwo[k] > 0 /\ PowerOfTwo[k + 1] = 2 * PowerOfTwo[k]
<1> DEFINE Doubles(f) == f = [k \in Nat |-> IF k = 0 THEN 1 ELSE 2 * f[k - 1]]
<1>1. \E f : Doubles(f)
  <2> DEFINE g == [k \in Nat |-> [x \in Nat |-> 2 * x]]
  <2>1. g \in [Nat -> [Nat -> Nat]] /\ \A k, x \in Nat : g[k][x] = 2 * x
    OBVIOUS
  <2> HIDE DEF g
  <2>2. PICK f \in [Nat -> Nat] : Recursive(f, Nat, 1, g)
    <3>1. Nat \subseteq Nat /\ 1 \in Nat /\ \A k \in Nat : k > 0 => k - 1 \in Nat
      OBVIOUS
    <3> QED BY <2>1, <3>1, RecursionExists, Zenon
  <2>3. \A k \in Nat : k # 0 => k - 1 \in Nat
    OBVIOUS
  <2>4. \A k \in Nat : f[k] = IF k = 0 THEN 1 ELSE 2 * f[k - 1]
    BY <2>1, <2>2, <2>3 DEF Recursive
  <2>5. f = [k \in Nat |-> IF k = 0 THEN 1 ELSE 2 * f[k - 1]]
    BY <2>4
  <2> QED BY <2>5
<1>2. Doubles(PowerOfTwo)
  <2>1. PowerOfTwo = CHOOSE f : Doubles(f)
    BY DEF PowerOfTwo
  <2> HIDE DEF Doubles
  <2> QED BY <1>1, <2>1
<1>3. /\ DOMAIN PowerOfTwo = Nat
      /\ \A k \in Nat : PowerOfTwo[k] = IF k = 0 THEN 1 ELSE 2 * PowerOfTwo[k - 1]
  BY <1>2
<1>4. \A k \in Nat : PowerOfTwo[k] \in Nat /\ PowerOfTwo[k] > 0
  <2> DEFINE Bad == {k \in Nat : ~(PowerOfTwo[k] \in Nat /\ PowerOfTwo[k] > 0)}
  <2> SUFFICES ASSUME Bad # {} PROVE FALSE
    OBVIOUS
  <2>1. PICK k \in Bad : \A j \in Bad : k <= j
    <3>1. Bad \subseteq Nat
      OBVIOUS
    <3> HIDE DEF Bad
    <3> QED BY <3>1, LeastNatural
  <2>2. k # 0
    BY <1>3
  <2>3. k - 1 \in Nat /\ k - 1 \notin Bad
    BY <2>1, <2>2
  <2> QED BY <1>3, <2>2, <2>3
<1>5. \A k \in Nat : PowerOfTwo[k + 1] = 2 * PowerOfTwo[k]
  BY <1>3
<1>6. PowerOfTwo = [k \in Nat |-> PowerOfTwo[k]] /\ PowerOfTwo[0] = 1
  BY <1>2
<1>7. PowerOfTwo \in [Nat -> Nat]
  BY <1>4, <1>6
<1> QED BY <1>4, <1>5, <1>6, <1>7

(* A running sum starts at zero and takes one number after the other.      *)
LEMMA SumsAre ==
  ASSUME NEW numbers \in Seq(Nat)
  PROVE  /\ Sums(numbers) \in [0..Len(numbers) -> Nat]
         /\ Sums(numbers)[0] = 0
         /\ \A k \in 1..Len(numbers) : Sums(numbers)[k] = Sums(numbers)[k - 1] + numbers[k]
<1> DEFINE D == 0..Len(numbers)
           Adds(f) == f = [k \in D |-> IF k = 0 THEN 0 ELSE f[k - 1] + numbers[k]]
<1>0. Len(numbers) \in Nat /\ \A k \in 1..Len(numbers) : numbers[k] \in Nat
  OBVIOUS
<1>1. \E f \in [D -> Nat] : Adds(f)
  <2> DEFINE g == [k \in Nat |-> [x \in Nat |-> IF k \in 1..Len(numbers) THEN x + numbers[k] ELSE x]]
  <2>1. g \in [Nat -> [Nat -> Nat]]
    BY <1>0
  <2>2. \A k \in 1..Len(numbers), x \in Nat : g[k][x] = x + numbers[k]
    BY <1>0
  <2> HIDE DEF g
  <2>3. D \subseteq Nat /\ \A k \in D : k > 0 => k - 1 \in D
    BY <1>0
  <2>4. PICK f \in [D -> Nat] : Recursive(f, D, 0, g)
    <3> HIDE DEF D
    <3>1. 0 \in Nat
      OBVIOUS
    <3> QED BY <2>1, <2>3, <3>1, RecursionExists, Zenon
  <2>5. \A k \in D : f[k] = IF k = 0 THEN 0 ELSE f[k - 1] + numbers[k]
    <3> TAKE k \in D
    <3>1. k # 0 => k \in 1..Len(numbers) /\ k - 1 \in D
      BY <1>0
    <3>2. k # 0 => f[k - 1] \in Nat
      BY <3>1
    <3> QED BY <2>2, <2>4, <3>1, <3>2 DEF Recursive
  <2>6. Adds(f)
    <3> HIDE DEF D
    <3> QED BY <2>5
  <2> QED BY <2>6
<1>2. \A f : Adds(f) => f \in [D -> Nat]
  <2> SUFFICES ASSUME NEW f, Adds(f) PROVE f \in [D -> Nat]
    OBVIOUS
  <2>1. /\ DOMAIN f = D
        /\ \A k \in D : f[k] = IF k = 0 THEN 0 ELSE f[k - 1] + numbers[k]
    <3> HIDE DEF D
    <3> QED OBVIOUS
  <2>2. f = [k \in D |-> f[k]]
    <3> HIDE DEF D
    <3> QED BY <2>1
  <2>3. \A k \in D : f[k] \in Nat
    <3> DEFINE Bad == {k \in D : f[k] \notin Nat}
    <3> SUFFICES ASSUME Bad # {} PROVE FALSE
      OBVIOUS
    <3>1. PICK k \in Bad : \A j \in Bad : k <= j
      <4>1. Bad \subseteq Nat
        BY <1>0
      <4> HIDE DEF Bad
      <4> QED BY <4>1, LeastNatural
    <3>2. k # 0 /\ k \in D
      BY <2>1
    <3>3. k - 1 \in D /\ k \in 1..Len(numbers) /\ k \in Nat /\ ~(k <= k - 1)
      BY <1>0, <3>2
    <3>4. f[k - 1] \in Nat
      BY <3>1, <3>3
    <3> QED BY <1>0, <2>1, <3>2, <3>3, <3>4, SMTT(30)
  <2> HIDE DEF D
  <2> QED BY <2>2, <2>3
<1>3. Adds(Sums(numbers)) /\ Sums(numbers) \in [D -> Nat]
  <2>1. Sums(numbers) = CHOOSE f : Adds(f)
    BY DEF Sums
  <2> HIDE DEF Adds
  <2> QED BY <1>1, <1>2, <2>1
<1>4. \A k \in D : Sums(numbers)[k] = IF k = 0 THEN 0 ELSE Sums(numbers)[k - 1] + numbers[k]
  <2> HIDE DEF D
  <2> QED BY <1>3
<1> QED BY <1>0, <1>3, <1>4, SMTT(30)

-------------------------------------------------------------------------------
(* ---- sums -------------------------------------------------------------- *)

(* The recursive function by which the library adds up f over the subsets  *)
(* of S, and the sum of f over S.                                          *)
Pick(s) == CHOOSE x \in s : TRUE
Step(f, g, s) == IF s = {} THEN 0 ELSE f[Pick(s)] + g[s \ {Pick(s)}]
Iterated(f, S, g) == g = [s \in SUBSET S |-> Step(f, g, s)]
Total(f, S) == (CHOOSE g : Iterated(f, S, g))[S]

LEMMA SumIsTotal ==
  ASSUME NEW f
  PROVE  /\ Codes!SumFunction(f) = Total(f, DOMAIN f)
         /\ \A S : Codes!SumFunctionOnSet(f, S) = Total(f, S)
BY DEF Codes!SumFunction, Codes!SumFunctionOnSet, Codes!FoldFunctionOnSet,
       Codes!MapThenFoldSet, Total, Iterated, Step, Pick

LEMMA Picked ==
  ASSUME NEW S, IsFiniteSet(S), NEW s \in SUBSET S
  PROVE  /\ IsFiniteSet(s) /\ Cardinality(s) \in Nat
         /\ Cardinality(s) = 0 <=> s = {}
         /\ s # {} => Pick(s) \in s
         /\ s \ {Pick(s)} \in SUBSET S
         /\ s # {} => Cardinality(s \ {Pick(s)}) = Cardinality(s) - 1
<1>1. IsFiniteSet(s)
  BY FS_Subset
<1>2. s # {} => Pick(s) \in s
  BY DEF Pick
<1> QED BY <1>1, <1>2, FS_CardinalityType, FS_EmptySet, FS_RemoveElement

(* There is such a function: one for the subsets of fewer than k members   *)
(* gives one for those of k.                                               *)
Until(f, S, k, g) == \A s \in SUBSET S : Cardinality(s) <= k => g[s] = Step(f, g, s)
Reached(f, S, k) == \E g : Until(f, S, k, g)

LEMMA FirstReached ==
  ASSUME NEW f, NEW S, IsFiniteSet(S)
  PROVE  Reached(f, S, 0)
<1> DEFINE g == [s \in SUBSET S |-> 0]
<1>1. ASSUME NEW s \in SUBSET S, Cardinality(s) <= 0 PROVE s = {}
  <2>1. Cardinality(s) \in Nat /\ (Cardinality(s) = 0 <=> s = {})
    BY Picked
  <2> QED BY <1>1, <2>1
<1>2. \A s \in SUBSET S : Cardinality(s) <= 0 => g[s] = Step(f, g, s)
  BY <1>1 DEF Step
<1> QED BY <1>2 DEF Until, Reached

LEMMA NextReached ==
  ASSUME NEW f, NEW S, IsFiniteSet(S), NEW k \in Nat, Reached(f, S, k)
  PROVE  Reached(f, S, k + 1)
<1>1. PICK g : Until(f, S, k, g)
  BY DEF Reached
<1> DEFINE h == [s \in SUBSET S |-> Step(f, g, s)]
<1>2. \A s \in SUBSET S : h[s] = Step(f, g, s)
  OBVIOUS
<1>3. \A s \in SUBSET S : Cardinality(s) <= k => h[s] = g[s]
  BY <1>1, <1>2 DEF Until
<1> HIDE DEF h
<1>4. \A s \in SUBSET S : Cardinality(s) <= k + 1 => Step(f, h, s) = Step(f, g, s)
  <2> TAKE s \in SUBSET S
  <2> HAVE Cardinality(s) <= k + 1
  <2>1. CASE s = {}
    BY <2>1 DEF Step
  <2>2. CASE s # {}
    <3>1. s \ {Pick(s)} \in SUBSET S /\ Cardinality(s \ {Pick(s)}) <= k
      BY <2>2, Picked
    <3>2. h[s \ {Pick(s)}] = g[s \ {Pick(s)}]
      BY <1>3, <3>1
    <3> QED BY <3>2 DEF Step
  <2> QED BY <2>1, <2>2
<1>5. Until(f, S, k + 1, h)
  BY <1>2, <1>4 DEF Until
<1> QED BY <1>5 DEF Reached

LEMMA AllReached ==
  ASSUME NEW f, NEW S, IsFiniteSet(S), NEW k \in Nat
  PROVE  Reached(f, S, k)
<1> DEFINE T == {n \in Nat : ~Reached(f, S, n)}
<1> SUFFICES ASSUME T # {} PROVE FALSE
  OBVIOUS
<1>1. T \subseteq Nat
  OBVIOUS
<1>2. PICK n \in T : \A m \in T : n <= m
  BY <1>1, LeastNatural
<1>3. n \in Nat /\ ~Reached(f, S, n)
  OBVIOUS
<1>4. n # 0
  BY <1>3, FirstReached
<1>5. n - 1 \in Nat /\ n - 1 \notin T
  BY <1>2, <1>3, <1>4
<1>6. Reached(f, S, n - 1)
  BY <1>5
<1>7. Reached(f, S, (n - 1) + 1)
  BY <1>5, <1>6, NextReached
<1> QED BY <1>3, <1>7

LEMMA IterationExists ==
  ASSUME NEW f, NEW S, IsFiniteSet(S)
  PROVE  Iterated(f, S, CHOOSE g : Iterated(f, S, g))
<1>1. Cardinality(S) \in Nat /\ \A s \in SUBSET S : Cardinality(s) <= Cardinality(S)
  BY FS_CardinalityType, FS_Subset
<1>2. PICK g : Until(f, S, Cardinality(S), g)
  BY <1>1, AllReached DEF Reached
<1> DEFINE h == [s \in SUBSET S |-> g[s]]
<1>3. \A s \in SUBSET S : g[s] = Step(f, g, s)
  BY <1>1, <1>2 DEF Until
<1>4. \A s \in SUBSET S : h[s] = g[s]
  OBVIOUS
<1>5. \A s \in SUBSET S : Step(f, h, s) = Step(f, g, s)
  <2> TAKE s \in SUBSET S
  <2>1. s \ {Pick(s)} \in SUBSET S
    OBVIOUS
  <2> HIDE DEF h
  <2> QED BY <1>4, <2>1 DEF Step
<1>6. h = [s \in SUBSET S |-> Step(f, h, s)]
  <2> DEFINE e == [s \in SUBSET S |-> Step(f, h, s)]
  <2>1. \A s \in SUBSET S : e[s] = Step(f, h, s)
    OBVIOUS
  <2>2. \A s \in SUBSET S : h[s] = e[s]
    BY <1>3, <1>4, <1>5, <2>1
  <2>3. e = [s \in SUBSET S |-> e[s]]
    OBVIOUS
  <2>4. h = [s \in SUBSET S |-> h[s]]
    OBVIOUS
  <2> HIDE DEF h, e
  <2>5. h = e
    BY <2>2, <2>3, <2>4
  <2> QED BY <2>5 DEF e
<1> HIDE DEF h
<1>7. Iterated(f, S, h)
  BY <1>6 DEF Iterated
<1> QED BY <1>7

(* What it gives for a set depends on f there only.                        *)
LEMMA IterationsAgree ==
  ASSUME NEW f, NEW S, IsFiniteSet(S), NEW g, Iterated(f, S, g),
         NEW e, NEW U, IsFiniteSet(U), NEW h, Iterated(e, U, h),
         NEW A, A \subseteq S, A \subseteq U, \A x \in A : f[x] = e[x]
  PROVE  g[A] = h[A]
<1> DEFINE T == {Cardinality(s) : s \in {a \in SUBSET A : g[a] # h[a]}}
<1> SUFFICES ASSUME g[A] # h[A] PROVE FALSE
  OBVIOUS
<1>1. IsFiniteSet(A) /\ \A s \in SUBSET A : Cardinality(s) \in Nat
  BY Picked
<1>2. T \subseteq Nat /\ T # {}
  BY <1>1
<1>3. PICK n \in T : \A m \in T : n <= m
  BY <1>2, LeastNatural
<1>4. PICK s \in SUBSET A : g[s] # h[s] /\ Cardinality(s) = n
  BY <1>3
<1>5. \A a \in SUBSET A : g[a] # h[a] => n <= Cardinality(a)
  BY <1>3
<1>6. s \in SUBSET S /\ s \in SUBSET U
  BY <1>4
<1>7. g[s] = Step(f, g, s) /\ h[s] = Step(e, h, s)
  <2>1. \A a \in SUBSET S : g[a] = Step(f, g, a)
    BY DEF Iterated
  <2>2. \A a \in SUBSET U : h[a] = Step(e, h, a)
    BY DEF Iterated
  <2> QED BY <1>6, <2>1, <2>2
<1>8. s # {}
  BY <1>4, <1>7 DEF Step
<1>9. Pick(s) \in A /\ s \ {Pick(s)} \in SUBSET A /\ Cardinality(s \ {Pick(s)}) < n
  BY <1>1, <1>4, <1>8, Picked
<1>10. g[s \ {Pick(s)}] = h[s \ {Pick(s)}]
  BY <1>1, <1>2, <1>3, <1>5, <1>9
<1>11. f[Pick(s)] = e[Pick(s)]
  BY <1>9
<1> QED BY <1>4, <1>7, <1>10, <1>11 DEF Step

LEMMA TotalSame ==
  ASSUME NEW S, IsFiniteSet(S), NEW f, NEW e, \A x \in S : f[x] = e[x]
  PROVE  Total(f, S) = Total(e, S)
BY IterationExists, IterationsAgree DEF Total

LEMMA TotalEmpty ==
  ASSUME NEW f PROVE Total(f, {}) = 0
<1> DEFINE g == CHOOSE g : Iterated(f, {}, g)
<1>1. Iterated(f, {}, g)
  BY FS_EmptySet, IterationExists
<1> HIDE DEF g
<1>2. g[{}] = 0
  BY <1>1 DEF Iterated, Step
<1> QED BY <1>2 DEF Total, g

LEMMA TotalPicked ==
  ASSUME NEW f, NEW S, IsFiniteSet(S), S # {}
  PROVE  Total(f, S) = f[Pick(S)] + Total(f, S \ {Pick(S)})
<1> DEFINE s == S \ {Pick(S)}
           g == CHOOSE g : Iterated(f, S, g)
           h == CHOOSE h : Iterated(f, s, h)
<1>1. IsFiniteSet(s)
  BY FS_Subset
<1>2. Iterated(f, S, g) /\ Iterated(f, s, h)
  BY <1>1, IterationExists
<1>3. Total(f, S) = g[S] /\ Total(f, s) = h[s]
  BY DEF Total
<1> HIDE DEF g, h
<1>4. g[s] = h[s]
  BY <1>1, <1>2, IterationsAgree
<1>5. g[S] = Step(f, g, S)
  BY <1>2 DEF Iterated
<1> QED BY <1>3, <1>4, <1>5 DEF Step

LEMMA TotalType ==
  ASSUME NEW f, NEW S, IsFiniteSet(S), \A x \in S : f[x] \in Nat
  PROVE  Total(f, S) \in Nat
<1> DEFINE T == {Cardinality(s) : s \in {a \in SUBSET S : Total(f, a) \notin Nat}}
<1> SUFFICES ASSUME Total(f, S) \notin Nat PROVE FALSE
  OBVIOUS
<1>1. \A s \in SUBSET S : IsFiniteSet(s) /\ Cardinality(s) \in Nat
  BY Picked
<1>2. T \subseteq Nat /\ T # {}
  BY <1>1
<1>3. PICK n \in T : \A m \in T : n <= m
  BY <1>2, LeastNatural
<1>4. PICK s \in SUBSET S : Total(f, s) \notin Nat /\ Cardinality(s) = n
  BY <1>3
<1>5. \A a \in SUBSET S : Total(f, a) \notin Nat => n <= Cardinality(a)
  BY <1>3
<1>6. s # {}
  BY <1>4, TotalEmpty
<1>7. Pick(s) \in S /\ s \ {Pick(s)} \in SUBSET S /\ Cardinality(s \ {Pick(s)}) < n
  BY <1>1, <1>4, <1>6, Picked
<1>8. Total(f, s \ {Pick(s)}) \in Nat
  BY <1>1, <1>2, <1>3, <1>5, <1>7
<1>9. Total(f, s) = f[Pick(s)] + Total(f, s \ {Pick(s)})
  BY <1>1, <1>6, TotalPicked
<1>10. f[Pick(s)] \in Nat
  BY <1>7
<1> QED BY <1>4, <1>8, <1>9, <1>10

(* Any member may be taken out first.                                      *)
Takes(f, s) == \A x \in s : Total(f, s) = f[x] + Total(f, s \ {x})

LEMMA TotalTakes ==
  ASSUME NEW f, NEW S, IsFiniteSet(S), \A x \in S : f[x] \in Nat
  PROVE  Takes(f, S)
<1> DEFINE T == {Cardinality(s) : s \in {a \in SUBSET S : ~Takes(f, a)}}
<1> SUFFICES ASSUME ~Takes(f, S) PROVE FALSE
  OBVIOUS
<1>1. \A s \in SUBSET S : IsFiniteSet(s) /\ Cardinality(s) \in Nat
  BY Picked
<1>2. T \subseteq Nat /\ T # {}
  BY <1>1
<1>3. PICK n \in T : \A m \in T : n <= m
  BY <1>2, LeastNatural
<1>4. PICK s \in SUBSET S : ~Takes(f, s) /\ Cardinality(s) = n
  BY <1>3
<1>5. \A a \in SUBSET S : ~Takes(f, a) => n <= Cardinality(a)
  BY <1>3
<1>6. PICK x \in s : Total(f, s) # f[x] + Total(f, s \ {x})
  BY <1>4 DEF Takes
<1> DEFINE c == Pick(s)
<1>7. c \in s /\ Total(f, s) = f[c] + Total(f, s \ {c})
  BY <1>1, <1>4, <1>6, Picked, TotalPicked
<1>8. c # x
  BY <1>6, <1>7
<1>9. ASSUME NEW y \in s PROVE Takes(f, s \ {y})
  <2>1. s \ {y} \in SUBSET S /\ Cardinality(s \ {y}) = n - 1
    BY <1>1, <1>4, FS_RemoveElement
  <2>2. n \in Nat
    BY <1>2, <1>3
  <2>3. ~(n <= Cardinality(s \ {y}))
    BY <2>1, <2>2
  <2> QED BY <1>5, <2>1, <2>3
<1> HIDE DEF c
<1>10. Total(f, s \ {c}) = f[x] + Total(f, (s \ {c}) \ {x})
  BY <1>6, <1>7, <1>8, <1>9 DEF Takes
<1>11. Total(f, s \ {x}) = f[c] + Total(f, (s \ {x}) \ {c})
  BY <1>6, <1>7, <1>8, <1>9 DEF Takes
<1>12. (s \ {c}) \ {x} = (s \ {x}) \ {c}
  OBVIOUS
<1>13. f[c] \in Nat /\ f[x] \in Nat
  BY <1>6, <1>7
<1>14. Total(f, (s \ {x}) \ {c}) \in Nat
  <2>1. (s \ {x}) \ {c} \in SUBSET S
    OBVIOUS
  <2> QED BY <1>1, <2>1, TotalType
<1>15. Total(f, s) = f[x] + Total(f, s \ {x})
  <2> DEFINE rest == Total(f, (s \ {x}) \ {c})
  <2>1. Total(f, s \ {c}) = f[x] + rest /\ Total(f, s \ {x}) = f[c] + rest
    BY <1>10, <1>11, <1>12
  <2> HIDE DEF rest
  <2>2. rest \in Nat
    BY <1>14 DEF rest
  <2> QED BY <1>7, <1>13, <2>1, <2>2
<1> QED BY <1>6, <1>15

LEMMA TotalWith ==
  ASSUME NEW f, NEW S, IsFiniteSet(S), NEW x, x \notin S,
         \A y \in S \cup {x} : f[y] \in Nat
  PROVE  /\ IsFiniteSet(S \cup {x})
         /\ Total(f, S) \in Nat
         /\ Total(f, S \cup {x}) = f[x] + Total(f, S)
<1>1. IsFiniteSet(S \cup {x})
  BY FS_AddElement
<1>2. Takes(f, S \cup {x})
  BY <1>1, TotalTakes
<1>3. (S \cup {x}) \ {x} = S
  OBVIOUS
<1>4. Total(f, S) \in Nat
  BY TotalType
<1> QED BY <1>1, <1>2, <1>3, <1>4 DEF Takes

(* The sum over two disjoint sets.                                         *)
LEMMA TotalUnion ==
  ASSUME NEW f, NEW A, NEW B, IsFiniteSet(A), IsFiniteSet(B), A \cap B = {},
         \A x \in A \cup B : f[x] \in Nat
  PROVE  /\ Total(f, A) \in Nat /\ Total(f, B) \in Nat
         /\ Total(f, A \cup B) = Total(f, A) + Total(f, B)
<1> DEFINE Adds(b) == Total(f, A \cup b) = Total(f, A) + Total(f, b)
           T == {Cardinality(s) : s \in {a \in SUBSET B : ~Adds(a)}}
<1>0. Total(f, A) \in Nat /\ \A b \in SUBSET B : Total(f, b) \in Nat
  <2>1. Total(f, A) \in Nat
    BY TotalType
  <2>2. ASSUME NEW b \in SUBSET B PROVE Total(f, b) \in Nat
    BY FS_Subset, TotalType
  <2> QED BY <2>1, <2>2
<1> SUFFICES ASSUME ~Adds(B) PROVE FALSE
  BY <1>0
<1>1. \A s \in SUBSET B : IsFiniteSet(s) /\ Cardinality(s) \in Nat
  BY Picked
<1> HIDE DEF Adds
<1>2. T \subseteq Nat /\ T # {}
  BY <1>1
<1>3. PICK n \in T : \A m \in T : n <= m
  BY <1>2, LeastNatural
<1>4. PICK s \in SUBSET B : ~Adds(s) /\ Cardinality(s) = n
  BY <1>3
<1>5. \A a \in SUBSET B : ~Adds(a) => n <= Cardinality(a)
  BY <1>3
<1>6. s # {}
  <2> SUFFICES ASSUME s = {} PROVE FALSE
    OBVIOUS
  <2>1. A \cup s = A
    OBVIOUS
  <2> QED BY <1>0, <1>4, <2>1, TotalEmpty DEF Adds
<1>7. PICK x : x \in s
  BY <1>6
<1> DEFINE r == s \ {x}
<1>8. r \in SUBSET B /\ Cardinality(r) = n - 1 /\ IsFiniteSet(r) /\ n \in Nat
  BY <1>1, <1>2, <1>3, <1>4, <1>7, FS_RemoveElement
<1>9. Adds(r)
  <2>1. ~(n <= Cardinality(r))
    BY <1>8
  <2> QED BY <1>5, <1>8, <2>1
<1>10. s = r \cup {x} /\ A \cup s = (A \cup r) \cup {x} /\ x \notin r /\ x \notin A \cup r
  BY <1>7
<1>11. \A y \in (A \cup r) \cup {x} : f[y] \in Nat
  BY <1>7, <1>8
<1>12. IsFiniteSet(A \cup r)
  BY <1>8, FS_Union
<1> HIDE DEF r
<1>13. Total(f, s) = f[x] + Total(f, r)
  BY <1>8, <1>10, <1>11, TotalWith
<1>14. Total(f, A \cup s) = f[x] + Total(f, A \cup r)
  BY <1>10, <1>11, <1>12, TotalWith
<1>15. f[x] \in Nat /\ Total(f, r) \in Nat
  BY <1>0, <1>8, <1>11
<1> QED BY <1>0, <1>4, <1>9, <1>13, <1>14, <1>15 DEF Adds

LEMMA TotalSingle ==
  ASSUME NEW f, NEW x, f[x] \in Nat
  PROVE  Total(f, {x}) = f[x]
<1>1. IsFiniteSet({}) /\ x \notin {} /\ {x} = {} \cup {x}
  BY FS_EmptySet
<1>2. \A y \in {} \cup {x} : f[y] \in Nat
  OBVIOUS
<1>3. Total(f, {} \cup {x}) = f[x] + Total(f, {})
  BY <1>1, <1>2, TotalWith
<1> QED BY <1>1, <1>3, TotalEmpty

(* What the empty set has, and what one more member keeps, a finite set has.*)
LEMMA BySubsets ==
  ASSUME NEW S, IsFiniteSet(S), NEW P, {} \in P,
         \A s \in SUBSET S : \A x \in S \ s : s \in P => s \cup {x} \in P
  PROVE  S \in P
<1> DEFINE T == {Cardinality(s) : s \in (SUBSET S) \ P}
<1> SUFFICES ASSUME S \notin P PROVE FALSE
  OBVIOUS
<1>1. \A s \in SUBSET S : IsFiniteSet(s) /\ Cardinality(s) \in Nat
  BY Picked
<1>2. T \subseteq Nat /\ T # {}
  BY <1>1
<1>3. PICK n \in T : \A m \in T : n <= m
  BY <1>2, LeastNatural
<1>4. PICK s \in (SUBSET S) \ P : Cardinality(s) = n
  BY <1>3
<1>5. \A a \in (SUBSET S) \ P : n <= Cardinality(a)
  BY <1>3
<1> HIDE DEF T
<1>6. PICK x \in s : TRUE
  BY <1>4
<1>7. s \ {x} \in SUBSET S /\ x \in S \ (s \ {x}) /\ (s \ {x}) \cup {x} = s
  BY <1>4, <1>6
<1>8. Cardinality(s \ {x}) = n - 1 /\ n \in Nat
  BY <1>1, <1>2, <1>3, <1>4, <1>6, FS_RemoveElement
<1>9. s \ {x} \in P
  BY <1>5, <1>7, <1>8
<1> QED BY <1>4, <1>7, <1>9

(* Sums of sums, and of greater numbers.                                   *)
LEMMA TotalAdds ==
  ASSUME NEW S, IsFiniteSet(S), NEW f, NEW e, NEW h,
         \A x \in S : f[x] \in Nat /\ e[x] \in Nat /\ h[x] = f[x] + e[x]
  PROVE  /\ Total(f, S) \in Nat /\ Total(e, S) \in Nat
         /\ Total(h, S) = Total(f, S) + Total(e, S)
<1> DEFINE P == {s \in SUBSET S : Total(h, s) = Total(f, s) + Total(e, s)}
<1>1. {} \in P
  BY TotalEmpty
<1>2. ASSUME NEW s \in SUBSET S, NEW x \in S \ s, s \in P PROVE s \cup {x} \in P
  <2>1. IsFiniteSet(s) /\ x \notin s
    BY <1>2, FS_Subset
  <2>2. \A y \in s \cup {x} : f[y] \in Nat /\ e[y] \in Nat /\ h[y] \in Nat /\ h[y] = f[y] + e[y]
    BY <1>2
  <2>3. Total(f, s) \in Nat /\ Total(f, s \cup {x}) = f[x] + Total(f, s)
    BY <2>1, <2>2, TotalWith
  <2>4. Total(e, s) \in Nat /\ Total(e, s \cup {x}) = e[x] + Total(e, s)
    BY <2>1, <2>2, TotalWith
  <2>5. Total(h, s) \in Nat /\ Total(h, s \cup {x}) = h[x] + Total(h, s)
    BY <2>1, <2>2, TotalWith
  <2>6. Total(h, s) = Total(f, s) + Total(e, s)
    BY <1>2
  <2>7. Total(h, s \cup {x}) = Total(f, s \cup {x}) + Total(e, s \cup {x})
    BY <2>2, <2>3, <2>4, <2>5, <2>6
  <2> QED BY <2>7
<1> HIDE DEF P
<1>3. S \in P
  BY <1>1, <1>2, BySubsets
<1>4. Total(f, S) \in Nat /\ Total(e, S) \in Nat
  BY TotalType
<1> QED BY <1>3, <1>4 DEF P

LEMMA TotalAtMost ==
  ASSUME NEW S, IsFiniteSet(S), NEW f, NEW h,
         \A x \in S : f[x] \in Nat /\ h[x] \in Nat /\ f[x] <= h[x]
  PROVE  /\ Total(f, S) \in Nat /\ Total(h, S) \in Nat
         /\ Total(f, S) <= Total(h, S)
<1> DEFINE e == [x \in S |-> h[x] - f[x]]
<1>1. \A x \in S : f[x] \in Nat /\ e[x] \in Nat /\ h[x] = f[x] + e[x]
  OBVIOUS
<1> HIDE DEF e
<1>2. /\ Total(f, S) \in Nat /\ Total(e, S) \in Nat
      /\ Total(h, S) = Total(f, S) + Total(e, S)
  BY <1>1, TotalAdds
<1> QED BY <1>2

(* The terms of a sum may be put in another order, two at a time.          *)
LEMMA TotalSwapped ==
  ASSUME NEW S, IsFiniteSet(S), NEW x \in S, NEW y \in S, NEW f, NEW h,
         \A z \in S : f[z] \in Nat, h[x] = f[y], h[y] = f[x],
         \A z \in S \ {x, y} : h[z] = f[z]
  PROVE  Total(h, S) = Total(f, S)
<1> DEFINE rest == (S \ {x}) \ {y}
<1>1. CASE x = y
  BY <1>1, TotalSame
<1>2. CASE x # y
  <2>1. IsFiniteSet(S \ {x}) /\ IsFiniteSet(rest) /\ \A z \in S : h[z] \in Nat
    BY FS_Subset
  <2>2. Total(f, S) = f[x] + Total(f, S \ {x}) /\ Total(h, S) = h[x] + Total(h, S \ {x})
    BY <2>1, TotalTakes DEF Takes
  <2>3. y \in S \ {x}
    BY <1>2
  <2>4. Total(f, S \ {x}) = f[y] + Total(f, rest) /\ Total(h, S \ {x}) = h[y] + Total(h, rest)
    <3>1. Takes(f, S \ {x}) /\ Takes(h, S \ {x})
      BY <2>1, TotalTakes
    <3> QED BY <2>3, <3>1 DEF Takes
  <2>5. Total(f, rest) = Total(h, rest) /\ Total(f, rest) \in Nat
    BY <2>1, TotalSame, TotalType
  <2> HIDE DEF rest
  <2> QED BY <2>1, <2>2, <2>4, <2>5
<1> QED BY <1>1, <1>2
LEMMA Concatenation ==
  ASSUME NEW S, NEW s \in Seq(S), NEW t \in Seq(S)
  PROVE  /\ s \o t \in Seq(S) /\ Len(s \o t) = Len(s) + Len(t)
         /\ \A q \in 1..Len(s) : (s \o t)[q] = s[q]
         /\ \A q \in 1..Len(t) : (s \o t)[Len(s) + q] = t[q]
OBVIOUS

LEMMA FirstPart ==
  ASSUME NEW S, NEW s \in Seq(S), NEW m \in 0..Len(s)
  PROVE  /\ SubSeq(s, 1, m) \in Seq(S) /\ Len(SubSeq(s, 1, m)) = m
         /\ \A q \in 1..m : SubSeq(s, 1, m)[q] = s[q]
<1>1. Len(s) \in Nat /\ m \in Nat /\ m <= Len(s) /\ \A q \in 1..Len(s) : s[q] \in S
  OBVIOUS
<1>2. SubSeq(s, 1, m) = [q \in 1..m |-> s[q]]
  BY <1>1
<1>3. [q \in 1..m |-> s[q]] \in [1..m -> S]
  BY <1>1
<1> DEFINE t == [q \in 1..m |-> s[q]]
<1>4. t \in Seq(S) /\ Len(t) = m
  BY <1>1, <1>3
<1> QED BY <1>2, <1>4
-------------------------------------------------------------------------------
(* ---- the value of a code ----------------------------------------------- *)

(* What holds at k, and at each next number, holds up to l.                *)
LEMMA UpTo ==
  ASSUME NEW P, NEW k \in Nat, NEW l \in Nat, k \in P,
         \A i \in k..(l - 1) : i \in P => i + 1 \in P
  PROVE  \A i \in k..l : i \in P
<1> DEFINE Bad == {i \in k..l : i \notin P}
<1> SUFFICES ASSUME Bad # {} PROVE FALSE
  OBVIOUS
<1>1. PICK i \in Bad : \A j \in Bad : i <= j
  <2>1. Bad \subseteq Nat
    OBVIOUS
  <2> HIDE DEF Bad
  <2> QED BY <2>1, LeastNatural
<1>2. i \in k..l /\ i \notin P /\ i # k
  OBVIOUS
<1>3. i - 1 \in k..(l - 1) /\ i - 1 \in k..l /\ ~(i <= i - 1) /\ (i - 1) + 1 = i
  BY <1>2
<1>4. i - 1 \in P
  BY <1>1, <1>3
<1> QED BY <1>2, <1>3, <1>4

LEMMA CodesAssumed ==
  /\ MaxValues \in Nat /\ MaxValues > 0 /\ Modulus \in Nat /\ Modulus > 0
  /\ ByteBits \in Nat /\ ByteBits > 0
  /\ Codes!Symbols = 0..(Modulus - 1)
BY CodesAssumption DEF Codes!HuffmanAssumption, Codes!Symbols

LEMMA CodesNumbers ==
  /\ Codes!PowerOfTwo = PowerOfTwo
  /\ \A S : Codes!Cardinality(S) = Cardinality(S)
<1>1. Codes!PowerOfTwo = PowerOfTwo
  BY DEF Codes!PowerOfTwo, PowerOfTwo
<1>2. \A S : Codes!Cardinality(S) = Cardinality(S)
  BY DEF Codes!Cardinality, Cardinality
<1> QED BY <1>1, <1>2

(* Half of the space that is left after k bits.                            *)
Room(k) == PowerOfTwo[MaxValues - k]
IsCode(c) == c \in Seq({0, 1}) /\ Len(c) <= MaxValues

(* The value of the first k bits of a code, in units of 2^-MaxValues.      *)
Parts(c) == [j \in 1..Len(c) |-> c[j] * Room(j)]
Value(c, k) == Sums(Parts(c))[k]

LEMMA RoomIs ==
  /\ \A k \in 0..MaxValues : Room(k) \in Nat /\ Room(k) > 0
  /\ \A k \in 1..MaxValues : Room(k - 1) = 2 * Room(k)
  /\ Room(0) = PowerOfTwo[MaxValues]
<1>1. \A k \in 0..MaxValues : MaxValues - k \in Nat
  BY CodesAssumed
<1>2. PowerOfTwo \in [Nat -> Nat]
  BY PowersAre
<1>3. \A k \in 0..MaxValues : Room(k) \in Nat /\ Room(k) > 0
  BY <1>1, <1>2, PowersAre DEF Room
<1>4. ASSUME NEW k \in 1..MaxValues PROVE Room(k - 1) = 2 * Room(k)
  <2>1. MaxValues - (k - 1) = (MaxValues - k) + 1 /\ MaxValues - k \in Nat
    BY CodesAssumed
  <2> QED BY <2>1, PowersAre DEF Room
<1>5. MaxValues - 0 = MaxValues
  BY CodesAssumed
<1> QED BY <1>3, <1>4, <1>5 DEF Room

LEMMA ValueIs ==
  ASSUME NEW c, IsCode(c)
  PROVE  /\ Len(c) \in 0..MaxValues /\ Len(c) \in Nat
         /\ \A k \in 0..Len(c) : Value(c, k) \in Nat
         /\ Value(c, 0) = 0
         /\ \A k \in 1..Len(c) : /\ c[k] \in {0, 1} /\ Room(k) \in Nat /\ Room(k) > 0
                                 /\ Room(k - 1) = 2 * Room(k)
                                 /\ Value(c, k) = Value(c, k - 1) + c[k] * Room(k)
<1>1. c \in Seq({0, 1}) /\ Len(c) \in 0..MaxValues /\ Len(c) \in Nat
      /\ \A k \in 1..Len(c) : c[k] \in {0, 1}
  BY CodesAssumed DEF IsCode
<1>2. \A k \in 1..Len(c) : k \in 1..MaxValues /\ k \in 0..MaxValues
  BY <1>1, CodesAssumed
<1>3. \A k \in 1..Len(c) : Room(k) \in Nat /\ Room(k) > 0 /\ Room(k - 1) = 2 * Room(k)
  BY <1>2, RoomIs
<1>4. Parts(c) \in Seq(Nat) /\ Len(Parts(c)) = Len(c)
      /\ \A k \in 1..Len(c) : Parts(c)[k] = c[k] * Room(k)
  <2> DEFINE n == Len(c)
  <2>1. \A k \in 1..n : c[k] * Room(k) \in Nat
    BY <1>1, <1>3
  <2>2. Parts(c) = [j \in 1..n |-> c[j] * Room(j)] /\ n \in Nat
    BY <1>1 DEF Parts
  <2> HIDE DEF n
  <2> QED BY <2>1, <2>2 DEF n
<1>5. /\ Sums(Parts(c)) \in [0..Len(c) -> Nat] /\ Sums(Parts(c))[0] = 0
      /\ \A k \in 1..Len(c) : Sums(Parts(c))[k] = Sums(Parts(c))[k - 1] + Parts(c)[k]
  BY <1>4, SumsAre
<1> QED BY <1>1, <1>3, <1>4, <1>5 DEF Value

(* The values behind the first k bits stay inside the room of those bits.  *)
LEMMA ValueGrows ==
  ASSUME NEW c, IsCode(c), NEW k \in 0..Len(c), NEW l \in k..Len(c)
  PROVE  /\ Value(c, k) \in Nat /\ Value(c, l) \in Nat /\ Room(k) \in Nat /\ Room(l) \in Nat
         /\ Room(l) > 0 /\ Room(k) > 0
         /\ Value(c, k) <= Value(c, l) /\ Value(c, l) + Room(l) <= Value(c, k) + Room(k)
<1> DEFINE n == Len(c)
           P == {i \in k..n : /\ Value(c, k) <= Value(c, i)
                              /\ Value(c, i) + Room(i) <= Value(c, k) + Room(k)}
<1>1. n \in 0..MaxValues /\ n \in Nat /\ k \in Nat /\ l \in Nat /\ k <= l /\ l <= n
  BY ValueIs
<1>2. \A i \in 0..n : Value(c, i) \in Nat /\ Room(i) \in Nat /\ Room(i) > 0
  BY <1>1, ValueIs, RoomIs, CodesAssumed, SMTT(30)
<1>3. \A i \in 1..n : /\ c[i] \in {0, 1} /\ Room(i - 1) = 2 * Room(i)
                      /\ Value(c, i) = Value(c, i - 1) + c[i] * Room(i)
  BY ValueIs
<1> HIDE DEF n
<1>4. k \in P
  BY <1>1, <1>2
<1>5. ASSUME NEW i \in k..(l - 1), i \in P PROVE i + 1 \in P
  <2>1. i + 1 \in 1..n /\ (i + 1) - 1 = i /\ i \in 0..n /\ i + 1 \in k..n /\ i + 1 \in 0..n
    BY <1>1
  <2>2. /\ c[i + 1] \in {0, 1} /\ Room(i) = 2 * Room(i + 1)
        /\ Value(c, i + 1) = Value(c, i) + c[i + 1] * Room(i + 1)
    BY <1>3, <2>1
  <2>3. Value(c, k) \in Nat /\ Value(c, i) \in Nat /\ Room(i + 1) \in Nat /\ Room(k) \in Nat
    BY <1>1, <1>2, <2>1
  <2>4. c[i + 1] * Room(i + 1) \in {0, Room(i + 1)}
    BY <2>2, <2>3
  <2>5. Value(c, k) <= Value(c, i) /\ Value(c, i) + Room(i) <= Value(c, k) + Room(k)
    BY <1>5
  <2>6. Value(c, k) <= Value(c, i + 1) /\ Value(c, i + 1) + Room(i + 1) <= Value(c, k) + Room(k)
    <3> DEFINE t == c[i + 1] * Room(i + 1)
    <3>1. t \in {0, Room(i + 1)} /\ Value(c, i + 1) = Value(c, i) + t
      BY <2>2, <2>4
    <3>2. Room(i) = 2 * Room(i + 1)
      BY <2>2
    <3> HIDE DEF t
    <3> QED BY <2>3, <2>5, <3>1, <3>2
  <2> QED BY <2>1, <2>6
<1>6. \A i \in k..l : i \in P
  <2> HIDE DEF P
  <2> QED BY <1>1, <1>4, <1>5, UpTo
<1>7. l \in P
  BY <1>1, <1>6
<1> QED BY <1>1, <1>2, <1>7 DEF n

(* Zeros add nothing, ones leave only the last unit.                       *)
LEMMA ValueOfTail ==
  ASSUME NEW c, IsCode(c), NEW k \in 0..Len(c), NEW l \in k..Len(c)
  PROVE  /\ (\A j \in (k + 1)..l : c[j] = 0) => Value(c, l) = Value(c, k)
         /\ (\A j \in (k + 1)..l : c[j] = 1) => Value(c, l) + Room(l) = Value(c, k) + Room(k)
<1> DEFINE n == Len(c)
           Z == {i \in k..l : Value(c, i) = Value(c, k)}
           O == {i \in k..l : Value(c, i) + Room(i) = Value(c, k) + Room(k)}
<1>1. n \in Nat /\ k \in Nat /\ l \in Nat /\ k <= l /\ l <= n
  BY ValueIs
<1>2. \A i \in 1..n : /\ c[i] \in {0, 1} /\ Room(i - 1) = 2 * Room(i) /\ Room(i) \in Nat
                      /\ Value(c, i) = Value(c, i - 1) + c[i] * Room(i)
                      /\ Value(c, i - 1) \in Nat
  <2>1. \A i \in 1..n : i - 1 \in 0..n
    BY <1>1
  <2> QED BY <2>1, ValueIs
<1>3. \A i \in k..(l - 1) : /\ i + 1 \in 1..n /\ (i + 1) - 1 = i /\ i + 1 \in (k + 1)..l
                            /\ i + 1 \in k..l
  BY <1>1
<1> HIDE DEF n
<1>4. ASSUME \A j \in (k + 1)..l : c[j] = 0 PROVE Value(c, l) = Value(c, k)
  <2>1. k \in Z
    BY <1>1
  <2>2. ASSUME NEW i \in k..(l - 1), i \in Z PROVE i + 1 \in Z
    <3>1. Value(c, i + 1) = Value(c, i) + 0 * Room(i + 1) /\ Value(c, i) \in Nat /\ Room(i + 1) \in Nat
      BY <1>2, <1>3, <1>4
    <3>2. Value(c, i + 1) = Value(c, i)
      BY <3>1
    <3> QED BY <1>3, <2>2, <3>2
  <2>3. \A i \in k..l : i \in Z
    <3> HIDE DEF Z
    <3> QED BY <1>1, <2>1, <2>2, UpTo
  <2> QED BY <1>1, <2>3
<1>5. ASSUME \A j \in (k + 1)..l : c[j] = 1
      PROVE  Value(c, l) + Room(l) = Value(c, k) + Room(k)
  <2>1. k \in O
    BY <1>1
  <2>2. ASSUME NEW i \in k..(l - 1), i \in O PROVE i + 1 \in O
    <3>1. /\ Value(c, i + 1) = Value(c, i) + 1 * Room(i + 1) /\ Value(c, i) \in Nat
          /\ Room(i + 1) \in Nat /\ Room(i) = 2 * Room(i + 1)
      BY <1>2, <1>3, <1>5
    <3>2. Value(c, i + 1) + Room(i + 1) = Value(c, i) + Room(i)
      BY <3>1
    <3> QED BY <1>3, <2>2, <3>2
  <2>3. \A i \in k..l : i \in O
    <3> HIDE DEF O
    <3> QED BY <1>1, <2>1, <2>2, UpTo
  <2> QED BY <1>1, <2>3
<1> QED BY <1>4, <1>5

(* The value of a beginning does not depend on what is behind it.          *)
LEMMA ValueOfHead ==
  ASSUME NEW c, IsCode(c), NEW d, IsCode(d), NEW k \in 0..Len(c), k <= Len(d),
         \A j \in 1..k : c[j] = d[j]
  PROVE  Value(c, k) = Value(d, k)
<1> DEFINE P == {i \in 0..k : Value(c, i) = Value(d, i)}
<1>1. k \in Nat /\ Len(c) \in Nat /\ Len(d) \in Nat /\ k <= Len(c)
  BY ValueIs
<1>2. 0 \in P
  BY <1>1, ValueIs
<1>3. ASSUME NEW i \in 0..(k - 1), i \in P PROVE i + 1 \in P
  <2>1. i + 1 \in 1..k /\ i + 1 \in 1..Len(c) /\ i + 1 \in 1..Len(d) /\ (i + 1) - 1 = i /\ i + 1 \in 0..k
    BY <1>1
  <2>2. Value(c, i + 1) = Value(c, i) + c[i + 1] * Room(i + 1)
    BY <2>1, ValueIs
  <2>3. Value(d, i + 1) = Value(d, i) + d[i + 1] * Room(i + 1)
    BY <2>1, ValueIs
  <2>4. c[i + 1] = d[i + 1] /\ Value(c, i) = Value(d, i)
    BY <1>3, <2>1
  <2> QED BY <2>1, <2>2, <2>3, <2>4
<1>4. \A i \in 0..k : i \in P
  <2> HIDE DEF P
  <2> QED BY <1>1, <1>2, <1>3, UpTo
<1> QED BY <1>1, <1>4

(* Two codes of one length and value are the same.                         *)
LEMMA SameCode ==
  ASSUME NEW c, IsCode(c), NEW d, IsCode(d), Len(c) = Len(d),
         Value(c, Len(c)) = Value(d, Len(d))
  PROVE  c = d
<1> DEFINE n == Len(c)
           Apart == {j \in 1..n : c[j] # d[j]}
<1>1. n \in Nat /\ c = [j \in 1..n |-> c[j]] /\ d = [j \in 1..n |-> d[j]]
  BY DEF IsCode
<1>2. SUFFICES ASSUME Apart # {} PROVE FALSE
  <2>1. Apart = {} => \A j \in 1..n : c[j] = d[j]
    OBVIOUS
  <2> HIDE DEF n, Apart
  <2> QED BY <1>1, <2>1
<1>3. PICK j \in Apart : \A i \in Apart : j <= i
  <2>1. Apart \subseteq Nat
    OBVIOUS
  <2> HIDE DEF Apart
  <2> QED BY <1>2, <2>1, LeastNatural
<1>4. j \in 1..n /\ c[j] # d[j] /\ j - 1 \in 0..n /\ j \in 0..n /\ n \in j..n
  BY <1>1
<1>5. \A i \in 1..(j - 1) : c[i] = d[i]
  <2> TAKE i \in 1..(j - 1)
  <2>1. i \in 1..n /\ ~(j <= i)
    BY <1>4
  <2> QED BY <1>3, <2>1
<1>6. Value(c, j - 1) = Value(d, j - 1)
  BY <1>4, <1>5, ValueOfHead
<1>7. /\ Value(c, j) = Value(c, j - 1) + c[j] * Room(j) /\ Value(d, j) = Value(d, j - 1) + d[j] * Room(j)
      /\ c[j] \in {0, 1} /\ d[j] \in {0, 1} /\ Room(j) \in Nat /\ Room(j) > 0
      /\ Value(c, j - 1) \in Nat
  BY <1>4, ValueIs
<1>8. /\ Value(c, j) <= Value(c, n) /\ Value(c, n) + Room(n) <= Value(c, j) + Room(j)
      /\ Room(n) \in Nat /\ Room(n) > 0 /\ Value(c, n) \in Nat /\ Value(c, j) \in Nat
  BY <1>4, ValueGrows
<1>9. /\ Value(d, j) <= Value(d, n) /\ Value(d, n) + Room(n) <= Value(d, j) + Room(j)
      /\ Value(d, j) \in Nat
  BY <1>4, ValueGrows
<1>10. Value(c, n) = Value(d, n)
  OBVIOUS
<1> HIDE DEF n
<1>11. CASE c[j] = 0 /\ d[j] = 1
  <2>1. Value(c, j) = Value(c, j - 1) /\ Value(d, j) = Value(c, j - 1) + Room(j)
    BY <1>6, <1>7, <1>11
  <2> QED BY <1>7, <1>8, <1>9, <1>10, <2>1
<1>12. CASE c[j] = 1 /\ d[j] = 0
  <2>1. Value(d, j) = Value(c, j - 1) /\ Value(c, j) = Value(c, j - 1) + Room(j)
    BY <1>6, <1>7, <1>12
  <2> QED BY <1>7, <1>8, <1>9, <1>10, <2>1
<1> QED BY <1>4, <1>7, <1>11, <1>12

(* The codes that begin with c lie in its room.                            *)
LEMMA PrefixInside ==
  ASSUME NEW c, IsCode(c), NEW d, IsCode(d), Len(c) <= Len(d),
         \A j \in 1..Len(c) : c[j] = d[j]
  PROVE  /\ Value(c, Len(c)) <= Value(d, Len(d))
         /\ Value(d, Len(d)) + Room(Len(d)) <= Value(c, Len(c)) + Room(Len(c))
<1>1. Len(c) \in 0..Len(c) /\ Len(c) \in 0..Len(d) /\ Len(d) \in Len(c)..Len(d)
  BY ValueIs
<1>2. Value(c, Len(c)) = Value(d, Len(c))
  BY <1>1, ValueOfHead
<1> QED BY <1>1, <1>2, ValueGrows

(* A code that is filled with zeros keeps its value.                       *)
LEMMA FilledCode ==
  ASSUME NEW c, IsCode(c), NEW l \in Len(c)..MaxValues
  PROVE  LET d == c \o [i \in 1..(l - Len(c)) |-> 0]
         IN  IsCode(d) /\ Len(d) = l /\ Value(d, l) = Value(c, Len(c))
<1> DEFINE n == Len(c)
           zeros == [i \in 1..(l - n) |-> 0]
           d == c \o zeros
<1>1. n \in Nat /\ c \in Seq({0, 1}) /\ l - n \in Nat /\ l \in Nat /\ n <= l /\ l <= MaxValues
  BY ValueIs, CodesAssumed DEF IsCode
<1>2. zeros \in [1..(l - n) -> {0, 1}] /\ \A i \in 1..(l - n) : zeros[i] = 0
  OBVIOUS
<1> HIDE DEF n
<1>3. zeros \in Seq({0, 1}) /\ Len(zeros) = l - n
  <2> HIDE DEF zeros
  <2> QED BY <1>1, <1>2
<1> HIDE DEF zeros
<1>4. /\ d \in Seq({0, 1}) /\ Len(d) = n + (l - n)
      /\ \A q \in 1..n : d[q] = c[q]
      /\ \A q \in 1..(l - n) : d[n + q] = zeros[q]
  BY <1>1, <1>3, Concatenation DEF n
<1> HIDE DEF d
<1>5. Len(d) = l /\ IsCode(d)
  BY <1>1, <1>4 DEF IsCode
<1>6. \A j \in (n + 1)..l : d[j] = 0
  <2> TAKE j \in (n + 1)..l
  <2>1. j - n \in 1..(l - n) /\ n + (j - n) = j
    BY <1>1
  <2> QED BY <1>2, <1>4, <2>1
<1>7. n \in 0..l /\ l \in n..l /\ n \in 0..n
  BY <1>1
<1>8. Value(d, l) = Value(d, n)
  BY <1>5, <1>6, <1>7, ValueOfTail
<1>9. Value(c, n) = Value(d, n)
  <2>1. n \in 0..Len(c) /\ n <= Len(d)
    BY <1>1, <1>5, <1>7 DEF n
  <2> QED BY <1>4, <1>5, <2>1, ValueOfHead
<1> QED BY <1>5, <1>8, <1>9 DEF d, zeros, n

(* The next code of the same length, or the end of the space.              *)
LEMMA IncrementIs ==
  ASSUME NEW c, IsCode(c)
  PROVE  LET d == Codes!Increment(c)
         IN  /\ IsCode(d.code) /\ Len(d.code) = Len(c) /\ d.overflow \in BOOLEAN
             /\ d.overflow => /\ Value(d.code, Len(c)) = 0
                              /\ Value(c, Len(c)) + Room(Len(c)) = Room(0)
             /\ ~d.overflow => Value(d.code, Len(c)) = Value(c, Len(c)) + Room(Len(c))
<1> DEFINE n == Len(c)
           IsZero(i) == /\ i = 0 \/ c[i] = 0
                        /\ \A j \in (i + 1)..n : c[j] = 1
           z == CHOOSE i \in 0..n : IsZero(i)
           e == [j \in DOMAIN c |-> IF j < z THEN c[j] ELSE IF j = z THEN 1 ELSE 0]
<1>1. /\ n \in Nat /\ n <= MaxValues /\ c \in Seq({0, 1}) /\ DOMAIN c = 1..n
      /\ \A j \in 1..n : c[j] \in {0, 1}
  BY ValueIs DEF IsCode
<1>2. \E i \in 0..n : IsZero(i)
  <2> DEFINE Z == {i \in 0..n : i = 0 \/ c[i] = 0}
  <2>1. 0 \in Z /\ Z \subseteq 0..n
    BY <1>1
  <2>2. PICK i \in Z : \A j \in Z : j <= i
    <3> HIDE DEF Z
    <3> QED BY <1>1, <2>1, LargestNatural
  <2>3. i \in 0..n /\ (i = 0 \/ c[i] = 0)
    OBVIOUS
  <2>4. \A j \in (i + 1)..n : c[j] = 1
    <3> TAKE j \in (i + 1)..n
    <3>1. j \in 1..n /\ ~(j <= i) /\ j \in 0..n
      BY <1>1, <2>3
    <3>2. j \notin Z
      BY <2>2, <3>1
    <3> QED BY <1>1, <3>1, <3>2
  <2> QED BY <2>3, <2>4
<1>3. z \in 0..n /\ IsZero(z)
  <2> HIDE DEF IsZero
  <2> QED BY <1>2
<1> DEFINE r == Codes!Increment(c)
<1>4. r.code = e /\ (r.overflow <=> z = 0) /\ r.overflow \in BOOLEAN
  <2>1. r = [code |-> e, overflow |-> z = 0]
    BY DEF Codes!Increment
  <2> HIDE DEF r, e, z
  <2> QED BY <2>1
<1> HIDE DEF r
<1> HIDE DEF z
<1>5. (z = 0 \/ c[z] = 0) /\ \A j \in (z + 1)..n : c[j] = 1
  BY <1>3
<1>6. e \in [1..n -> {0, 1}] /\ \A j \in 1..n : e[j] = IF j < z THEN c[j] ELSE IF j = z THEN 1 ELSE 0
  BY <1>1
<1> HIDE DEF n, e
<1>7. e \in Seq({0, 1}) /\ Len(e) = n /\ IsCode(e)
  BY <1>1, <1>6 DEF IsCode
<1>8. z \in Nat /\ z <= n /\ n \in z..n /\ n \in 0..n /\ 0 \in 0..n
  BY <1>1, <1>3
<1>9. Value(c, n) + Room(n) = Value(c, z) + Room(z)
  BY <1>3, <1>5, <1>8, ValueOfTail DEF n
<1>10. Value(e, n) = Value(e, z)
  <2>1. \A j \in (z + 1)..n : e[j] = 0
    BY <1>1, <1>6, <1>8
  <2> QED BY <1>3, <1>7, <1>8, <2>1, ValueOfTail
<1>11. CASE z = 0
  <2>1. Value(e, n) = 0 /\ Value(c, n) + Room(n) = 0 + Room(0)
    BY <1>7, <1>9, <1>10, <1>11, ValueIs
  <2>2. Room(0) \in Nat
    BY RoomIs, CodesAssumed
  <2>3. Value(c, n) + Room(n) = Room(0)
    BY <2>1, <2>2
  <2> QED BY <1>4, <1>7, <1>11, <2>1, <2>3 DEF n, r
<1>12. CASE z # 0
  <2>1. z \in 1..n /\ z - 1 \in 0..n /\ \A j \in 1..(z - 1) : j \in 1..n /\ j < z
    BY <1>1, <1>8, <1>12
  <2>2. Value(e, z - 1) = Value(c, z - 1)
    <3>1. \A j \in 1..(z - 1) : e[j] = c[j]
      BY <1>6, <2>1
    <3>2. z - 1 \in 0..Len(e) /\ z - 1 <= Len(c)
      BY <1>1, <1>7, <2>1 DEF n
    <3> QED BY <1>7, <3>1, <3>2, ValueOfHead
  <2>3. Value(e, z) = Value(e, z - 1) + 1 * Room(z) /\ Room(z) \in Nat /\ Value(e, z - 1) \in Nat
    <3>1. e[z] = 1
      BY <1>6, <2>1
    <3> QED BY <1>7, <2>1, <3>1, ValueIs
  <2>4. Value(c, z) = Value(c, z - 1) + 0 * Room(z)
    BY <1>5, <1>12, <2>1, ValueIs DEF n
  <2>5. Value(e, n) = Value(c, n) + Room(n)
    <3>1. Value(c, z) = Value(c, z - 1) /\ Value(e, z) = Value(c, z - 1) + Room(z)
      BY <2>2, <2>3, <2>4
    <3>2. Value(c, n) \in Nat /\ Room(n) \in Nat /\ Value(c, z - 1) \in Nat
      BY <1>8, <2>2, <2>3, ValueGrows DEF n
    <3> QED BY <1>9, <1>10, <2>3, <3>1, <3>2
  <2> QED BY <1>4, <1>7, <1>12, <2>5 DEF n, r
<1> QED BY <1>11, <1>12

-------------------------------------------------------------------------------
(* ---- the codes of a table ---------------------------------------------- *)

(* A table that TableFits, or that the encoder wrote.                      *)
TableIs(t) ==
  /\ IsFiniteSet(DOMAIN t)
  /\ \A k \in DOMAIN t : t[k].symbol \in Codes!Symbols /\ t[k].length \in 1..MaxValues
  /\ \A k, l \in DOMAIN t : t[k].symbol = t[l].symbol => k = l

(* The entries that get their codes before k, and the room they take.      *)
Ahead(t, k) == {j \in DOMAIN t : Codes!Shorter(t[j], t[k])}
Weights(t) == [k \in DOMAIN t |-> Room(t[k].length)]

IsCodeOf(t, k, c) ==
  /\ c = [symbol |-> t[k].symbol, code |-> c.code]
  /\ IsCode(c.code) /\ Len(c.code) = t[k].length
  /\ Value(c.code, t[k].length) = Total(Weights(t), Ahead(t, k))
Canonical(t, cs, K) ==
  /\ \A c \in cs : \E k \in K : IsCodeOf(t, k, c)
  /\ \A k \in K : \E c \in cs : IsCodeOf(t, k, c)

Assigned == {k \in DOMAIN table : table[k] \notin pending}
Spent(K) == Total(Weights(table), K)

CanonInv ==
  /\ TableIs(table)
  /\ \A e \in pending : \E k \in DOMAIN table : e = table[k]
  /\ IsCode(following) /\ overflow \in BOOLEAN
  /\ \A e \in pending : Len(following) <= e.length
  /\ \A k \in Assigned : \A e \in pending : Codes!Shorter(table[k], e)
  /\ overflow => Value(following, Len(following)) = 0 /\ Spent(Assigned) = Room(0)
  /\ ~overflow => Spent(Assigned) = Value(following, Len(following))
  /\ Canonical(table, codes, Assigned)

LEMMA ShorterOrders ==
  ASSUME NEW t, TableIs(t), NEW j \in DOMAIN t, NEW k \in DOMAIN t
  PROVE  /\ ~Codes!Shorter(t[j], t[j])
         /\ j # k => (Codes!Shorter(t[j], t[k]) <=> ~Codes!Shorter(t[k], t[j]))
         /\ \A l \in DOMAIN t : Codes!Shorter(t[j], t[k]) /\ Codes!Shorter(t[k], t[l])
                                  => Codes!Shorter(t[j], t[l])
         /\ Codes!Shorter(t[j], t[k]) => t[j].length <= t[k].length
<1>1. \A l \in DOMAIN t : t[l].symbol \in Int /\ t[l].length \in Int
  BY CodesAssumed DEF TableIs
<1>2. j # k => t[j].symbol # t[k].symbol
  BY DEF TableIs
<1> QED BY <1>1, <1>2 DEF Codes!Shorter

(* The room taken by a set of entries.                                     *)
LEMMA RoomTaken ==
  ASSUME NEW t, TableIs(t), NEW A, A \subseteq DOMAIN t
  PROVE  /\ IsFiniteSet(A) /\ Total(Weights(t), A) \in Nat
         /\ \A k \in DOMAIN t : Weights(t)[k] = Room(t[k].length) /\ Room(t[k].length) \in Nat
                                /\ Room(t[k].length) > 0
         /\ \A k \in DOMAIN t \ A :
              Total(Weights(t), A \cup {k}) = Room(t[k].length) + Total(Weights(t), A)
         /\ \A B : B \subseteq DOMAIN t /\ A \subseteq B =>
              Total(Weights(t), A) <= Total(Weights(t), B)
<1>1. \A k \in DOMAIN t : Weights(t)[k] = Room(t[k].length) /\ Room(t[k].length) \in Nat
                          /\ Room(t[k].length) > 0
  <2> TAKE k \in DOMAIN t
  <2>1. t[k].length \in 0..MaxValues
    BY CodesAssumed DEF TableIs
  <2> QED BY <2>1, RoomIs DEF Weights
<1> DEFINE f == Weights(t)
           D == DOMAIN t
<1>2. IsFiniteSet(D) /\ \A k \in D : f[k] \in Nat
  BY <1>1 DEF TableIs
<1> HIDE DEF f, D
<1>3. \A B \in SUBSET D : IsFiniteSet(B) /\ Total(f, B) \in Nat
  <2> TAKE B \in SUBSET D
  <2>1. IsFiniteSet(B)
    BY <1>2, FS_Subset
  <2>2. \A k \in B : f[k] \in Nat
    BY <1>2
  <2> QED BY <2>1, <2>2, TotalType
<1>4. A \in SUBSET D
  BY DEF D
<1>5. ASSUME NEW k \in D \ A PROVE Total(f, A \cup {k}) = f[k] + Total(f, A)
  <2>1. \A y \in A \cup {k} : f[y] \in Nat
    BY <1>2, <1>4
  <2> QED BY <1>3, <1>4, <2>1, TotalWith
<1>6. ASSUME NEW B, B \subseteq D, A \subseteq B PROVE Total(f, A) <= Total(f, B)
  <2> DEFINE C == B \ A
  <2>1. C \in SUBSET D /\ A \cap C = {} /\ B = A \cup C
    BY <1>6
  <2> HIDE DEF C
  <2>2. \A y \in A \cup C : f[y] \in Nat
    BY <1>2, <1>4, <2>1
  <2>3. Total(f, A \cup C) = Total(f, A) + Total(f, C) /\ Total(f, C) \in Nat /\ Total(f, A) \in Nat
    BY <1>3, <1>4, <2>1, <2>2, TotalUnion
  <2> QED BY <2>1, <2>3
<1> QED BY <1>1, <1>3, <1>4, <1>5, <1>6 DEF f, D

(* The rooms of two codes of a table do not meet.                          *)
LEMMA RoomsApart ==
  ASSUME NEW t, TableIs(t), NEW j \in DOMAIN t, NEW k \in DOMAIN t,
         Codes!Shorter(t[j], t[k])
  PROVE  /\ Total(Weights(t), Ahead(t, j)) \in Nat /\ Total(Weights(t), Ahead(t, k)) \in Nat
         /\ Room(t[j].length) \in Nat /\ Room(t[j].length) > 0
         /\ Total(Weights(t), Ahead(t, j)) + Room(t[j].length) <= Total(Weights(t), Ahead(t, k))
<1>1. Ahead(t, j) \subseteq DOMAIN t /\ Ahead(t, k) \subseteq DOMAIN t
  BY DEF Ahead
<1>2. j \notin Ahead(t, j) /\ Ahead(t, j) \cup {j} \subseteq Ahead(t, k)
  BY ShorterOrders DEF Ahead
<1>3. Total(Weights(t), Ahead(t, j) \cup {j}) = Room(t[j].length) + Total(Weights(t), Ahead(t, j))
  BY <1>1, <1>2, RoomTaken
<1>4. Total(Weights(t), Ahead(t, j) \cup {j}) <= Total(Weights(t), Ahead(t, k))
  <2>1. Ahead(t, j) \cup {j} \subseteq DOMAIN t
    BY <1>1
  <2> QED BY <1>1, <1>2, <2>1, RoomTaken
<1>5. /\ Total(Weights(t), Ahead(t, j)) \in Nat /\ Total(Weights(t), Ahead(t, k)) \in Nat
      /\ Room(t[j].length) \in Nat /\ Room(t[j].length) > 0
  BY <1>1, RoomTaken
<1> QED BY <1>3, <1>4, <1>5

(* No code of a table is the beginning of another one.                     *)
LEMMA PrefixFree ==
  ASSUME NEW t, TableIs(t), NEW j \in DOMAIN t, NEW k \in DOMAIN t, NEW c, NEW d,
         IsCodeOf(t, j, c), IsCodeOf(t, k, d), Len(c.code) <= Len(d.code),
         \A i \in 1..Len(c.code) : c.code[i] = d.code[i]
  PROVE  c = d /\ j = k
<1> DEFINE u == Total(Weights(t), Ahead(t, j))
           v == Total(Weights(t), Ahead(t, k))
           a == t[j].length
           b == t[k].length
<1>1. /\ IsCode(c.code) /\ IsCode(d.code) /\ Len(c.code) = a /\ Len(d.code) = b
      /\ Value(c.code, a) = u /\ Value(d.code, b) = v
  BY DEF IsCodeOf
<1>2. u <= v /\ v + Room(b) <= u + Room(a)
  <2> HIDE DEF u, v, a, b
  <2> QED BY <1>1, PrefixInside
<1>3. Room(a) \in Nat /\ Room(b) \in Nat /\ Room(b) > 0 /\ Room(a) > 0 /\ u \in Nat /\ v \in Nat
  <2>1. Ahead(t, j) \subseteq DOMAIN t /\ Ahead(t, k) \subseteq DOMAIN t
    BY DEF Ahead
  <2> QED BY <2>1, RoomTaken
<1>4. ~Codes!Shorter(t[j], t[k])
  <2> SUFFICES ASSUME Codes!Shorter(t[j], t[k]) PROVE FALSE
    OBVIOUS
  <2>1. u + Room(a) <= v
    BY RoomsApart
  <2> HIDE DEF u, v, a, b
  <2> QED BY <1>2, <1>3, <2>1
<1>5. ~Codes!Shorter(t[k], t[j])
  <2> SUFFICES ASSUME Codes!Shorter(t[k], t[j]) PROVE FALSE
    OBVIOUS
  <2>1. v + Room(b) <= u
    BY RoomsApart
  <2> HIDE DEF u, v, a, b
  <2> QED BY <1>2, <1>3, <2>1
<1>6. j = k
  BY <1>4, <1>5, ShorterOrders
<1>7. c.code = d.code
  <2>1. Len(c.code) = Len(d.code) /\ Value(c.code, Len(c.code)) = Value(d.code, Len(d.code))
    BY <1>1, <1>6
  <2> QED BY <1>1, <2>1, SameCode
<1> QED BY <1>6, <1>7 DEF IsCodeOf

-------------------------------------------------------------------------------
(* ---- huffman.cpp:28-44 -------------------------------------------------- *)

(* Before the first code.                                                  *)
LEMMA CodesStart ==
  ASSUME TableIs(table'), pending' = {table'[k] : k \in DOMAIN table'},
         following' = <<>>, overflow' = FALSE, codes' = {}
  PROVE  CanonInv'
<1>1. IsCode(<<>>) /\ Len(<<>>) = 0
  BY CodesAssumed DEF IsCode
<1>2. Value(<<>>, 0) = 0
  BY <1>1, ValueIs
<1>3. Assigned' = {}
  BY DEF Assigned
<1>4. Spent(Assigned)' = 0
  BY <1>3, TotalEmpty DEF Spent
<1>5. \A e \in pending' : Len(<<>>) <= e.length
  BY <1>1, CodesAssumed DEF TableIs
<1>6. Canonical(table', codes', Assigned')
  BY <1>3 DEF Canonical
<1> QED BY <1>1, <1>2, <1>3, <1>4, <1>5, <1>6 DEF CanonInv

(* The entry whose turn it is.                                             *)
LEMMA FirstIs ==
  ASSUME TableIs(table), pending # {}, \A e \in pending : \E k \in DOMAIN table : e = table[k]
  PROVE  \E k \in DOMAIN table :
           /\ Codes!First = table[k] /\ table[k] \in pending
           /\ \A e \in pending \ {table[k]} : Codes!Shorter(table[k], e)
<1> DEFINE IsFirst(x) == \A y \in pending \ {x} : Codes!Shorter(x, y)
           Lengths == {e.length : e \in pending}
           Symbols(n) == {s \in Nat : \E e \in pending : e.length = n /\ e.symbol = s}
<1>1. \A e \in pending : e.length \in Nat /\ e.symbol \in Nat
  BY CodesAssumed DEF TableIs
<1>2. PICK n \in Lengths : \A m \in Lengths : n <= m
  <2>1. Lengths \subseteq Nat /\ Lengths # {}
    BY <1>1
  <2> HIDE DEF Lengths
  <2> QED BY <2>1, LeastNatural
<1>3. \E e \in pending : e.length = n
  OBVIOUS
<1>4. PICK s \in Symbols(n) : \A m \in Symbols(n) : s <= m
  <2>1. Symbols(n) \subseteq Nat /\ Symbols(n) # {}
    BY <1>1, <1>3
  <2> HIDE DEF Symbols
  <2> QED BY <2>1, LeastNatural
<1>5. PICK x \in pending : x.length = n /\ x.symbol = s
  BY <1>4
<1>6. IsFirst(x)
  <2> TAKE y \in pending \ {x}
  <2>1. y.length \in Lengths /\ n <= y.length
    BY <1>2
  <2>2. y.symbol # s
    BY <1>5 DEF TableIs
  <2>3. y.length = n => s <= y.symbol
    BY <1>1, <1>4
  <2> QED BY <1>1, <1>5, <2>1, <2>2, <2>3 DEF Codes!Shorter
<1>7. Codes!First \in pending /\ IsFirst(Codes!First)
  <2>1. Codes!First = CHOOSE z \in pending : IsFirst(z)
    BY DEF Codes!First
  <2> HIDE DEF IsFirst
  <2> QED BY <1>6, <2>1
<1> QED BY <1>7

LEMMA AssignCodeKeeps == CanonInv /\ Codes!AssignCode => CanonInv'
<1> SUFFICES ASSUME CanonInv, Codes!AssignCode PROVE CanonInv'
  OBVIOUS
<1>1. PICK k \in DOMAIN table :
        /\ Codes!First = table[k] /\ table[k] \in pending
        /\ \A e \in pending \ {table[k]} : Codes!Shorter(table[k], e)
  BY FirstIs DEF CanonInv, Codes!AssignCode
<1> DEFINE f == table[k]
           l == f.length
           code == following \o [i \in 1..(l - Len(following)) |-> 0]
           next == Codes!Increment(code)
           new == [symbol |-> f.symbol, code |-> code]
<1>2. /\ pending # {} /\ ~overflow /\ l >= Len(following)
      /\ codes' = codes \cup {new}
      /\ following' = next.code /\ overflow' = next.overflow
      /\ pending' = pending \ {f} /\ table' = table
  BY <1>1 DEF Codes!AssignCode, Codes!Fits, Codes!streamVars
<1>3. /\ TableIs(table) /\ IsCode(following) /\ l \in 1..MaxValues /\ l \in 0..MaxValues
      /\ Spent(Assigned) = Value(following, Len(following))
  BY <1>2, CodesAssumed DEF CanonInv, TableIs
<1>4. IsCode(code) /\ Len(code) = l /\ Value(code, l) = Value(following, Len(following))
  <2>1. l \in Len(following)..MaxValues
    BY <1>2, <1>3, ValueIs
  <2> QED BY <1>3, <2>1, FilledCode
<1> HIDE DEF code
<1>5. /\ IsCode(next.code) /\ Len(next.code) = l /\ next.overflow \in BOOLEAN
      /\ next.overflow => Value(next.code, l) = 0 /\ Value(code, l) + Room(l) = Room(0)
      /\ ~next.overflow => Value(next.code, l) = Value(code, l) + Room(l)
  BY <1>4, IncrementIs
<1> HIDE DEF next
<1>6. Assigned' = Assigned \cup {k} /\ k \notin Assigned
  <2>1. \A j \in DOMAIN table : table[j] = f => j = k
    BY <1>3 DEF TableIs
  <2> QED BY <1>1, <1>2, <2>1 DEF Assigned
<1>7. Assigned = Ahead(table, k)
  <2>1. ASSUME NEW j \in Assigned PROVE j \in Ahead(table, k)
    BY <1>1 DEF CanonInv, Ahead, Assigned
  <2>2. ASSUME NEW j \in Ahead(table, k) PROVE j \in Assigned
    <3>1. j \in DOMAIN table /\ Codes!Shorter(table[j], table[k])
      BY DEF Ahead
    <3>2. j # k /\ ~Codes!Shorter(table[k], table[j])
      BY <1>3, <3>1, ShorterOrders
    <3>3. table[j] # table[k]
      BY <1>3, <3>1, <3>2 DEF TableIs
    <3> QED BY <1>1, <3>1, <3>2, <3>3 DEF Assigned
  <2> QED BY <2>1, <2>2
<1>8. /\ Spent(Assigned \cup {k}) = Room(l) + Spent(Assigned)
      /\ Spent(Assigned) \in Nat /\ Room(l) \in Nat
  <2>1. Assigned \subseteq DOMAIN table /\ k \in DOMAIN table \ Assigned
    BY <1>6 DEF Assigned
  <2> QED BY <1>3, <2>1, RoomTaken DEF Spent
<1>9. Spent(Assigned)' = Room(l) + Value(code, l) /\ Value(code, l) \in Nat
  BY <1>2, <1>3, <1>4, <1>6, <1>8 DEF Spent
<1>10. /\ overflow' => Value(following', Len(following')) = 0 /\ Spent(Assigned)' = Room(0)
       /\ ~overflow' => Spent(Assigned)' = Value(following', Len(following'))
  BY <1>2, <1>5, <1>8, <1>9
<1>11. \A e \in pending' : Len(following') <= e.length
  <2> TAKE e \in pending'
  <2>1. PICK j \in DOMAIN table : e = table[j]
    BY <1>2 DEF CanonInv
  <2>2. Codes!Shorter(table[k], table[j])
    BY <1>1, <1>2, <2>1
  <2> QED BY <1>2, <1>3, <1>5, <2>1, <2>2, ShorterOrders
<1>12. \A j \in Assigned' : \A e \in pending' : Codes!Shorter(table'[j], e)
  BY <1>1, <1>2, <1>6 DEF CanonInv
<1>13. IsCodeOf(table, k, new)
  <2>1. new.code = code /\ new.symbol = f.symbol
    OBVIOUS
  <2>2. Value(code, l) = Total(Weights(table), Ahead(table, k))
    BY <1>3, <1>4, <1>7 DEF Spent
  <2> QED BY <1>4, <2>1, <2>2 DEF IsCodeOf
<1>14. Canonical(table', codes', Assigned')
  <2> HIDE DEF new
  <2> QED BY <1>2, <1>6, <1>13 DEF CanonInv, Canonical
<1>15. \A e \in pending' : \E j \in DOMAIN table' : e = table'[j]
  BY <1>2 DEF CanonInv
<1> QED BY <1>2, <1>3, <1>5, <1>10, <1>11, <1>12, <1>14, <1>15 DEF CanonInv

(* The room the lengths of the table take, as the property names it.       *)
LEMMA SpaceIs ==
  ASSUME TableIs(table)
  PROVE  /\ Codes!Kraft([k \in DOMAIN table |-> table[k].length]) = Spent(DOMAIN table)
         /\ Codes!WholeSpace = Room(0) /\ Spent(DOMAIN table) \in Nat /\ Room(0) \in Nat
<1> DEFINE lengths == [k \in DOMAIN table |-> table[k].length]
           g == [k \in DOMAIN lengths |-> Codes!PowerOfTwo[MaxValues - lengths[k]]]
<1>1. g = Weights(table) /\ DOMAIN g = DOMAIN table
  BY CodesNumbers DEF Weights, Room
<1>2. Codes!Kraft(lengths) = Codes!SumFunction(g)
  BY DEF Codes!Kraft
<1> HIDE DEF g, lengths
<1>3. Codes!Kraft(lengths) = Total(Weights(table), DOMAIN table)
  BY <1>1, <1>2, SumIsTotal
<1>4. Codes!WholeSpace = Room(0) /\ Room(0) \in Nat
  BY RoomIs, CodesNumbers, CodesAssumed DEF Codes!WholeSpace
<1>5. Spent(DOMAIN table) \in Nat
  BY RoomTaken DEF Spent
<1> QED BY <1>3, <1>4, <1>5 DEF Spent, lengths

(* A refused table takes more than the whole space.                        *)
LEMMA RefusedTable ==
  ASSUME CanonInv, pending # {}, ~Codes!Fits
  PROVE  Codes!Kraft([k \in DOMAIN table |-> table[k].length]) > Codes!WholeSpace
<1>1. PICK k \in DOMAIN table : Codes!First = table[k] /\ table[k] \in pending
  BY FirstIs DEF CanonInv
<1>2. TableIs(table) /\ Len(following) <= table[k].length
  BY <1>1 DEF CanonInv
<1>3. overflow /\ Spent(Assigned) = Room(0)
  <2>1. Len(following) \in Int /\ table[k].length \in Int
    BY <1>2, ValueIs DEF CanonInv, TableIs
  <2> QED BY <1>1, <1>2, <2>1 DEF CanonInv, Codes!Fits
<1>4. k \notin Assigned /\ Assigned \subseteq DOMAIN table
  BY <1>1 DEF Assigned
<1>5. /\ Spent(Assigned \cup {k}) = Room(table[k].length) + Spent(Assigned)
      /\ Room(table[k].length) \in Nat /\ Room(table[k].length) > 0 /\ Spent(Assigned) \in Nat
  BY <1>2, <1>4, RoomTaken DEF Spent
<1>6. Spent(Assigned \cup {k}) <= Spent(DOMAIN table)
  <2>1. Assigned \cup {k} \subseteq DOMAIN table
    BY <1>4
  <2> QED BY <1>2, <2>1, RoomTaken DEF Spent
<1> QED BY <1>2, <1>3, <1>5, <1>6, SpaceIs

(* A table that has all its codes takes no more, and they are prefix-free. *)
LEMMA FinishedTable ==
  ASSUME CanonInv, pending = {}
  PROVE  /\ Codes!Kraft([k \in DOMAIN table |-> table[k].length]) <= Codes!WholeSpace
         /\ Canonical(table, codes, DOMAIN table)
<1>1. Assigned = DOMAIN table /\ TableIs(table)
  BY DEF Assigned, CanonInv
<1>2. Spent(DOMAIN table) <= Room(0)
  <2>1. CASE overflow
    BY <1>1, <2>1, RoomIs, CodesAssumed DEF CanonInv
  <2>2. CASE ~overflow
    <3>1. IsCode(following) /\ Spent(DOMAIN table) = Value(following, Len(following))
      BY <1>1, <2>2 DEF CanonInv
    <3>2. Len(following) \in 0..Len(following) /\ 0 \in 0..Len(following)
      BY <3>1, ValueIs
    <3>3. Value(following, Len(following)) + Room(Len(following)) <= Value(following, 0) + Room(0)
          /\ Value(following, Len(following)) \in Nat /\ Room(Len(following)) \in Nat /\ Room(0) \in Nat
      BY <3>1, <3>2, ValueGrows
    <3>4. Value(following, 0) = 0
      BY <3>1, ValueIs
    <3> QED BY <3>1, <3>3, <3>4
  <2> QED BY <2>1, <2>2
<1> QED BY <1>1, <1>2, SpaceIs DEF CanonInv

LEMMA CanonicalPrefixFree ==
  ASSUME NEW t, TableIs(t), NEW cs, Canonical(t, cs, DOMAIN t), NEW c \in cs, NEW d \in cs
  PROVE  /\ Codes!IsPrefix(c.code, d.code) => c = d
         /\ c.symbol = d.symbol => c = d
<1>1. PICK j \in DOMAIN t : IsCodeOf(t, j, c)
  BY DEF Canonical
<1>2. PICK k \in DOMAIN t : IsCodeOf(t, k, d)
  BY DEF Canonical
<1>3. IsCode(c.code) /\ IsCode(d.code)
  BY <1>1, <1>2 DEF IsCodeOf
<1>4. ASSUME Codes!IsPrefix(c.code, d.code) PROVE c = d
  <2> DEFINE n == Len(c.code)
  <2>1. n <= Len(d.code) /\ SubSeq(c.code, 1, n) = SubSeq(d.code, 1, n)
    BY <1>4 DEF Codes!IsPrefix
  <2>2. n \in Nat /\ Len(d.code) \in Nat /\ c.code \in Seq({0, 1}) /\ d.code \in Seq({0, 1})
    BY <1>3 DEF IsCode
  <2> HIDE DEF n
  <2>3. /\ \A q \in 1..n : SubSeq(c.code, 1, n)[q] = c.code[q]
        /\ \A q \in 1..n : SubSeq(d.code, 1, n)[q] = d.code[q]
    <3>1. n \in 0..Len(c.code) /\ n \in 0..Len(d.code)
      BY <2>1, <2>2 DEF n
    <3> QED BY <2>2, <3>1, FirstPart
  <2>4. \A q \in 1..n : c.code[q] = d.code[q]
    BY <2>1, <2>3
  <2> QED BY <1>1, <1>2, <2>1, <2>4, PrefixFree DEF n
<1>5. ASSUME c.symbol = d.symbol PROVE c = d
  <2>1. t[j].symbol = t[k].symbol
    BY <1>1, <1>2, <1>5 DEF IsCodeOf
  <2>2. j = k
    BY <2>1 DEF TableIs
  <2>3. c.code = d.code
    <3>1. Len(c.code) = Len(d.code) /\ Value(c.code, Len(c.code)) = Value(d.code, Len(d.code))
      BY <1>1, <1>2, <2>2 DEF IsCodeOf
    <3> QED BY <1>3, <3>1, SameCode
  <2> QED BY <1>1, <1>2, <2>2, <2>3 DEF IsCodeOf
<1> QED BY <1>4, <1>5

-------------------------------------------------------------------------------
(* ---- the differences ---------------------------------------------------- *)

IsArray(a) == a \in Seq(Codes!Symbols) /\ Len(a) <= MaxValues
Last(a) == IF a = <<>> THEN 0 ELSE a[Len(a)]

LEMMA RemainderIs ==
  ASSUME NEW d \in Nat, d > 0, NEW q \in Int, NEW r \in 0..(d - 1), NEW v \in Int, v = q * d + r
  PROVE  v % d = r
<1>1. v % d \in 0..(d - 1) /\ v \div d \in Int /\ v = (v \div d) * d + (v % d)
  BY Z3
<1> DEFINE p == v \div d
           s == v % d
<1>2. p \in Int /\ s \in 0..(d - 1) /\ v = p * d + s
  BY <1>1
<1> HIDE DEF p, s
<1>3. p * d \in Int /\ q * d \in Int
  BY <1>2
<1>4. ASSUME NEW m \in Int, NEW n \in Int, m < n PROVE n * d >= m * d + d
  <2>1. n - m \in Nat /\ n - m >= 1 /\ n = m + (n - m)
    BY <1>4
  <2>2. (n - m) * d >= d
    BY <2>1
  <2>3. n * d = m * d + (n - m) * d
    BY <2>1
  <2>4. m * d \in Int /\ n * d \in Int /\ (n - m) * d \in Int
    BY <2>1
  <2> QED BY <2>2, <2>3, <2>4
<1>5. ~(p < q)
  <2> SUFFICES ASSUME p < q PROVE FALSE
    OBVIOUS
  <2>1. q * d >= p * d + d
    BY <1>2, <1>4
  <2> QED BY <1>2, <1>3, <2>1
<1>6. ~(q < p)
  <2> SUFFICES ASSUME q < p PROVE FALSE
    OBVIOUS
  <2>1. p * d >= q * d + d
    BY <1>2, <1>4
  <2> QED BY <1>2, <1>3, <2>1
<1>7. p = q
  BY <1>2, <1>5, <1>6
<1>8. s = r
  BY <1>2, <1>3, <1>7
<1> QED BY <1>8 DEF s

LEMMA StepBack ==
  ASSUME NEW p \in Codes!Symbols, NEW v \in Codes!Symbols
  PROVE  /\ (p + v) % Modulus \in Codes!Symbols
         /\ (v - p) % Modulus \in Codes!Symbols
         /\ (((p + v) % Modulus) - p) % Modulus = v
         /\ (p + ((v - p) % Modulus)) % Modulus = v
<1> DEFINE M == Modulus
<1>1. M \in Nat /\ M > 0 /\ p \in 0..(M - 1) /\ v \in 0..(M - 1)
  BY CodesAssumed
<1> HIDE DEF M
<1>2. ASSUME p + v < M
      PROVE  (p + v) % M \in 0..(M - 1) /\ (((p + v) % M) - p) % M = v
  <2>1. (p + v) % M = p + v
    <3>1. p + v \in 0..(M - 1) /\ 0 \in Int /\ p + v \in Int /\ p + v = 0 * M + (p + v)
      BY <1>1, <1>2
    <3> QED BY <1>1, <3>1, RemainderIs
  <2>2. v % M = v
    <3>1. 0 \in Int /\ v \in Int /\ v = 0 * M + v
      BY <1>1
    <3> QED BY <1>1, <3>1, RemainderIs
  <2>3. (p + v) - p = v
    BY <1>1
  <2> QED BY <1>1, <1>2, <2>1, <2>2, <2>3
<1>3. ASSUME p + v >= M
      PROVE  (p + v) % M \in 0..(M - 1) /\ (((p + v) % M) - p) % M = v
  <2>1. (p + v) % M = p + v - M
    <3>1. p + v - M \in 0..(M - 1) /\ 1 \in Int /\ p + v \in Int /\ p + v = 1 * M + (p + v - M)
      BY <1>1, <1>3
    <3> QED BY <1>1, <3>1, RemainderIs
  <2>2. (v - M) % M = v
    <3>1. -1 \in Int /\ v - M \in Int /\ v - M = (-1) * M + v
      BY <1>1
    <3> QED BY <1>1, <3>1, RemainderIs
  <2>3. (p + v - M) - p = v - M /\ p + v - M \in 0..(M - 1)
    BY <1>1, <1>3
  <2> QED BY <1>1, <1>3, <2>1, <2>2, <2>3
<1>4. /\ (v - p) % M \in 0..(M - 1)
      /\ (p + ((v - p) % M)) % M = v
  <2>1. CASE v >= p
    <3>1. (v - p) % M = v - p
      <4>1. v - p \in 0..(M - 1) /\ 0 \in Int /\ v - p \in Int /\ v - p = 0 * M + (v - p)
        BY <1>1, <2>1
      <4> QED BY <1>1, <4>1, RemainderIs
    <3>2. v % M = v
      <4>1. 0 \in Int /\ v \in Int /\ v = 0 * M + v
        BY <1>1
      <4> QED BY <1>1, <4>1, RemainderIs
    <3>3. p + (v - p) = v /\ v - p \in 0..(M - 1)
      BY <1>1, <2>1
    <3> QED BY <1>1, <3>1, <3>2, <3>3
  <2>2. CASE v < p
    <3>1. (v - p) % M = v - p + M
      <4>1. v - p + M \in 0..(M - 1) /\ -1 \in Int /\ v - p \in Int /\ v - p = (-1) * M + (v - p + M)
        BY <1>1, <2>2
      <4> QED BY <1>1, <4>1, RemainderIs
    <3>2. (v + M) % M = v
      <4>1. 1 \in Int /\ v + M \in Int /\ v + M = 1 * M + v
        BY <1>1
      <4> QED BY <1>1, <4>1, RemainderIs
    <3>3. p + (v - p + M) = v + M /\ v - p + M \in 0..(M - 1)
      BY <1>1, <2>2
    <3> QED BY <1>1, <3>1, <3>2, <3>3
  <2> QED BY <1>1, <2>1, <2>2
<1>5. (p + v) % M \in 0..(M - 1) /\ (((p + v) % M) - p) % M = v
  <2>1. p + v < M \/ p + v >= M
    BY <1>1
  <2> QED BY <1>2, <1>3, <2>1
<1> QED BY <1>4, <1>5, CodesAssumed DEF M

LEMMA DeltasAre ==
  ASSUME NEW a, IsArray(a)
  PROVE  /\ Len(a) \in 0..MaxValues /\ Len(a) \in Nat /\ Last(a) \in Codes!Symbols
         /\ Codes!Deltas(a) \in Seq(Codes!Symbols) /\ Len(Codes!Deltas(a)) = Len(a)
         /\ \A i \in 1..Len(a) : Codes!Deltas(a)[i] = (a[i] - (IF i = 1 THEN 0 ELSE a[i - 1])) % Modulus
<1>1. /\ Len(a) \in 0..MaxValues /\ Len(a) \in Nat /\ \A i \in 1..Len(a) : a[i] \in Codes!Symbols
      /\ a = [i \in 1..Len(a) |-> a[i]] /\ DOMAIN a = 1..Len(a)
  BY CodesAssumed DEF IsArray
<1>2. Last(a) \in Codes!Symbols
  <2>1. CASE a = <<>>
    BY <2>1, CodesAssumed DEF Last
  <2>2. CASE a # <<>>
    <3>1. Len(a) \in 1..Len(a)
      BY <1>1, <2>2 DEF IsArray
    <3> QED BY <1>1, <2>2, <3>1 DEF Last
  <2> QED BY <2>1, <2>2
<1> DEFINE Before(i) == IF i = 1 THEN 0 ELSE a[i - 1]
           n == Len(a)
<1>3. \A i \in 1..n : Before(i) \in Codes!Symbols
  BY <1>1, CodesAssumed
<1>4. Codes!Deltas(a) = [i \in 1..n |-> (a[i] - Before(i)) % Modulus]
  BY <1>1 DEF Codes!Deltas
<1> HIDE DEF Before, n
<1>5. \A i \in 1..n : (a[i] - Before(i)) % Modulus \in Codes!Symbols
  BY <1>1, <1>3, StepBack DEF n
<1>6. n \in Nat
  BY <1>1 DEF n
<1>7. Codes!Deltas(a) \in Seq(Codes!Symbols) /\ Len(Codes!Deltas(a)) = n
  BY <1>4, <1>5, <1>6
<1> QED BY <1>1, <1>2, <1>4, <1>7 DEF n, Before

(* One more value is one more difference.                                  *)
LEMMA DeltaAppended ==
  ASSUME NEW a, IsArray(a), Len(a) < MaxValues, NEW v \in Codes!Symbols
  PROVE  LET b == Append(a, (Last(a) + v) % Modulus)
         IN  IsArray(b) /\ Codes!Deltas(b) = Append(Codes!Deltas(a), v)
<1> DEFINE n == Len(a)
           w == (Last(a) + v) % Modulus
           b == Append(a, w)
<1>1. n \in Nat /\ Last(a) \in Codes!Symbols /\ a \in Seq(Codes!Symbols)
      /\ Codes!Deltas(a) \in Seq(Codes!Symbols) /\ Len(Codes!Deltas(a)) = n
  BY DeltasAre DEF IsArray
<1>2. w \in Codes!Symbols /\ (w - Last(a)) % Modulus = v
  BY <1>1, StepBack
<1>3. n = 0 <=> a = <<>>
  BY <1>1
<1> HIDE DEF w
<1>4. b \in Seq(Codes!Symbols) /\ Len(b) = n + 1 /\ b[n + 1] = w /\ \A i \in 1..n : b[i] = a[i]
  BY <1>1, <1>2
<1>5. IsArray(b)
  BY <1>1, <1>4, CodesAssumed DEF IsArray
<1> HIDE DEF b
<1>6. /\ Codes!Deltas(b) \in Seq(Codes!Symbols) /\ Len(Codes!Deltas(b)) = n + 1
      /\ \A i \in 1..(n + 1) : Codes!Deltas(b)[i] = (b[i] - (IF i = 1 THEN 0 ELSE b[i - 1])) % Modulus
  BY <1>4, <1>5, DeltasAre
<1>7. \A i \in 1..n : Codes!Deltas(a)[i] = (a[i] - (IF i = 1 THEN 0 ELSE a[i - 1])) % Modulus
  BY DeltasAre
<1> HIDE DEF n
<1>8. \A i \in 1..n : Codes!Deltas(b)[i] = Codes!Deltas(a)[i]
  <2> TAKE i \in 1..n
  <2>1. b[i] = a[i] /\ (i = 1 \/ (i # 1 /\ b[i - 1] = a[i - 1]))
    BY <1>1, <1>4
  <2> QED BY <1>1, <1>6, <1>7, <2>1
<1>9. Codes!Deltas(b)[n + 1] = v
  <2>1. (IF n + 1 = 1 THEN 0 ELSE b[(n + 1) - 1]) = Last(a)
    <3>1. CASE n = 0
      BY <1>3, <3>1 DEF Last
    <3>2. CASE n # 0
      BY <1>1, <1>3, <1>4, <3>2 DEF Last, n
    <3> QED BY <3>1, <3>2
  <2>2. Codes!Deltas(b)[n + 1] = (w - Last(a)) % Modulus
    BY <1>1, <1>4, <1>6, <2>1
  <2> QED BY <1>2, <2>2
<1>10. Codes!Deltas(b) = Append(Codes!Deltas(a), v)
  <2> DEFINE s == Codes!Deltas(b)
             t == Codes!Deltas(a)
  <2>1. s \in Seq(Codes!Symbols) /\ t \in Seq(Codes!Symbols) /\ Len(s) = n + 1 /\ Len(t) = n /\ n \in Nat
    BY <1>1, <1>6
  <2>2. (\A i \in 1..n : s[i] = t[i]) /\ s[n + 1] = v
    BY <1>8, <1>9
  <2> HIDE DEF s, t
  <2>3. \A i \in 1..(n + 1) : s[i] = Append(t, v)[i]
    BY <2>1, <2>2
  <2>4. Append(t, v) \in Seq(Codes!Symbols) /\ Len(Append(t, v)) = n + 1
    BY <2>1
  <2>5. s = Append(t, v)
    BY <2>1, <2>3, <2>4
  <2> QED BY <2>5 DEF s, t
<1> QED BY <1>5, <1>10 DEF b, w

-------------------------------------------------------------------------------
(* ---- the forest of the encoder ------------------------------------------ *)

(* The symbols that occur, and how often.                                  *)
Alphabet == Codes!Range(Codes!Deltas(values))
Counted == [s \in Alphabet |-> Codes!Occurrences(s, Codes!Deltas(values))]

(* The room the leaves of a tree take below its root.                      *)
Rooms(d) == [s \in DOMAIN d |-> Room(d[s])]

NodeIs(x) ==
  /\ DOMAIN x.depth \in SUBSET Alphabet /\ x.minimum \in DOMAIN x.depth
  /\ \A s \in DOMAIN x.depth : x.depth[s] \in Nat
  /\ x.frequency = Total(Counted, DOMAIN x.depth)
  /\ Total(Rooms(x.depth), DOMAIN x.depth) = Room(0)
  /\ \A s \in DOMAIN x.depth : x.depth[s] = 0 => DOMAIN x.depth = {s}
Forest(H) ==
  /\ IsFiniteSet(H) /\ H # {}
  /\ \A x \in H : NodeIs(x)
  /\ \A x, y \in H : x # y => DOMAIN x.depth \cap DOMAIN y.depth = {}
  /\ \A s \in Alphabet : \E x \in H : s \in DOMAIN x.depth
  /\ \A x \in H : \A s \in DOMAIN x.depth :
       x.depth[s] + Cardinality(H) <= Cardinality(Alphabet)

ArrayInv == IsArray(values) /\ Len(values) > 0

LEMMA AlphabetIs ==
  ASSUME ArrayInv
  PROVE  /\ Alphabet = {Codes!Deltas(values)[i] : i \in 1..Len(values)}
         /\ Alphabet \in SUBSET Codes!Symbols /\ Alphabet # {} /\ IsFiniteSet(Alphabet)
         /\ Cardinality(Alphabet) \in 1..MaxValues
         /\ \A s \in Alphabet : Counted[s] \in Nat /\ Counted[s] > 0
<1> DEFINE a == Codes!Deltas(values)
           n == Len(values)
<1>1. a \in Seq(Codes!Symbols) /\ Len(a) = n /\ n \in 1..MaxValues
  BY DeltasAre, CodesAssumed DEF ArrayInv
<1> HIDE DEF a, n
<1>2. DOMAIN a = 1..n /\ \A i \in 1..n : a[i] \in Codes!Symbols
  BY <1>1
<1>3. Alphabet = {a[i] : i \in 1..n}
  BY <1>2 DEF Alphabet, a, Codes!Range
<1>4. Alphabet \in SUBSET Codes!Symbols /\ Alphabet # {}
  <2>1. 1 \in 1..n
    BY <1>1
  <2> QED BY <1>2, <1>3, <2>1
<1>5. IsFiniteSet(1..n) /\ Cardinality(1..n) = n
  BY <1>1, FS_Interval
<1>6. IsFiniteSet(Alphabet) /\ Cardinality(Alphabet) <= n
  <2> DEFINE f == [i \in 1..n |-> a[i]]
  <2>1. f \in Surjection(1..n, Alphabet)
    BY <1>3 DEF Surjection
  <2> HIDE DEF f
  <2> QED BY <1>5, <2>1, FS_Surjection
<1>7. Cardinality(Alphabet) \in 1..MaxValues
  <2>1. Cardinality(Alphabet) # 0
    BY <1>4, <1>6, FS_EmptySet
  <2>2. Cardinality(Alphabet) \in Nat
    BY <1>6, FS_CardinalityType
  <2> QED BY <1>1, <1>6, <2>1, <2>2, CodesAssumed
<1>8. ASSUME NEW s \in Alphabet PROVE Counted[s] \in Nat /\ Counted[s] > 0
  <2> DEFINE P == {i \in 1..n : a[i] = s}
  <2>1. Counted[s] = Cardinality(P)
    BY <1>2, CodesNumbers DEF Counted, Codes!Occurrences, a
  <2>2. P \in SUBSET (1..n) /\ P # {}
    BY <1>3
  <2> HIDE DEF P
  <2>3. IsFiniteSet(P)
    BY <1>5, <2>2, FS_Subset
  <2> QED BY <2>1, <2>2, <2>3, FS_EmptySet, FS_CardinalityType
<1> QED BY <1>3, <1>4, <1>6, <1>7, <1>8 DEF a, n

(* Every symbol is a tree of its own.                                      *)
LEMMA LeavesAre ==
  ASSUME ArrayInv, heap = Codes!Leaves(Codes!Deltas(values))
  PROVE  /\ Forest(heap)
         /\ \A x \in heap : \A s \in DOMAIN x.depth : x.depth[s] = 0
<1> DEFINE leaf(y) == [frequency |-> Codes!Occurrences(y, Codes!Deltas(values)), minimum |-> y,
             serial |-> Codes!Cardinality({z \in Alphabet : z < y}),
             depth |-> [s \in {y} |-> 0]]
           f == [y \in Alphabet |-> leaf(y)]
<1>1. heap = {leaf(y) : y \in Alphabet}
  BY DEF Codes!Leaves, Alphabet
<1>2. \A y \in Alphabet : /\ leaf(y).frequency = Counted[y] /\ leaf(y).minimum = y
                          /\ DOMAIN leaf(y).depth = {y} /\ leaf(y).depth[y] = 0
                          /\ leaf(y).depth = [s \in {y} |-> 0]
  BY DEF Counted
<1> HIDE DEF leaf
<1>3. f \in Surjection(Alphabet, heap) /\ f \in Injection(Alphabet, heap)
  <2>1. f \in [Alphabet -> heap]
    BY <1>1
  <2>2. \A t \in heap : \E s \in Alphabet : f[s] = t
    BY <1>1
  <2>3. \A s, t \in Alphabet : f[s] = f[t] => s = t
    BY <1>2
  <2> QED BY <2>1, <2>2, <2>3 DEF Surjection, Injection, IsInjective
<1>4. IsFiniteSet(heap) /\ Cardinality(heap) = Cardinality(Alphabet) /\ heap # {}
  <2> HIDE DEF f
  <2>1. IsFiniteSet(Alphabet) /\ Alphabet # {}
    BY AlphabetIs
  <2> QED BY <1>1, <1>3, <2>1, FS_Surjection
<1>5. ASSUME NEW y \in Alphabet PROVE NodeIs(leaf(y))
  <2> DEFINE d == leaf(y).depth
  <2>1. DOMAIN d = {y} /\ d[y] = 0
    BY <1>2
  <2> HIDE DEF d
  <2>2. Total(Counted, {y}) = Counted[y]
    BY AlphabetIs, TotalSingle
  <2>3. Total(Rooms(d), {y}) = Room(0)
    <3>1. Rooms(d)[y] = Room(0)
      BY <2>1 DEF Rooms
    <3>2. Room(0) \in Nat
      BY RoomIs, CodesAssumed
    <3> QED BY <3>1, <3>2, TotalSingle
  <2>4. leaf(y).depth = d /\ leaf(y).minimum = y /\ leaf(y).frequency = Counted[y]
    BY <1>2 DEF d
  <2>5. {y} \in SUBSET Alphabet /\ d[y] \in Nat
    BY <2>1
  <2> QED BY <2>1, <2>2, <2>3, <2>4, <2>5 DEF NodeIs
<1>6. ASSUME NEW x \in heap
      PROVE  \E y \in Alphabet : x = leaf(y) /\ DOMAIN x.depth = {y} /\ x.depth[y] = 0
  <2>1. PICK y \in Alphabet : x = leaf(y)
    BY <1>1
  <2> QED BY <1>2, <2>1
<1>7. \A x, y \in heap : x # y => DOMAIN x.depth \cap DOMAIN y.depth = {}
  <2> TAKE x, y \in heap
  <2>1. PICK s \in Alphabet : x = leaf(s) /\ DOMAIN x.depth = {s}
    BY <1>6
  <2>2. PICK t \in Alphabet : y = leaf(t) /\ DOMAIN y.depth = {t}
    BY <1>6
  <2> QED BY <2>1, <2>2
<1>8. ASSUME NEW s \in Alphabet PROVE \E x \in heap : s \in DOMAIN x.depth
  <2>1. leaf(s) \in heap
    BY <1>1
  <2>2. DOMAIN leaf(s).depth = {s}
    BY <1>2
  <2> QED BY <2>1, <2>2
<1>11. \A x \in heap : \A s \in DOMAIN x.depth : x.depth[s] = 0
  BY <1>6
<1>9. \A x \in heap : NodeIs(x)
  BY <1>1, <1>5
<1>10. \A x \in heap : \A s \in DOMAIN x.depth : x.depth[s] + Cardinality(heap) <= Cardinality(Alphabet)
  <2>1. Cardinality(Alphabet) \in Nat
    BY AlphabetIs, FS_CardinalityType
  <2> QED BY <1>4, <1>11, <2>1
<1> QED BY <1>4, <1>7, <1>8, <1>9, <1>10, <1>11 DEF Forest

LEMMA NodesApart ==
  ASSUME ArrayInv, NEW H, Forest(H)
  PROVE  /\ \A x \in H : x.frequency \in Nat /\ x.minimum \in Nat
         /\ \A x, y \in H : x.minimum = y.minimum => x = y
         /\ Cardinality(H) \in Nat
<1>1. Alphabet \in SUBSET Codes!Symbols /\ IsFiniteSet(Alphabet)
      /\ \A s \in Alphabet : Counted[s] \in Nat
  BY AlphabetIs
<1>2. ASSUME NEW x \in H PROVE x.frequency \in Nat
  <2>1. DOMAIN x.depth \in SUBSET Alphabet
    BY DEF Forest, NodeIs
  <2>2. IsFiniteSet(DOMAIN x.depth)
    BY <1>1, <2>1, FS_Subset
  <2>3. Total(Counted, DOMAIN x.depth) \in Nat
    BY <1>1, <2>1, <2>2, TotalType
  <2> QED BY <2>3 DEF Forest, NodeIs
<1>3. ASSUME NEW x \in H PROVE x.minimum \in Nat
  <2>1. DOMAIN x.depth \in SUBSET Alphabet /\ x.minimum \in DOMAIN x.depth
    BY DEF Forest, NodeIs
  <2>2. x.minimum \in Codes!Symbols
    BY <1>1, <2>1
  <2> QED BY <2>2, CodesAssumed
<1>4. \A x, y \in H : x.minimum = y.minimum => x = y
  BY DEF Forest, NodeIs
<1> QED BY <1>2, <1>3, <1>4, FS_CardinalityType DEF Forest

(* The node on top is a lightest one.                                      *)
LEMMA TopIs ==
  ASSUME NEW H, H # {}, \A x \in H : x.frequency \in Nat /\ x.minimum \in Nat,
         \A x, y \in H : x.minimum = y.minimum => x = y
  PROVE  Codes!Top(H) \in H /\ \A y \in H : Codes!Top(H).frequency <= y.frequency
<1> DEFINE IsTop(x) == \A y \in H \ {x} : Codes!Lighter(x, y)
           Counts == {x.frequency : x \in H}
           Minima(n) == {m \in Nat : \E x \in H : x.frequency = n /\ x.minimum = m}
<1>1. PICK n \in Counts : \A m \in Counts : n <= m
  <2>1. Counts \subseteq Nat /\ Counts # {}
    OBVIOUS
  <2> HIDE DEF Counts
  <2> QED BY <2>1, LeastNatural
<1>2. PICK m \in Minima(n) : \A k \in Minima(n) : m <= k
  <2>1. Minima(n) \subseteq Nat /\ Minima(n) # {}
    OBVIOUS
  <2> HIDE DEF Minima
  <2> QED BY <2>1, LeastNatural
<1>3. PICK x \in H : x.frequency = n /\ x.minimum = m
  BY <1>2
<1>4. \A y \in H : n <= y.frequency /\ (y.frequency = n => m <= y.minimum)
  BY <1>1, <1>2
<1> HIDE DEF Counts, Minima
<1>5. IsTop(x)
  BY <1>3, <1>4 DEF Codes!Lighter
<1>6. Codes!Top(H) \in H /\ IsTop(Codes!Top(H))
  <2>1. Codes!Top(H) = CHOOSE z \in H : IsTop(z)
    BY DEF Codes!Top
  <2> HIDE DEF IsTop
  <2> QED BY <1>5, <2>1
<1>7. \A y \in H : Codes!Top(H).frequency <= y.frequency
  BY <1>6 DEF Codes!Lighter
<1> QED BY <1>6, <1>7

(* n is the parent of a and b.                                             *)
Joins(n, a, b) ==
  /\ n.frequency = a.frequency + b.frequency
  /\ n.minimum \in {a.minimum, b.minimum}
  /\ DOMAIN n.depth = DOMAIN a.depth \cup DOMAIN b.depth
  /\ \A s \in DOMAIN a.depth : n.depth[s] = 1 + a.depth[s]
  /\ \A s \in DOMAIN b.depth : n.depth[s] = 1 + b.depth[s]

(* Half of the room is left a level deeper.                                *)
LEMMA RoomHalved ==
  ASSUME ArrayInv, NEW S, S \in SUBSET Alphabet, NEW d, NEW e,
         \A s \in S : d[s] \in Nat /\ d[s] < MaxValues /\ e[s] = 1 + d[s],
         S \subseteq DOMAIN d, S \subseteq DOMAIN e
  PROVE  /\ Total(Rooms(d), S) \in Nat /\ Total(Rooms(e), S) \in Nat
         /\ Total(Rooms(d), S) = 2 * Total(Rooms(e), S)
         /\ \A s \in S : Rooms(e)[s] \in Nat
<1>1. IsFiniteSet(S)
  BY AlphabetIs, FS_Subset
<1>2. \A s \in S : /\ Rooms(d)[s] \in Nat /\ Rooms(e)[s] \in Nat
                   /\ Rooms(d)[s] = Rooms(e)[s] + Rooms(e)[s]
  <2> TAKE s \in S
  <2>1. Rooms(d)[s] = Room(d[s]) /\ Rooms(e)[s] = Room(e[s])
    BY DEF Rooms
  <2>2. e[s] \in 1..MaxValues /\ e[s] \in 0..MaxValues /\ d[s] \in 0..MaxValues /\ e[s] - 1 = d[s]
    BY CodesAssumed
  <2>3. Room(e[s]) \in Nat /\ Room(d[s]) \in Nat /\ Room(d[s]) = 2 * Room(e[s])
    BY <2>2, RoomIs
  <2> QED BY <2>1, <2>3
<1>3. /\ Total(Rooms(e), S) \in Nat
      /\ Total(Rooms(d), S) = Total(Rooms(e), S) + Total(Rooms(e), S)
  BY <1>1, <1>2, TotalAdds
<1> QED BY <1>2, <1>3

LEMMA JoinedNode ==
  ASSUME ArrayInv, NEW H, Forest(H), NEW a \in H, NEW b \in H, a # b, NEW n, Joins(n, a, b)
  PROVE  NodeIs(n)
<1> DEFINE A == DOMAIN a.depth
           B == DOMAIN b.depth
<1>1. /\ A \in SUBSET Alphabet /\ B \in SUBSET Alphabet /\ A \cap B = {}
      /\ a.minimum \in A /\ b.minimum \in B
      /\ \A s \in A : a.depth[s] \in Nat
      /\ \A s \in B : b.depth[s] \in Nat
      /\ a.frequency = Total(Counted, A) /\ b.frequency = Total(Counted, B)
      /\ Total(Rooms(a.depth), A) = Room(0) /\ Total(Rooms(b.depth), B) = Room(0)
  BY DEF Forest, NodeIs
<1>2. /\ DOMAIN n.depth = A \cup B /\ n.minimum \in {a.minimum, b.minimum}
      /\ n.frequency = a.frequency + b.frequency
      /\ \A s \in A : n.depth[s] = 1 + a.depth[s]
      /\ \A s \in B : n.depth[s] = 1 + b.depth[s]
  BY DEF Joins
<1>3. /\ \A s \in A : a.depth[s] < MaxValues
      /\ \A s \in B : b.depth[s] < MaxValues
  <2>1. Cardinality(Alphabet) \in 1..MaxValues
    BY AlphabetIs
  <2>2. Cardinality(H) \in Nat /\ Cardinality(H) > 0
    BY FS_EmptySet, FS_CardinalityType DEF Forest
  <2>3. /\ \A s \in A : a.depth[s] + Cardinality(H) <= Cardinality(Alphabet)
        /\ \A s \in B : b.depth[s] + Cardinality(H) <= Cardinality(Alphabet)
    BY DEF Forest
  <2> QED BY <1>1, <2>1, <2>2, <2>3, CodesAssumed, SMTT(30)
<1>4. /\ Total(Rooms(a.depth), A) = 2 * Total(Rooms(n.depth), A)
      /\ Total(Rooms(n.depth), A) \in Nat
      /\ \A s \in A : Rooms(n.depth)[s] \in Nat
  <2>1. /\ \A s \in A : a.depth[s] \in Nat /\ a.depth[s] < MaxValues
                        /\ n.depth[s] = 1 + a.depth[s]
        /\ A \in SUBSET Alphabet /\ A \subseteq DOMAIN a.depth /\ A \subseteq DOMAIN n.depth
    BY <1>1, <1>2, <1>3
  <2> DEFINE d == a.depth
             e == n.depth
  <2> HIDE DEF d, e, A
  <2>2. \A s \in A : d[s] \in Nat /\ d[s] < MaxValues /\ e[s] = 1 + d[s]
    BY <2>1 DEF d, e
  <2>3. A \subseteq DOMAIN d /\ A \subseteq DOMAIN e
    BY <2>1 DEF d, e
  <2>4. /\ Total(Rooms(d), A) = 2 * Total(Rooms(e), A)
        /\ Total(Rooms(e), A) \in Nat
        /\ \A s \in A : Rooms(e)[s] \in Nat
    BY <2>1, <2>2, <2>3, RoomHalved
  <2> QED BY <2>4 DEF d, e
<1>5. /\ Total(Rooms(b.depth), B) = 2 * Total(Rooms(n.depth), B)
      /\ Total(Rooms(n.depth), B) \in Nat
      /\ \A s \in B : Rooms(n.depth)[s] \in Nat
  <2>1. /\ \A s \in B : b.depth[s] \in Nat /\ b.depth[s] < MaxValues
                        /\ n.depth[s] = 1 + b.depth[s]
        /\ B \in SUBSET Alphabet /\ B \subseteq DOMAIN b.depth /\ B \subseteq DOMAIN n.depth
    BY <1>1, <1>2, <1>3
  <2> DEFINE d == b.depth
             e == n.depth
  <2> HIDE DEF d, e, B
  <2>2. \A s \in B : d[s] \in Nat /\ d[s] < MaxValues /\ e[s] = 1 + d[s]
    BY <2>1 DEF d, e
  <2>3. B \subseteq DOMAIN d /\ B \subseteq DOMAIN e
    BY <2>1 DEF d, e
  <2>4. /\ Total(Rooms(d), B) = 2 * Total(Rooms(e), B)
        /\ Total(Rooms(e), B) \in Nat
        /\ \A s \in B : Rooms(e)[s] \in Nat
    BY <2>1, <2>2, <2>3, RoomHalved
  <2> QED BY <2>4 DEF d, e
<1>6. IsFiniteSet(A) /\ IsFiniteSet(B)
  BY <1>1, AlphabetIs, FS_Subset
<1>7. Total(Rooms(n.depth), A \cup B) = Room(0)
  <2>1. \A s \in A \cup B : Rooms(n.depth)[s] \in Nat
    BY <1>4, <1>5
  <2>2. Total(Rooms(n.depth), A \cup B) = Total(Rooms(n.depth), A) + Total(Rooms(n.depth), B)
    BY <1>1, <1>6, <2>1, TotalUnion
  <2> QED BY <1>1, <1>4, <1>5, <2>2
<1>8. n.frequency = Total(Counted, A \cup B)
  <2>1. \A s \in A \cup B : Counted[s] \in Nat
    BY <1>1, AlphabetIs
  <2>2. Total(Counted, A \cup B) = Total(Counted, A) + Total(Counted, B)
    BY <1>1, <1>6, <2>1, TotalUnion
  <2> QED BY <1>1, <1>2, <2>2
<1>9. \A s \in A \cup B : n.depth[s] \in Nat /\ n.depth[s] # 0
  BY <1>1, <1>2
<1> HIDE DEF A, B
<1> QED BY <1>1, <1>2, <1>7, <1>8, <1>9 DEF NodeIs

LEMMA JoinedForest ==
  ASSUME ArrayInv, NEW H, Forest(H), NEW a \in H, NEW b \in H, a # b, NEW n, Joins(n, a, b)
  PROVE  LET K == (H \ {a, b}) \cup {n}
         IN  Forest(K) /\ n \notin H \ {a, b}
<1> DEFINE R == H \ {a, b}
           K == R \cup {n}
<1>1. NodeIs(n)
  BY JoinedNode
<1>2. /\ DOMAIN n.depth = DOMAIN a.depth \cup DOMAIN b.depth
      /\ \A s \in DOMAIN a.depth : n.depth[s] = 1 + a.depth[s]
      /\ \A s \in DOMAIN b.depth : n.depth[s] = 1 + b.depth[s]
  BY DEF Joins
<1>3. \A x \in R : DOMAIN x.depth \cap DOMAIN n.depth = {}
  BY <1>2 DEF Forest
<1>4. n \notin R
  BY <1>1, <1>3 DEF NodeIs
<1>5. IsFiniteSet(K) /\ Cardinality(K) = Cardinality(H) - 1 /\ Cardinality(H) \in Nat
  <2>1. IsFiniteSet(H) /\ Cardinality(H) \in Nat
    BY FS_CardinalityType DEF Forest
  <2>2. IsFiniteSet(H \ {a}) /\ Cardinality(H \ {a}) = Cardinality(H) - 1
    BY <2>1, FS_RemoveElement
  <2>3. b \in H \ {a} /\ (H \ {a}) \ {b} = R
    OBVIOUS
  <2>4. IsFiniteSet(R) /\ Cardinality(R) = Cardinality(H) - 1 - 1
    BY <2>2, <2>3, FS_RemoveElement
  <2> HIDE DEF R
  <2>5. IsFiniteSet(R \cup {n}) /\ Cardinality(R \cup {n}) = Cardinality(R) + 1
    BY <1>4, <2>4, FS_AddElement
  <2> QED BY <2>1, <2>4, <2>5
<1>6. \A x \in K : NodeIs(x)
  BY <1>1 DEF Forest
<1>7. \A x, y \in K : x # y => DOMAIN x.depth \cap DOMAIN y.depth = {}
  <2>1. \A x, y \in R : x # y => DOMAIN x.depth \cap DOMAIN y.depth = {}
    BY DEF Forest
  <2> HIDE DEF R
  <2> QED BY <1>3, <2>1
<1>8. ASSUME NEW s \in Alphabet PROVE \E x \in K : s \in DOMAIN x.depth
  <2>1. PICK x \in H : s \in DOMAIN x.depth
    BY DEF Forest
  <2>2. CASE x \in R
    BY <2>1, <2>2
  <2>3. CASE x \in {a, b}
    BY <1>2, <2>1, <2>3
  <2> QED BY <2>1, <2>2, <2>3
<1>9. \A x \in K : \A s \in DOMAIN x.depth :
        x.depth[s] + Cardinality(K) <= Cardinality(Alphabet)
  <2>1. Cardinality(Alphabet) \in Nat
    BY AlphabetIs, FS_CardinalityType
  <2>2. \A x \in H : \A s \in DOMAIN x.depth :
          x.depth[s] \in Nat /\ x.depth[s] + Cardinality(H) <= Cardinality(Alphabet)
    BY DEF Forest, NodeIs
  <2>3. ASSUME NEW x \in R, NEW s \in DOMAIN x.depth
        PROVE  x.depth[s] + Cardinality(K) <= Cardinality(Alphabet)
    BY <1>5, <2>1, <2>2
  <2>4. ASSUME NEW s \in DOMAIN n.depth
        PROVE  n.depth[s] + Cardinality(K) <= Cardinality(Alphabet)
    <3>1. CASE s \in DOMAIN a.depth
      BY <1>2, <1>5, <2>1, <2>2, <3>1
    <3>2. CASE s \in DOMAIN b.depth
      BY <1>2, <1>5, <2>1, <2>2, <3>2
    <3> QED BY <1>2, <2>4, <3>1, <3>2
  <2> HIDE DEF R
  <2> QED BY <2>3, <2>4
<1>10. K # {}
  OBVIOUS
<1> QED BY <1>4, <1>5, <1>6, <1>7, <1>8, <1>9, <1>10 DEF Forest

(* huffman.cpp:72-90: two trees become one.                                *)
LEMMA MergeJoins ==
  ASSUME ArrayInv, Forest(heap), Codes!Merge
  PROVE  \E a, b \in heap : \E n :
           /\ a # b /\ Joins(n, a, b) /\ heap' = (heap \ {a, b}) \cup {n}
           /\ \A y \in heap : a.frequency <= y.frequency
           /\ \A y \in heap \ {a} : b.frequency <= y.frequency
<1> DEFINE a == Codes!Top(heap)
           b == Codes!Top(heap \ {a})
           deeper == [s \in DOMAIN a.depth \cup DOMAIN b.depth |->
                        1 + (IF s \in DOMAIN a.depth THEN a.depth[s] ELSE b.depth[s])]
           n == [frequency |-> a.frequency + b.frequency,
                 minimum |-> Codes!Smaller(a.minimum, b.minimum),
                 serial |-> Codes!NextSerial, depth |-> deeper]
<1>1. heap' = (heap \ {a, b}) \cup {n} /\ Cardinality(heap) > 1
  BY CodesNumbers DEF Codes!Merge
<1>2. /\ \A x \in heap : x.frequency \in Nat /\ x.minimum \in Nat
      /\ \A x, y \in heap : x.minimum = y.minimum => x = y
  BY NodesApart
<1>3. a \in heap /\ \A y \in heap : a.frequency <= y.frequency
  BY <1>2, TopIs DEF Forest
<1>4. heap \ {a} # {}
  <2>1. IsFiniteSet(heap) /\ Cardinality(heap) \in Nat
    BY FS_CardinalityType DEF Forest
  <2> HIDE DEF a
  <2>2. Cardinality(heap \ {a}) = Cardinality(heap) - 1 /\ IsFiniteSet(heap \ {a})
    BY <1>3, <2>1, FS_RemoveElement
  <2> QED BY <1>1, <2>1, <2>2, FS_EmptySet
<1>5. b \in heap \ {a} /\ \A y \in heap \ {a} : b.frequency <= y.frequency
  <2> HIDE DEF a
  <2> QED BY <1>2, <1>4, TopIs
<1> HIDE DEF a, b
<1>6. DOMAIN a.depth \cap DOMAIN b.depth = {}
  BY <1>3, <1>5 DEF Forest
<1>7. n.frequency = a.frequency + b.frequency /\ n.depth = deeper
      /\ n.minimum = Codes!Smaller(a.minimum, b.minimum)
  OBVIOUS
<1>8. Codes!Smaller(a.minimum, b.minimum) \in {a.minimum, b.minimum}
  BY DEF Codes!Smaller
<1>9. /\ DOMAIN deeper = DOMAIN a.depth \cup DOMAIN b.depth
      /\ \A s \in DOMAIN a.depth : deeper[s] = 1 + a.depth[s]
      /\ \A s \in DOMAIN b.depth : deeper[s] = 1 + b.depth[s]
  BY <1>6
<1> HIDE DEF n, deeper
<1>10. Joins(n, a, b)
  BY <1>7, <1>8, <1>9 DEF Joins
<1> QED BY <1>1, <1>3, <1>5, <1>10

-------------------------------------------------------------------------------
(* ---- one code after another --------------------------------------------- *)

Bit == {0, 1}
Flattened(F, seqs) ==
  /\ F \in [0..Len(seqs) -> Seq(Bit)] /\ F[0] = <<>>
  /\ \A i \in 1..Len(seqs) : F[i] = F[i - 1] \o seqs[i]

LEMMA FlattenedExists ==
  ASSUME NEW seqs \in Seq(Seq(Bit))
  PROVE  \E F : Flattened(F, seqs)
<1> DEFINE n == Len(seqs)
           D == 0..n
           T == Seq(Bit)
           g == [k \in Nat |-> [t \in T |-> IF k \in 1..n THEN t \o seqs[k] ELSE t]]
<1>1. n \in Nat /\ \A i \in 1..n : seqs[i] \in T
  OBVIOUS
<1>2. <<>> \in T
  OBVIOUS
<1>3. \A k \in 1..n : \A t \in T : t \o seqs[k] \in T
  BY <1>1
<1> HIDE DEF n, T
<1>4. g \in [Nat -> [T -> T]]
  BY <1>3
<1>5. D \subseteq Nat /\ \A k \in D : k > 0 => k - 1 \in D
  BY <1>1
<1> DEFINE e == <<>>
<1> HIDE DEF g, D, e
<1>6. PICK F \in [D -> T] : Recursive(F, D, e, g)
  <2>1. e \in T
    BY <1>2 DEF e
  <2> QED BY <1>4, <1>5, <2>1, RecursionExists
<1>7. \A k \in D : F[k] = IF k = 0 THEN e ELSE g[k][F[k - 1]]
  BY <1>6 DEF Recursive
<1>8. F[0] = <<>>
  <2>1. 0 \in D
    BY <1>1 DEF D
  <2> QED BY <1>7, <2>1 DEF e
<1>9. ASSUME NEW i \in 1..n PROVE F[i] = F[i - 1] \o seqs[i]
  <2>1. i \in D /\ i # 0 /\ i - 1 \in D /\ i \in Nat
    BY <1>1 DEF D
  <2>2. F[i - 1] \in T
    BY <1>6, <2>1
  <2>3. g[i][F[i - 1]] = F[i - 1] \o seqs[i]
    BY <2>1, <2>2 DEF g
  <2> QED BY <1>7, <2>1, <2>3
<1> QED BY <1>6, <1>8, <1>9 DEF Flattened, n, D, T

(* There is one such function.                                             *)
LEMMA FlattenedSame ==
  ASSUME NEW s \in Seq(Seq(Bit)), NEW t \in Seq(Seq(Bit)), NEW n \in Nat, n <= Len(s), n <= Len(t),
         \A i \in 1..n : s[i] = t[i], NEW F, Flattened(F, s), NEW G, Flattened(G, t)
  PROVE  \A i \in 0..n : F[i] = G[i] /\ F[i] \in Seq(Bit)
<1> DEFINE P == {i \in 0..n : F[i] = G[i]}
<1>1. Len(s) \in Nat /\ Len(t) \in Nat
  OBVIOUS
<1>2. 0 \in P
  BY DEF Flattened
<1>3. ASSUME NEW i \in 0..(n - 1), i \in P PROVE i + 1 \in P
  <2>1. i + 1 \in 1..n /\ i + 1 \in 0..n /\ (i + 1) - 1 = i /\ i + 1 \in 1..Len(s) /\ i + 1 \in 1..Len(t)
    BY <1>1
  <2>2. F[i + 1] = F[i] \o s[i + 1] /\ G[i + 1] = G[i] \o t[i + 1]
    BY <2>1 DEF Flattened
  <2>3. s[i + 1] = t[i + 1]
    BY <2>1
  <2> QED BY <1>3, <2>1, <2>2, <2>3
<1> HIDE DEF P
<1>4. \A i \in 0..n : i \in P
  BY <1>2, <1>3, UpTo
<1>5. \A i \in 0..n : F[i] \in Seq(Bit)
  <2>1. \A i \in 0..n : i \in 0..Len(s)
    BY <1>1
  <2> QED BY <2>1 DEF Flattened
<1> QED BY <1>4, <1>5 DEF P

LEMMA WithNothing == ASSUME NEW T, NEW s \in Seq(T) PROVE <<>> \o s = s /\ s \o <<>> = s
OBVIOUS

LEMMA FlattenIs ==
  ASSUME NEW seqs \in Seq(Seq(Bit)), NEW F, Flattened(F, seqs)
  PROVE  Codes!FlattenSeq(seqs) = F[Len(seqs)]
<1> DEFINE n == Len(seqs)
           Flat(h) == h = [i \in 1..n |-> IF i = 1 THEN seqs[i] ELSE h[i - 1] \o seqs[i]]
           f == CHOOSE h : Flat(h)
<1>1. n \in Nat /\ \A i \in 1..n : seqs[i] \in Seq(Bit)
  OBVIOUS
<1>2. CASE n = 0
  <2>1. seqs = <<>> /\ Codes!FlattenSeq(seqs) = seqs
    BY <1>2 DEF Codes!FlattenSeq
  <2> QED BY <1>2, <2>1 DEF Flattened
<1>3. CASE n # 0
  <2>1. Codes!FlattenSeq(seqs) = f[n]
    BY <1>3 DEF Codes!FlattenSeq
  <2>2. F \in [0..n -> Seq(Bit)] /\ F[0] = <<>> /\ \A i \in 1..n : F[i] = F[i - 1] \o seqs[i]
    BY DEF Flattened
  <2> HIDE DEF n
  <2>9. 1 \in 1..n /\ F[1] = seqs[1]
    <3>1. 1 \in 1..n /\ 1 - 1 = 0
      BY <1>1, <1>3 DEF n
    <3>2. F[1] = F[1 - 1] \o seqs[1] /\ seqs[1] \in Seq(Bit)
      BY <1>1, <2>2, <3>1 DEF n
    <3>3. F[1 - 1] = <<>>
      BY <2>2, <3>1
    <3> QED BY <3>1, <3>2, <3>3, WithNothing
  <2>3. Flat([i \in 1..n |-> F[i]])
    <3> DEFINE h == [i \in 1..n |-> F[i]]
    <3>1. ASSUME NEW i \in 1..n
          PROVE  h[i] = IF i = 1 THEN seqs[i] ELSE h[i - 1] \o seqs[i]
      <4>1. CASE i = 1
        BY <2>9, <4>1
      <4>2. CASE i # 1
        <5>1. i - 1 \in 1..n
          BY <1>1, <4>2
        <5> QED BY <2>2, <4>2, <5>1
      <4> QED BY <4>1, <4>2
    <3> HIDE DEF h
    <3>2. h = [i \in 1..n |-> h[i]]
      BY DEF h
    <3>3. h = [i \in 1..n |-> IF i = 1 THEN seqs[i] ELSE h[i - 1] \o seqs[i]]
      BY <3>1, <3>2, Zenon
    <3> QED BY <3>3 DEF h
  <2>4. Flat(f)
    <3> HIDE DEF Flat
    <3> QED BY <2>3
  <2> HIDE DEF f
  <2>5. \A i \in 1..n : f[i] = IF i = 1 THEN seqs[i] ELSE f[i - 1] \o seqs[i]
    BY <2>4
  <2> DEFINE P == {i \in 1..n : f[i] = F[i]}
  <2>6. 1 \in P /\ n \in 1..n
    <3>1. 1 \in 1..n /\ n \in 1..n
      BY <1>1, <1>3
    <3>2. f[1] = seqs[1]
      BY <2>5, <3>1
    <3> QED BY <2>9, <3>1, <3>2
  <2>7. ASSUME NEW i \in 1..(n - 1), i \in P PROVE i + 1 \in P
    <3>1. i + 1 \in 1..n /\ i + 1 # 1 /\ (i + 1) - 1 = i
      BY <1>1
    <3>2. F[i + 1] = F[i] \o seqs[i + 1]
      BY <2>2, <3>1
    <3>3. f[i + 1] = f[i] \o seqs[i + 1]
      BY <2>5, <3>1
    <3> QED BY <2>7, <3>1, <3>2, <3>3
  <2> HIDE DEF P
  <2>8. \A i \in 1..n : i \in P
    BY <1>1, <2>6, <2>7, UpTo
  <2> QED BY <2>1, <2>6, <2>8 DEF P, n
<1> QED BY <1>2, <1>3

LEMMA FlattenAppended ==
  ASSUME NEW seqs \in Seq(Seq(Bit)), NEW c \in Seq(Bit)
  PROVE  /\ Codes!FlattenSeq(seqs) \in Seq(Bit)
         /\ Codes!FlattenSeq(Append(seqs, c)) = Codes!FlattenSeq(seqs) \o c
<1> DEFINE n == Len(seqs)
           t == Append(seqs, c)
<1>1. n \in Nat /\ t \in Seq(Seq(Bit)) /\ Len(t) = n + 1 /\ t[n + 1] = c /\ \A i \in 1..n : t[i] = seqs[i]
  OBVIOUS
<1> HIDE DEF t
<1>2. PICK F : Flattened(F, seqs)
  BY FlattenedExists
<1>3. PICK G : Flattened(G, t)
  BY <1>1, FlattenedExists
<1>4. \A i \in 0..n : F[i] = G[i] /\ F[i] \in Seq(Bit)
  <2>1. n <= Len(seqs) /\ n <= Len(t) /\ \A i \in 1..n : seqs[i] = t[i]
    BY <1>1
  <2> HIDE DEF n
  <2> QED BY <1>1, <1>2, <1>3, <2>1, FlattenedSame
<1>5. G[n + 1] = G[n] \o c /\ F[n] = G[n] /\ F[n] \in Seq(Bit)
  <2>1. n + 1 \in 1..Len(t) /\ (n + 1) - 1 = n /\ n \in 0..n
    BY <1>1
  <2> QED BY <1>1, <1>3, <1>4, <2>1 DEF Flattened
<1>6. Codes!FlattenSeq(seqs) = F[n] /\ Codes!FlattenSeq(t) = G[n + 1]
  BY <1>1, <1>2, <1>3, FlattenIs
<1> QED BY <1>5, <1>6 DEF t

(* The codes that are put one after another.                               *)
CodeList(s, cs) == [i \in DOMAIN s |-> Codes!CodeOf(s[i], cs)]
Known(s, cs) == \A i \in DOMAIN s : \E c \in cs : c.symbol = s[i]
CodesOf(t, cs) == TableIs(t) /\ Canonical(t, cs, DOMAIN t)

LEMMA CodeOfIs ==
  ASSUME NEW t, NEW cs, CodesOf(t, cs), NEW c \in cs
  PROVE  /\ Codes!CodeOf(c.symbol, cs) = c.code
         /\ IsCode(c.code) /\ c.code \in Seq(Bit) /\ Len(c.code) \in 1..MaxValues
         /\ c.symbol \in Codes!Symbols
<1>1. PICK k \in DOMAIN t : IsCodeOf(t, k, c)
  BY DEF CodesOf, Canonical
<1>2. IsCode(c.code) /\ Len(c.code) = t[k].length /\ c.symbol = t[k].symbol
  BY <1>1 DEF IsCodeOf
<1>3. t[k].length \in 1..MaxValues /\ t[k].symbol \in Codes!Symbols
  BY DEF CodesOf, TableIs
<1> DEFINE d == CHOOSE d \in cs : d.symbol = c.symbol
<1>4. d \in cs /\ d.symbol = c.symbol
  OBVIOUS
<1>5. Codes!CodeOf(c.symbol, cs) = d.code
  BY DEF Codes!CodeOf
<1> HIDE DEF d
<1>6. d = c
  BY <1>4, CanonicalPrefixFree DEF CodesOf
<1> QED BY <1>2, <1>3, <1>5, <1>6 DEF IsCode, Bit

LEMMA CodeListIs ==
  ASSUME NEW t, NEW cs, CodesOf(t, cs), NEW T, NEW s \in Seq(T), Known(s, cs)
  PROVE  /\ CodeList(s, cs) \in Seq(Seq(Bit)) /\ Len(CodeList(s, cs)) = Len(s)
         /\ \A i \in 1..Len(s) : CodeList(s, cs)[i] = Codes!CodeOf(s[i], cs)
         /\ Codes!Encoded(s, cs) = Codes!FlattenSeq(CodeList(s, cs))
<1>1. Len(s) \in Nat /\ DOMAIN s = 1..Len(s)
  OBVIOUS
<1>2. ASSUME NEW i \in 1..Len(s) PROVE Codes!CodeOf(s[i], cs) \in Seq(Bit)
  <2>1. PICK c \in cs : c.symbol = s[i]
    BY <1>1 DEF Known
  <2> QED BY <2>1, CodeOfIs
<1>3. CodeList(s, cs) = [i \in 1..Len(s) |-> Codes!CodeOf(s[i], cs)]
  BY <1>1 DEF CodeList
<1> DEFINE n == Len(s)
<1> HIDE DEF n
<1>4. CodeList(s, cs) \in Seq(Seq(Bit)) /\ Len(CodeList(s, cs)) = n
      /\ \A i \in 1..n : CodeList(s, cs)[i] = Codes!CodeOf(s[i], cs)
  BY <1>1, <1>2, <1>3 DEF n
<1> QED BY <1>4 DEF Codes!Encoded, CodeList, n

LEMMA EncodedAppended ==
  ASSUME NEW t, NEW cs, CodesOf(t, cs), NEW s \in Seq(Codes!Symbols), Known(s, cs), NEW c \in cs
  PROVE  /\ Codes!Encoded(s, cs) \in Seq(Bit)
         /\ Codes!Encoded(Append(s, c.symbol), cs) = Codes!Encoded(s, cs) \o c.code
         /\ Known(Append(s, c.symbol), cs)
<1> DEFINE l == CodeList(s, cs)
           u == Append(s, c.symbol)
           m == CodeList(u, cs)
           n == Len(s)
<1>1. c.symbol \in Codes!Symbols /\ c.code \in Seq(Bit) /\ Codes!CodeOf(c.symbol, cs) = c.code
  BY CodeOfIs
<1>2. /\ u \in Seq(Codes!Symbols) /\ n \in Nat /\ Len(u) = n + 1 /\ u[n + 1] = c.symbol
      /\ \A i \in 1..n : u[i] = s[i]
      /\ DOMAIN u = 1..(n + 1) /\ DOMAIN s = 1..n
  BY <1>1
<1> HIDE DEF u, n
<1>3. Known(u, cs)
  <2> SUFFICES ASSUME NEW i \in 1..(n + 1) PROVE \E d \in cs : d.symbol = u[i]
    BY <1>2 DEF Known
  <2>1. CASE i = n + 1
    BY <1>2, <2>1
  <2>2. CASE i \in 1..n
    BY <1>2, <2>2 DEF Known
  <2> QED BY <1>2, <2>1, <2>2
<1>4. /\ l \in Seq(Seq(Bit)) /\ Len(l) = n /\ (\A i \in 1..n : l[i] = Codes!CodeOf(s[i], cs))
      /\ Codes!Encoded(s, cs) = Codes!FlattenSeq(l)
  BY CodeListIs DEF n
<1>5. /\ m \in Seq(Seq(Bit)) /\ Len(m) = n + 1 /\ (\A i \in 1..(n + 1) : m[i] = Codes!CodeOf(u[i], cs))
      /\ Codes!Encoded(u, cs) = Codes!FlattenSeq(m)
  BY <1>2, <1>3, CodeListIs
<1> HIDE DEF l, m
<1>6. m = Append(l, c.code)
  <2>1. \A i \in 1..(n + 1) : m[i] = Append(l, c.code)[i]
    <3> TAKE i \in 1..(n + 1)
    <3>1. CASE i = n + 1
      <4>1. m[i] = c.code
        BY <1>1, <1>2, <1>5, <3>1
      <4>2. Append(l, c.code)[i] = c.code
        BY <1>2, <1>4, <3>1
      <4> QED BY <4>1, <4>2
    <3>2. CASE i \in 1..n
      <4>1. m[i] = l[i]
        BY <1>2, <1>4, <1>5, <3>2
      <4>2. Append(l, c.code)[i] = l[i]
        BY <1>1, <1>2, <1>4, <3>2
      <4> QED BY <4>1, <4>2
    <3>3. i = n + 1 \/ i \in 1..n
      BY <1>2
    <3> QED BY <3>1, <3>2, <3>3, Zenon
  <2>2. Append(l, c.code) \in Seq(Seq(Bit)) /\ Len(Append(l, c.code)) = n + 1
    BY <1>1, <1>4
  <2> QED BY <1>5, <2>1, <2>2
<1>7. /\ Codes!FlattenSeq(l) \in Seq(Bit)
      /\ Codes!FlattenSeq(Append(l, c.code)) = Codes!FlattenSeq(l) \o c.code
  BY <1>1, <1>4, FlattenAppended
<1> QED BY <1>3, <1>4, <1>5, <1>6, <1>7 DEF u

LEMMA EncodedNothing == ASSUME NEW cs PROVE Codes!Encoded(<<>>, cs) = <<>>
<1> DEFINE l == [i \in DOMAIN <<>> |-> Codes!CodeOf(<<>>[i], cs)]
<1>1. l = <<>> /\ Len(l) = 0
  OBVIOUS
<1>2. Codes!Encoded(<<>>, cs) = Codes!FlattenSeq(l)
  BY DEF Codes!Encoded
<1> HIDE DEF l
<1> QED BY <1>1, <1>2 DEF Codes!FlattenSeq

(* The code of each symbol stands behind those of the symbols before it.   *)
LEMMA EncodedPart ==
  ASSUME NEW t, NEW cs, CodesOf(t, cs), NEW s \in Seq(Codes!Symbols), Known(s, cs),
         NEW m \in Nat, m < Len(s), NEW c \in cs, c.symbol = s[m + 1],
         NEW r \in Seq(Codes!Symbols), Len(r) = m, \A i \in 1..m : r[i] = s[i]
  PROVE  LET e == Codes!Encoded(s, cs)
             h == Codes!Encoded(r, cs)
         IN  /\ e \in Seq(Bit) /\ h \in Seq(Bit)
             /\ Len(h) + Len(c.code) <= Len(e)
             /\ \A q \in 1..Len(h) : e[q] = h[q]
             /\ \A q \in 1..Len(c.code) : e[Len(h) + q] = c.code[q]
<1> DEFINE n == Len(s)
           e == Codes!Encoded(s, cs)
           h == Codes!Encoded(r, cs)
           l == CodeList(s, cs)
           k == CodeList(r, cs)
<1>1. n \in Nat /\ DOMAIN s = 1..n /\ DOMAIN r = 1..m /\ m + 1 \in 1..n
  OBVIOUS
<1>2. Known(r, cs)
  <2> HIDE DEF n
  <2> QED BY <1>1 DEF Known
<1>3. /\ l \in Seq(Seq(Bit)) /\ Len(l) = n /\ (\A i \in 1..n : l[i] = Codes!CodeOf(s[i], cs))
      /\ e = Codes!FlattenSeq(l)
  BY CodeListIs
<1>4. /\ k \in Seq(Seq(Bit)) /\ Len(k) = m /\ (\A i \in 1..m : k[i] = Codes!CodeOf(r[i], cs))
      /\ h = Codes!FlattenSeq(k)
  BY <1>2, CodeListIs
<1>14. m < n
  OBVIOUS
<1> HIDE DEF n, e, h, l, k
<1>5. PICK F : Flattened(F, l)
  BY <1>3, FlattenedExists
<1>6. PICK G : Flattened(G, k)
  BY <1>4, FlattenedExists
<1>7. F[m] = G[m] /\ F[m] \in Seq(Bit)
  <2>1. m <= Len(l) /\ m <= Len(k) /\ \A i \in 1..m : l[i] = k[i]
    BY <1>1, <1>3, <1>4, <1>14
  <2>2. \A i \in 0..m : F[i] = G[i] /\ F[i] \in Seq(Bit)
    BY <1>3, <1>4, <1>5, <1>6, <2>1, FlattenedSame
  <2> QED BY <2>2
<1>8. e = F[n] /\ h = F[m]
  BY <1>3, <1>4, <1>5, <1>6, <1>7, FlattenIs
<1>9. /\ \A i \in 0..n : F[i] \in Seq(Bit)
      /\ \A i \in 1..n : F[i] = F[i - 1] \o l[i] /\ l[i] \in Seq(Bit)
  <2>1. \A i \in 1..n : l[i] \in Seq(Bit)
    BY <1>1, <1>3
  <2>2. /\ F \in [0..n -> Seq(Bit)]
        /\ \A i \in 1..n : F[i] = F[i - 1] \o l[i]
    BY <1>3, <1>5 DEF Flattened
  <2> QED BY <2>1, <2>2
<1>10. F[m + 1] = h \o c.code /\ c.code \in Seq(Bit) /\ Len(c.code) \in Nat
  <2>1. l[m + 1] = c.code /\ c.code \in Seq(Bit) /\ Len(c.code) \in Nat
    BY <1>1, <1>3, CodeOfIs
  <2>2. (m + 1) - 1 = m
    OBVIOUS
  <2> QED BY <1>1, <1>8, <1>9, <2>1, <2>2
<1> DEFINE g == F[m + 1]
           Begins(x) == /\ Len(x) \in Nat /\ Len(g) <= Len(x)
                        /\ \A q \in 1..Len(g) : x[q] = g[q]
           P == {i \in (m + 1)..n : Begins(F[i])}
<1>11. \A i \in (m + 1)..n : i \in P
  <2>1. m + 1 \in P
    <3>1. g \in Seq(Bit) /\ Len(g) \in Nat /\ m + 1 \in (m + 1)..n
      BY <1>1, <1>9
    <3>2. Begins(F[m + 1])
      BY <3>1
    <3> QED BY <3>1, <3>2
  <2> HIDE DEF g
  <2>2. ASSUME NEW i \in (m + 1)..(n - 1), i \in P PROVE i + 1 \in P
    <3>1. i + 1 \in (m + 1)..n /\ i + 1 \in 1..n /\ (i + 1) - 1 = i /\ i \in 0..n
      BY <1>1
    <3>2. F[i + 1] = F[i] \o l[i + 1] /\ l[i + 1] \in Seq(Bit) /\ F[i] \in Seq(Bit)
      BY <1>9, <3>1
    <3> DEFINE x == F[i]
               y == l[i + 1]
               z == F[i + 1]
    <3>4. Begins(x)
      BY <2>2
    <3>5. g \in Seq(Bit) /\ Len(g) \in Nat
      BY <1>1, <1>9 DEF g
    <3>7. z = x \o y /\ y \in Seq(Bit) /\ x \in Seq(Bit)
      BY <3>2
    <3> HIDE DEF x, y, z
    <3>3. /\ Len(z) = Len(x) + Len(y) /\ Len(x) \in Nat /\ Len(y) \in Nat
          /\ \A q \in 1..Len(x) : z[q] = x[q]
      BY <3>7, Concatenation
    <3>8. /\ Len(g) <= Len(x) /\ \A q \in 1..Len(g) : q \in 1..Len(x) /\ x[q] = g[q]
      BY <3>3, <3>4, <3>5
    <3>6. Begins(z)
      BY <3>3, <3>5, <3>8
    <3> HIDE DEF Begins
    <3>9. Begins(F[i + 1])
      BY <3>6 DEF z
    <3> QED BY <3>1, <3>9
  <2> HIDE DEF P
  <2>3. m + 1 \in Nat
    OBVIOUS
  <2> QED BY <1>1, <2>1, <2>2, <2>3, UpTo
<1>12. Begins(e)
  <2>1. n \in (m + 1)..n
    BY <1>1
  <2> QED BY <1>8, <1>11, <2>1
<1>13. /\ Len(g) = Len(h) + Len(c.code) /\ Len(h) \in Nat
       /\ \A q \in 1..Len(h) : g[q] = h[q]
       /\ \A q \in 1..Len(c.code) : g[Len(h) + q] = c.code[q]
  <2>1. h \in Seq(Bit) /\ Len(h) \in Nat
    BY <1>7, <1>8
  <2>2. g = h \o c.code
    BY <1>10
  <2> HIDE DEF g
  <2> QED BY <1>10, <2>1, <2>2, Concatenation
<1>15. e \in Seq(Bit) /\ h \in Seq(Bit)
  BY <1>1, <1>7, <1>8, <1>9
<1> HIDE DEF g
<1>16. /\ Len(h) + Len(c.code) <= Len(e)
       /\ \A q \in 1..Len(h) : e[q] = h[q]
       /\ \A q \in 1..Len(c.code) : e[Len(h) + q] = c.code[q]
  <2>1. \A q \in 1..Len(h) : q \in 1..Len(g)
    BY <1>10, <1>13
  <2>2. \A q \in 1..Len(c.code) : Len(h) + q \in 1..Len(g)
    BY <1>10, <1>13
  <2> QED BY <1>12, <1>13, <2>1, <2>2
<1> QED BY <1>15, <1>16 DEF e, h

(* The codes follow from the table.                                        *)
LEMMA SameCodes ==
  ASSUME NEW t, NEW cs, NEW ds, CodesOf(t, cs), CodesOf(t, ds)
  PROVE  cs = ds
<1>1. ASSUME NEW x, NEW y, CodesOf(t, x), CodesOf(t, y), NEW c \in x PROVE c \in y
  <2>1. PICK k \in DOMAIN t : IsCodeOf(t, k, c)
    BY <1>1 DEF CodesOf, Canonical
  <2>2. PICK d \in y : IsCodeOf(t, k, d)
    BY <1>1 DEF CodesOf, Canonical
  <2>3. c.code = d.code
    <3>1. IsCode(c.code) /\ IsCode(d.code) /\ Len(c.code) = Len(d.code)
          /\ Value(c.code, Len(c.code)) = Value(d.code, Len(d.code))
      BY <2>1, <2>2 DEF IsCodeOf
    <3> QED BY <3>1, SameCode
  <2>4. c = d
    BY <2>1, <2>2, <2>3 DEF IsCodeOf
  <2> QED BY <2>4
<1> QED BY <1>1

-------------------------------------------------------------------------------
(* ---- the stages --------------------------------------------------------- *)

LEMMA EncodedIs ==
  ASSUME NEW t, NEW cs, CodesOf(t, cs), NEW T, NEW s \in Seq(T), Known(s, cs)
  PROVE  Codes!Encoded(s, cs) \in Seq(Bit) /\ Len(Codes!Encoded(s, cs)) \in Nat
<1>1. <<>> \in Seq(Bit)
  OBVIOUS
<1>2. /\ CodeList(s, cs) \in Seq(Seq(Bit))
      /\ Codes!Encoded(s, cs) = Codes!FlattenSeq(CodeList(s, cs))
  BY CodeListIs
<1>3. Codes!FlattenSeq(CodeList(s, cs)) \in Seq(Bit)
  BY <1>1, <1>2, FlattenAppended
<1> QED BY <1>2, <1>3

(* The first k bits of the payload, its last byte padded with zeros.       *)
ReadTo(k) == [i \in 1..k |-> IF i <= Len(bits) THEN bits[i] ELSE 0]

ReaderStart == at = 0 /\ prefix = <<>> /\ out = <<>>
StreamIs ==
  /\ bits \in Seq(Bit) /\ bitCount \in Nat
  /\ IsFiniteSet(DOMAIN table)
  /\ \A k \in DOMAIN table : table[k].symbol \in Nat /\ table[k].length \in 0..MaxValues

(* What the encoder writes, and what an undamaged stream still says.       *)
OwnTable ==
  /\ DOMAIN table = Alphabet /\ \A s \in Alphabet : table[s].symbol = s
  /\ TableIs(table) /\ Spent(DOMAIN table) <= Room(0)
Sound ==
  damage = "none" =>
    /\ OwnTable /\ bitCount = Len(bits)
    /\ \A cs : CodesOf(table, cs) => bits = Codes!Encoded(Codes!Deltas(values), cs)

ReadingInv ==
  /\ CodesOf(table, codes)
  /\ Codes!Kraft([k \in DOMAIN table |-> table[k].length]) <= Codes!WholeSpace
  /\ prefix \in Seq(Bit) /\ at \in 0..bitCount
  /\ IsArray(out) /\ Len(out) <= Len(values)
  /\ Known(Codes!Deltas(out), codes)
  /\ Codes!Encoded(Codes!Deltas(out), codes) \o prefix = ReadTo(at)
Follows ==
  /\ \A i \in 1..Len(out) : out[i] = values[i]
  /\ Len(out) = Len(values) => prefix = <<>>
  /\ Len(out) < Len(values) =>
       \A c \in codes : c.symbol = Codes!Deltas(values)[Len(out) + 1] =>
                          Len(prefix) < Len(c.code)

AtMerge == Forest(heap) /\ damage = "none" /\ ReaderStart
AtEncode == CanonInv /\ OwnTable /\ damage = "none" /\ ReaderStart
AtDamage == StreamIs /\ Sound /\ damage = "none" /\ ReaderStart
AtTable == StreamIs /\ Sound /\ ReaderStart
AtDecode == StreamIs /\ Sound /\ CanonInv /\ ReaderStart
AtBits == StreamIs /\ Sound /\ ReadingInv /\ (damage = "none" => Follows)
AtAccepted == AtBits /\ at = bitCount /\ Codes!DecodeEnds
AtOversubscribed ==
  /\ damage # "none"
  /\ Codes!Kraft([k \in DOMAIN table |-> table[k].length]) > Codes!WholeSpace

CodesInv ==
  /\ ArrayInv
  /\ \/ stage = "merge" /\ AtMerge
     \/ stage = "encode" /\ AtEncode
     \/ stage = "damage" /\ AtDamage
     \/ stage = "table" /\ AtTable
     \/ stage = "decode" /\ AtDecode
     \/ stage = "bits" /\ AtBits
     \/ stage = "accepted" /\ AtAccepted
     \/ stage = "rejected" /\ damage # "none"
     \/ stage = "oversubscribed" /\ AtOversubscribed

LEMMA CodesInitInv == Codes!Init => CodesInv
<1> SUFFICES ASSUME Codes!Init PROVE CodesInv
  OBVIOUS
<1>1. ArrayInv
  <2>1. PICK n \in 1..MaxValues : values \in [1..n -> Codes!Symbols]
    BY DEF Codes!Init
  <2>2. n \in Nat /\ n <= MaxValues /\ n > 0
    BY <2>1, CodesAssumed
  <2> QED BY <2>1, <2>2 DEF ArrayInv, IsArray
<1>2. Forest(heap)
  BY <1>1, LeavesAre DEF Codes!Init
<1> QED BY <1>1, <1>2 DEF CodesInv, AtMerge, ReaderStart, Codes!Init

LEMMA MergeKeeps == CodesInv /\ Codes!Merge => CodesInv'
<1> SUFFICES ASSUME CodesInv, Codes!Merge PROVE CodesInv'
  OBVIOUS
<1>1. stage = "merge" /\ AtMerge /\ ArrayInv
  BY DEF CodesInv, Codes!Merge
<1>2. PICK a, b \in heap : \E n : a # b /\ Joins(n, a, b) /\ heap' = (heap \ {a, b}) \cup {n}
  BY <1>1, MergeJoins DEF AtMerge
<1>3. Forest(heap')
  BY <1>1, <1>2, JoinedForest DEF AtMerge
<1>4. UNCHANGED <<values, damage, at, prefix, out, stage>>
  BY DEF Codes!Merge, Codes!streamVars, Codes!readerVars
<1>5. Forest(heap)'
  BY <1>3, <1>4 DEF Forest, NodeIs, Alphabet, Counted
<1> QED BY <1>1, <1>4, <1>5 DEF CodesInv, AtMerge, ReaderStart, ArrayInv

(* One tree is left: its leaves fill the whole space.                      *)
LEMMA OneTree ==
  ASSUME ArrayInv, NEW H, Forest(H), Cardinality(H) = 1
  PROVE  /\ H = {Codes!Top(H)} /\ DOMAIN Codes!Top(H).depth = Alphabet
         /\ NodeIs(Codes!Top(H))
         /\ \A s \in Alphabet : Codes!Top(H).depth[s] \in 0..(MaxValues - 1)
<1>1. Codes!Top(H) \in H
  BY NodesApart, TopIs DEF Forest
<1> DEFINE x == Codes!Top(H)
<1> HIDE DEF x
<1>2. H = {x}
  <2>1. PICK y : H = {y}
    BY FS_Singleton DEF Forest
  <2> QED BY <1>1, <2>1 DEF x
<1>3. NodeIs(x)
  BY <1>2 DEF Forest
<1>4. DOMAIN x.depth = Alphabet
  BY <1>2, <1>3 DEF Forest, NodeIs
<1>5. ASSUME NEW s \in Alphabet PROVE x.depth[s] \in 0..(MaxValues - 1)
  <2>1. x.depth[s] + 1 <= Cardinality(Alphabet) /\ x.depth[s] \in Nat
    BY <1>2, <1>3, <1>4 DEF Forest, NodeIs
  <2> QED BY <2>1, AlphabetIs, CodesAssumed
<1> QED BY <1>2, <1>3, <1>4, <1>5 DEF x

LEMMA LengthsKeeps == CodesInv /\ Codes!Lengths => CodesInv'
<1> SUFFICES ASSUME CodesInv, Codes!Lengths PROVE CodesInv'
  OBVIOUS
<1> DEFINE d == Codes!Top(heap).depth
<1>1. stage = "merge" /\ AtMerge /\ ArrayInv /\ Cardinality(heap) = 1
  BY CodesNumbers DEF CodesInv, Codes!Lengths
<1>2. /\ table' = [s \in DOMAIN d |-> [symbol |-> s, length |-> Codes!Length(d[s])]]
      /\ pending' = Codes!Range(table') /\ following' = <<>> /\ overflow' = FALSE /\ codes' = {}
      /\ stage' = "encode" /\ UNCHANGED <<values, damage, at, prefix, out>>
  BY DEF Codes!Lengths, Codes!StartCodes, Codes!readerVars
<1>3. /\ DOMAIN d = Alphabet /\ NodeIs(Codes!Top(heap))
      /\ \A s \in Alphabet : d[s] \in 0..(MaxValues - 1)
  BY <1>1, OneTree DEF AtMerge
<1>4. IsFiniteSet(Alphabet) /\ Alphabet \in SUBSET Codes!Symbols
  BY <1>1, AlphabetIs
<1>5. Total(Rooms(d), Alphabet) = Room(0)
  BY <1>3 DEF NodeIs
<1> HIDE DEF d
<1>6. \A s \in Alphabet : /\ Codes!Length(d[s]) \in 1..MaxValues
                          /\ d[s] \in 0..MaxValues
                          /\ Codes!Length(d[s]) # d[s] => d[s] = 0 /\ Codes!Length(d[s]) = 1
  BY <1>3, CodesAssumed DEF Codes!Length
<1>7. /\ DOMAIN table' = Alphabet
      /\ \A s \in Alphabet : table'[s].symbol = s /\ table'[s].length = Codes!Length(d[s])
  BY <1>2, <1>3
<1>8. TableIs(table')
  BY <1>4, <1>6, <1>7 DEF TableIs
<1>9. pending' = {table'[k] : k \in DOMAIN table'}
  BY <1>2 DEF Codes!Range
<1>10. CanonInv'
  BY <1>2, <1>8, <1>9, CodesStart
<1>11. Total(Weights(table'), Alphabet) <= Room(0)
  <2>1. ASSUME NEW s \in Alphabet
        PROVE  /\ Weights(table')[s] \in Nat /\ Rooms(d)[s] \in Nat
               /\ Weights(table')[s] <= Rooms(d)[s]
    <3>1. Weights(table')[s] = Room(Codes!Length(d[s])) /\ Rooms(d)[s] = Room(d[s])
      BY <1>3, <1>7 DEF Weights, Rooms
    <3>2. Room(Codes!Length(d[s])) \in Nat /\ Room(d[s]) \in Nat
      <4>1. Codes!Length(d[s]) \in 0..MaxValues /\ d[s] \in 0..MaxValues
        BY <1>6
      <4> QED BY <4>1, RoomIs
    <3>3. Room(1) \in Nat /\ Room(0) \in Nat /\ Room(1 - 1) = 2 * Room(1)
      <4>1. 1 \in 1..MaxValues /\ 1 \in 0..MaxValues /\ 0 \in 0..MaxValues
        BY CodesAssumed
      <4> QED BY <4>1, RoomIs
    <3>4. Room(Codes!Length(d[s])) <= Room(d[s])
      <4>1. CASE Codes!Length(d[s]) = d[s]
        BY <3>2, <4>1
      <4>2. CASE Codes!Length(d[s]) # d[s]
        BY <1>6, <3>3, <4>2
      <4> QED BY <4>1, <4>2
    <3> QED BY <3>1, <3>2, <3>4
  <2> QED BY <1>4, <1>5, <2>1, TotalAtMost
<1>12. OwnTable'
  <2>1. Alphabet' = Alphabet
    BY <1>2 DEF Alphabet
  <2> QED BY <1>7, <1>8, <1>11, <2>1 DEF OwnTable, Spent
<1> QED BY <1>1, <1>2, <1>10, <1>12 DEF CodesInv, AtMerge, AtEncode, ReaderStart, ArrayInv

(* What the table and the stream say stays while they do.                  *)
LEMMA StreamStays ==
  ASSUME UNCHANGED <<values, table, bits, bitCount, damage>>
  PROVE  /\ ArrayInv => ArrayInv'
         /\ StreamIs => StreamIs'
         /\ Sound => Sound'
         /\ OwnTable => OwnTable'
<1>1. Alphabet' = Alphabet
  BY DEF Alphabet
<1>2. OwnTable => OwnTable'
  BY <1>1 DEF OwnTable, Spent
<1> QED BY <1>2 DEF ArrayInv, StreamIs, Sound

LEMMA AssignCodeStays == CodesInv /\ Codes!AssignCode => CodesInv'
<1> SUFFICES ASSUME CodesInv, Codes!AssignCode PROVE CodesInv'
  OBVIOUS
<1>1. /\ stage \in {"encode", "decode"}
      /\ UNCHANGED <<values, table, bits, bitCount, damage, at, prefix, out, stage>>
  BY DEF Codes!AssignCode, Codes!streamVars, Codes!readerVars
<1>2. CanonInv /\ ArrayInv
  BY <1>1 DEF CodesInv, AtEncode, AtDecode
<1>3. CanonInv'
  BY <1>2, AssignCodeKeeps
<1>4. ArrayInv' /\ (StreamIs => StreamIs') /\ (Sound => Sound') /\ (OwnTable => OwnTable')
  BY <1>1, <1>2, StreamStays
<1>5. ReaderStart => ReaderStart'
  BY <1>1 DEF ReaderStart
<1>6. CASE stage = "encode"
  <2>1. AtEncode
    BY <1>6 DEF CodesInv
  <2> QED BY <1>1, <1>3, <1>4, <1>5, <1>6, <2>1 DEF CodesInv, AtEncode
<1>7. CASE stage = "decode"
  <2>1. AtDecode
    BY <1>7 DEF CodesInv
  <2> QED BY <1>1, <1>3, <1>4, <1>5, <1>7, <2>1 DEF CodesInv, AtDecode
<1> QED BY <1>1, <1>6, <1>7

(* The encoder never refuses its own table.                                *)
LEMMA RejectCodeKeeps == CodesInv /\ Codes!RejectCode => CodesInv'
<1> SUFFICES ASSUME CodesInv, Codes!RejectCode PROVE CodesInv'
  OBVIOUS
<1>1. /\ stage \in {"encode", "decode"} /\ pending # {} /\ ~Codes!Fits
      /\ stage' = "oversubscribed"
      /\ UNCHANGED <<values, table, bits, bitCount, damage>>
  BY DEF Codes!RejectCode, Codes!streamVars
<1>2. CanonInv /\ ArrayInv
  BY <1>1 DEF CodesInv, AtEncode, AtDecode
<1> DEFINE space == Codes!Kraft([k \in DOMAIN table |-> table[k].length])
<1>3. space > Codes!WholeSpace
  BY <1>1, <1>2, RefusedTable
<1>4. ~OwnTable
  <2>1. TableIs(table)
    BY <1>2 DEF CanonInv
  <2>2. space = Spent(DOMAIN table) /\ Codes!WholeSpace = Room(0) /\ space \in Nat /\ Room(0) \in Nat
    BY <2>1, SpaceIs
  <2> HIDE DEF space
  <2> QED BY <1>3, <2>2 DEF OwnTable
<1>5. damage # "none"
  BY <1>1, <1>4 DEF CodesInv, AtEncode, AtDecode, Sound
<1>6. space' > Codes!WholeSpace'
  BY <1>1, <1>3 DEF Codes!WholeSpace, Codes!Kraft
<1>7. ArrayInv'
  BY <1>1, <1>2, StreamStays
<1> QED BY <1>1, <1>5, <1>6, <1>7 DEF CodesInv, AtOversubscribed

LEMMA OwnCodes ==
  ASSUME ArrayInv, OwnTable, NEW cs, CodesOf(table, cs)
  PROVE  Known(Codes!Deltas(values), cs)
<1>1. /\ Codes!Deltas(values) \in Seq(Codes!Symbols)
      /\ Len(Codes!Deltas(values)) = Len(values) /\ Len(values) \in Nat
  BY DeltasAre DEF ArrayInv
<1>2. DOMAIN Codes!Deltas(values) = 1..Len(values)
  BY <1>1
<1>3. ASSUME NEW i \in 1..Len(values) PROVE \E c \in cs : c.symbol = Codes!Deltas(values)[i]
  <2>1. Codes!Deltas(values)[i] \in Alphabet
    BY AlphabetIs
  <2>2. PICK c \in cs : IsCodeOf(table, Codes!Deltas(values)[i], c)
    BY <2>1 DEF CodesOf, Canonical, OwnTable
  <2> QED BY <2>1, <2>2 DEF IsCodeOf, OwnTable
<1> QED BY <1>2, <1>3 DEF Known

LEMMA WriteKeeps == CodesInv /\ Codes!Write => CodesInv'
<1> SUFFICES ASSUME CodesInv, Codes!Write PROVE CodesInv'
  OBVIOUS
<1>1. /\ stage = "encode" /\ pending = {}
      /\ bits' = Codes!Encoded(Codes!Deltas(values), codes)
      /\ bitCount' = Len(bits') /\ stage' = "damage"
      /\ UNCHANGED <<values, table, damage, at, prefix, out>>
  BY DEF Codes!Write, Codes!readerVars
<1>2. CanonInv /\ ArrayInv /\ OwnTable /\ damage = "none" /\ ReaderStart
  BY <1>1 DEF CodesInv, AtEncode
<1>3. CodesOf(table, codes)
  BY <1>1, <1>2, FinishedTable DEF CodesOf, CanonInv
<1>4. bits' \in Seq(Bit) /\ Len(bits') \in Nat
  <2>1. Codes!Deltas(values) \in Seq(Codes!Symbols)
    BY <1>2, DeltasAre DEF ArrayInv
  <2> QED BY <1>1, <1>2, <1>3, <2>1, OwnCodes, EncodedIs
<1>5. \A cs : CodesOf(table, cs) => bits' = Codes!Encoded(Codes!Deltas(values), cs)
  BY <1>1, <1>3, SameCodes
<1>6. OwnTable'
  <2>1. Alphabet' = Alphabet
    BY <1>1 DEF Alphabet
  <2> QED BY <1>1, <1>2, <2>1 DEF OwnTable, Spent
<1>7. StreamIs'
  <2>1. TableIs(table)
    BY <1>2 DEF OwnTable
  <2>2. \A k \in DOMAIN table : table[k].symbol \in Nat /\ table[k].length \in 0..MaxValues
    BY <2>1, CodesAssumed DEF TableIs
  <2> QED BY <1>1, <1>4, <2>1, <2>2 DEF StreamIs, TableIs
<1>8. Sound'
  BY <1>1, <1>5, <1>6 DEF Sound
<1> QED BY <1>1, <1>2, <1>7, <1>8 DEF CodesInv, AtDamage, ReaderStart, ArrayInv

LEMMA IntactKeeps == CodesInv /\ Codes!Intact => CodesInv'
<1> SUFFICES ASSUME CodesInv, Codes!Intact PROVE CodesInv'
  OBVIOUS
<1>1. /\ stage = "damage" /\ stage' = "table" /\ damage' = "none"
      /\ UNCHANGED <<values, table, bits, bitCount, at, prefix, out>>
  BY DEF Codes!Intact, Codes!Damage, Codes!readerVars
<1>2. AtDamage /\ ArrayInv
  BY <1>1 DEF CodesInv
<1>3. ArrayInv' /\ StreamIs' /\ Sound'
  BY <1>1, <1>2, StreamStays DEF AtDamage
<1> QED BY <1>1, <1>2, <1>3 DEF CodesInv, AtTable, AtDamage, ReaderStart

LEMMA DamageKeeps ==
  ASSUME CodesInv, Codes!BadBit \/ Codes!BadTable \/ Codes!BadBitCount
  PROVE  CodesInv'
<1>1. /\ stage = "damage" /\ stage' = "table" /\ damage' # "none"
      /\ UNCHANGED <<values, at, prefix, out>>
  BY DEF Codes!BadBit, Codes!BadTable, Codes!BadBitCount, Codes!Damage, Codes!readerVars
<1>2. AtDamage /\ ArrayInv
  BY <1>1 DEF CodesInv
<1>3. StreamIs'
  <2>1. CASE Codes!BadBit
    <3>1. PICK i \in DOMAIN bits : bits' = [bits EXCEPT ![i] = 1 - @]
      BY <2>1 DEF Codes!BadBit
    <3>2. UNCHANGED <<table, bitCount>>
      BY <2>1 DEF Codes!BadBit
    <3>3. bits \in Seq(Bit)
      BY <1>2 DEF AtDamage, StreamIs
    <3>4. bits[i] \in Bit /\ 1 - bits[i] \in Bit
      BY <3>3 DEF Bit
    <3>5. bits' \in Seq(Bit)
      BY <3>1, <3>3, <3>4
    <3> QED BY <1>2, <3>2, <3>5 DEF AtDamage, StreamIs
  <2>2. CASE Codes!BadTable
    <3>1. PICK k \in DOMAIN table, symbol \in 0..Modulus, length \in 0..MaxValues :
            table' = [table EXCEPT ![k] = [symbol |-> symbol, length |-> length]]
      BY <2>2 DEF Codes!BadTable
    <3>2. UNCHANGED <<bits, bitCount>>
      BY <2>2 DEF Codes!BadTable
    <3>3. DOMAIN table' = DOMAIN table
      BY <3>1
    <3>4. ASSUME NEW l \in DOMAIN table
          PROVE  table'[l].symbol \in Nat /\ table'[l].length \in 0..MaxValues
      <4>1. CASE l = k
        BY <3>1, <4>1, CodesAssumed
      <4>2. CASE l # k
        BY <1>2, <3>1, <4>2 DEF AtDamage, StreamIs
      <4> QED BY <4>1, <4>2
    <3> QED BY <1>2, <3>2, <3>3, <3>4 DEF AtDamage, StreamIs
  <2>3. CASE Codes!BadBitCount
    <3>1. bits \in Seq(Bit) /\ Len(bits) \in Nat
      BY <1>2 DEF AtDamage, StreamIs
    <3>2. bitCount' \in Nat
      BY <2>3, <3>1, CodesAssumed DEF Codes!BadBitCount
    <3>3. UNCHANGED <<bits, table>>
      BY <2>3 DEF Codes!BadBitCount
    <3> QED BY <1>2, <3>2, <3>3 DEF AtDamage, StreamIs
  <2> QED BY <2>1, <2>2, <2>3
<1> QED BY <1>1, <1>2, <1>3 DEF CodesInv, AtTable, AtDamage, ReaderStart, ArrayInv, Sound

LEMMA ReadTableKeeps == CodesInv /\ Codes!ReadTable => CodesInv'
<1> SUFFICES ASSUME CodesInv, Codes!ReadTable PROVE CodesInv'
  OBVIOUS
<1>1. /\ stage = "table" /\ stage' = "decode" /\ Codes!TableFits
      /\ pending' = Codes!Range(table) /\ following' = <<>> /\ overflow' = FALSE /\ codes' = {}
      /\ UNCHANGED <<values, table, bits, bitCount, damage, at, prefix, out>>
  BY DEF Codes!ReadTable, Codes!StartCodes, Codes!streamVars, Codes!readerVars
<1>2. AtTable /\ ArrayInv
  BY <1>1 DEF CodesInv
<1>3. TableIs(table)
  <2>1. \A k \in DOMAIN table :
          /\ table[k].symbol \in Nat /\ table[k].length \in 0..MaxValues
          /\ table[k].symbol < Modulus /\ table[k].length > 0
    BY <1>1, <1>2 DEF AtTable, StreamIs, Codes!TableFits
  <2>2. \A k \in DOMAIN table : table[k].symbol \in Codes!Symbols /\ table[k].length \in 1..MaxValues
    BY <2>1, CodesAssumed
  <2> QED BY <1>1, <1>2, <2>2 DEF AtTable, StreamIs, Codes!TableFits, TableIs
<1>4. pending' = {table'[k] : k \in DOMAIN table'}
  BY <1>1 DEF Codes!Range
<1>5. CanonInv'
  BY <1>1, <1>3, <1>4, CodesStart
<1>6. ArrayInv' /\ StreamIs' /\ Sound'
  BY <1>1, <1>2, StreamStays DEF AtTable
<1> QED BY <1>1, <1>2, <1>5, <1>6 DEF CodesInv, AtDecode, AtTable, ReaderStart

(* The decoder never refuses the table of an undamaged stream.             *)
LEMMA RejectTableKeeps == CodesInv /\ Codes!RejectTable => CodesInv'
<1> SUFFICES ASSUME CodesInv, Codes!RejectTable PROVE CodesInv'
  OBVIOUS
<1>1. /\ stage = "table" /\ stage' = "rejected" /\ ~Codes!TableFits
      /\ UNCHANGED <<values, table, bits, bitCount, damage>>
  BY DEF Codes!RejectTable, Codes!Reject, Codes!streamVars
<1>2. AtTable /\ ArrayInv
  BY <1>1 DEF CodesInv
<1>3. damage # "none"
  <2> SUFFICES ASSUME damage = "none" PROVE FALSE
    OBVIOUS
  <2>1. TableIs(table) /\ bitCount = Len(bits)
    BY <1>2 DEF AtTable, Sound, OwnTable
  <2>2. \A k \in DOMAIN table : table[k].symbol < Modulus /\ table[k].length > 0
    BY <2>1, CodesAssumed DEF TableIs
  <2> QED BY <1>1, <2>1, <2>2 DEF Codes!TableFits, TableIs
<1>4. ArrayInv'
  BY <1>1, <1>2, StreamStays
<1> QED BY <1>1, <1>3, <1>4 DEF CodesInv

LEMMA CodesDoneKeeps == CodesInv /\ Codes!CodesDone => CodesInv'
<1> SUFFICES ASSUME CodesInv, Codes!CodesDone PROVE CodesInv'
  OBVIOUS
<1>1. /\ stage = "decode" /\ pending = {} /\ stage' = "bits"
      /\ UNCHANGED <<values, table, bits, bitCount, damage, codes, at, prefix, out>>
  BY DEF Codes!CodesDone, Codes!streamVars, Codes!canonicalVars, Codes!readerVars
<1>2. AtDecode /\ ArrayInv
  BY <1>1 DEF CodesInv
<1>3. CodesOf(table, codes)
      /\ Codes!Kraft([k \in DOMAIN table |-> table[k].length]) <= Codes!WholeSpace
  BY <1>1, <1>2, FinishedTable DEF CodesOf, CanonInv, AtDecode
<1>4. at = 0 /\ prefix = <<>> /\ out = <<>> /\ bitCount \in Nat
  BY <1>2 DEF AtDecode, ReaderStart, StreamIs
<1>5. IsArray(<<>>) /\ Len(<<>>) = 0 /\ <<>> \in Seq(Bit)
  BY CodesAssumed DEF IsArray
<1>6. Codes!Deltas(<<>>) = <<>>
  <2>1. Codes!Deltas(<<>>) \in Seq(Codes!Symbols) /\ Len(Codes!Deltas(<<>>)) = 0
    BY <1>5, DeltasAre
  <2> QED BY <2>1
<1>7. Codes!Encoded(<<>>, codes) \o <<>> = <<>>
  BY <1>5, EncodedNothing, WithNothing
<1>8. ReadTo(0) = <<>>
  BY DEF ReadTo
<1>9. ReadingInv
  <2>1. Len(values) > 0 /\ Len(values) \in Nat
    BY <1>2, DeltasAre DEF ArrayInv
  <2>2. Known(<<>>, codes)
    BY DEF Known
  <2> QED BY <1>3, <1>4, <1>5, <1>6, <1>7, <1>8, <2>1, <2>2 DEF ReadingInv
<1>10. Follows
  <2>1. Len(values) > 0 /\ Len(values) \in Nat
    BY <1>2, DeltasAre DEF ArrayInv
  <2>2. \A c \in codes : Len(c.code) \in 1..MaxValues
    BY <1>3, CodeOfIs
  <2> QED BY <1>4, <1>5, <2>1, <2>2, CodesAssumed DEF Follows
<1>11. ArrayInv' /\ StreamIs' /\ Sound'
  BY <1>1, <1>2, StreamStays DEF AtDecode
<1>12. ReadingInv' /\ Follows'
  BY <1>1, <1>9, <1>10 DEF ReadingInv, Follows, ReadTo, Codes!WholeSpace, Codes!Kraft
<1> QED BY <1>1, <1>11, <1>12 DEF CodesInv, AtBits

-------------------------------------------------------------------------------
(* ---- huffman.cpp:159-189 ------------------------------------------------- *)

LEMMA PrefixIs ==
  ASSUME NEW s \in Seq(Bit), NEW t \in Seq(Bit), Len(s) <= Len(t),
         \A q \in 1..Len(s) : t[q] = s[q]
  PROVE  Codes!IsPrefix(s, t) /\ (Len(s) = Len(t) => s = t)
<1> DEFINE n == Len(s)
<1>1. n \in Nat /\ n \in 0..Len(s) /\ n \in 0..Len(t)
  OBVIOUS
<1> HIDE DEF n
<1>2. /\ SubSeq(s, 1, n) \in Seq(Bit) /\ Len(SubSeq(s, 1, n)) = n
      /\ \A q \in 1..n : SubSeq(s, 1, n)[q] = s[q]
  BY <1>1, FirstPart
<1>3. /\ SubSeq(t, 1, n) \in Seq(Bit) /\ Len(SubSeq(t, 1, n)) = n
      /\ \A q \in 1..n : SubSeq(t, 1, n)[q] = t[q]
  BY <1>1, FirstPart
<1>4. SubSeq(s, 1, n) = SubSeq(t, 1, n)
  <2> DEFINE u == SubSeq(s, 1, n)
             v == SubSeq(t, 1, n)
  <2>1. \A q \in 1..n : u[q] = v[q]
    BY <1>2, <1>3 DEF n
  <2>2. u \in Seq(Bit) /\ v \in Seq(Bit) /\ Len(u) = n /\ Len(v) = n
    BY <1>2, <1>3
  <2> HIDE DEF u, v
  <2>3. u = v
    BY <2>1, <2>2
  <2> QED BY <2>3 DEF u, v
<1>5. Len(s) = Len(t) => s = t
  OBVIOUS
<1> QED BY <1>4, <1>5 DEF Codes!IsPrefix, n

Before == Codes!Encoded(Codes!Deltas(out), codes)

LEMMA ReadIs ==
  ASSUME ArrayInv, StreamIs, ReadingInv
  PROVE  /\ Before \in Seq(Bit) /\ Len(Before) \in Nat /\ Len(prefix) \in Nat
         /\ Len(out) \in Nat /\ Len(values) \in Nat /\ at \in Nat /\ bitCount \in Nat
         /\ Codes!Deltas(out) \in Seq(Codes!Symbols) /\ Last(out) \in Codes!Symbols
         /\ \A k \in Nat : ReadTo(k) \in Seq(Bit) /\ Len(ReadTo(k)) = k
         /\ at = Len(Before) + Len(prefix)
         /\ Before \o prefix = ReadTo(at)
<1>1. /\ Codes!Deltas(out) \in Seq(Codes!Symbols) /\ Len(out) \in Nat /\ Last(out) \in Codes!Symbols
  BY DeltasAre DEF ReadingInv
<1>2. Before \in Seq(Bit) /\ Len(Before) \in Nat
  BY <1>1, EncodedIs DEF ReadingInv, Before
<1>3. prefix \in Seq(Bit) /\ Len(prefix) \in Nat /\ at \in Nat /\ bitCount \in Nat
  BY DEF ReadingInv, StreamIs
<1>4. ASSUME NEW k \in Nat PROVE ReadTo(k) \in Seq(Bit) /\ Len(ReadTo(k)) = k
  <2>1. \A i \in 1..k : (IF i <= Len(bits) THEN bits[i] ELSE 0) \in Bit
    <3>1. bits \in Seq(Bit) /\ Len(bits) \in Nat /\ 0 \in Bit
      BY DEF StreamIs, Bit
    <3> QED BY <3>1
  <2> DEFINE e(i) == IF i <= Len(bits) THEN bits[i] ELSE 0
  <2>2. ReadTo(k) = [i \in 1..k |-> e(i)]
    BY DEF ReadTo
  <2> HIDE DEF e
  <2>3. \A i \in 1..k : e(i) \in Bit
    BY <2>1 DEF e
  <2> QED BY <2>2, <2>3
<1>5. Before \o prefix = ReadTo(at)
  BY DEF ReadingInv, Before
<1>6. Len(Before \o prefix) = Len(Before) + Len(prefix)
  BY <1>2, <1>3, Concatenation
<1>7. Len(values) \in Nat
  BY DeltasAre DEF ArrayInv
<1> QED BY <1>1, <1>2, <1>3, <1>4, <1>5, <1>6, <1>7

LEMMA NextBit ==
  ASSUME ArrayInv, StreamIs, ReadingInv
  PROVE  /\ Codes!NextPrefix \in Seq(Bit) /\ Len(Codes!NextPrefix) = Len(prefix) + 1
         /\ \A q \in 1..Len(prefix) : Codes!NextPrefix[q] = prefix[q]
         /\ Codes!NextPrefix[Len(prefix) + 1] = IF at < Len(bits) THEN bits[at + 1] ELSE 0
         /\ Before \o Codes!NextPrefix = ReadTo(at + 1)
<1> DEFINE b == IF at < Len(bits) THEN bits[at + 1] ELSE 0
           p == prefix
           s == ReadTo(at)
           t == ReadTo(at + 1)
<1>1. /\ Before \in Seq(Bit) /\ Len(Before) \in Nat /\ p \in Seq(Bit) /\ Len(p) \in Nat
      /\ at \in Nat /\ at = Len(Before) + Len(p) /\ Before \o p = s
  BY ReadIs DEF ReadingInv
<1>2. s \in Seq(Bit) /\ Len(s) = at /\ t \in Seq(Bit) /\ Len(t) = at + 1
  <2>1. at \in Nat /\ at + 1 \in Nat
    BY <1>1
  <2> QED BY <2>1, ReadIs
<1>3. b \in Bit /\ Len(bits) \in Nat
  <2>1. bits \in Seq(Bit) /\ Len(bits) \in Nat /\ 0 \in Bit
    BY DEF StreamIs, Bit
  <2> QED BY <1>1, <2>1
<1>4. (\A i \in 1..at : t[i] = s[i]) /\ t[at + 1] = b
  <2>1. at + 1 <= Len(bits) <=> at < Len(bits)
    BY <1>1, <1>3
  <2>2. at + 1 \in 1..(at + 1) /\ \A i \in 1..at : i \in 1..(at + 1)
    BY <1>1
  <2> QED BY <2>1, <2>2 DEF ReadTo
<1>5. Codes!NextPrefix = Append(p, b)
  BY DEF Codes!NextPrefix
<1> HIDE DEF b, s, t
<1> DEFINE w == Codes!NextPrefix
<1>6. w \in Seq(Bit) /\ Len(w) = Len(p) + 1 /\ w[Len(p) + 1] = b /\ \A q \in 1..Len(p) : w[q] = p[q]
  BY <1>1, <1>3, <1>5
<1> HIDE DEF w
<1>7. t = Append(s, b)
  <2>1. Append(s, b) \in Seq(Bit) /\ Len(Append(s, b)) = at + 1
        /\ \A i \in 1..(at + 1) : Append(s, b)[i] = IF i \in 1..at THEN s[i] ELSE b
    BY <1>1, <1>2, <1>3
  <2>2. \A i \in 1..(at + 1) : t[i] = Append(s, b)[i]
    BY <1>1, <1>4, <2>1
  <2> QED BY <1>2, <2>1, <2>2
<1>8. Before \o Append(p, b) = Append(Before \o p, b)
  BY <1>1, <1>3
<1> QED BY <1>1, <1>5, <1>6, <1>7, <1>8 DEF w, b, t

(* What comes next in an undamaged stream.                                 *)
LEMMA FollowingCode ==
  ASSUME ArrayInv, AtBits, damage = "none", Len(out) < Len(values)
  PROVE  \E c \in codes :
           /\ c.symbol = Codes!Deltas(values)[Len(out) + 1]
           /\ c.code \in Seq(Bit) /\ Len(c.code) \in Nat /\ Len(prefix) < Len(c.code)
           /\ Len(Before) + Len(c.code) <= bitCount /\ bitCount = Len(bits)
           /\ \A q \in 1..Len(c.code) : bits[Len(Before) + q] = c.code[q]
           /\ \A q \in 1..Len(Before) : bits[q] = Before[q]
<1> DEFINE s == Codes!Deltas(values)
           r == Codes!Deltas(out)
           m == Len(out)
<1>1. StreamIs /\ Sound /\ ReadingInv /\ Follows
  BY DEF AtBits
<1>2. /\ s \in Seq(Codes!Symbols) /\ Len(s) = Len(values) /\ Len(values) \in Nat
      /\ \A i \in 1..Len(values) : s[i] = (values[i] - (IF i = 1 THEN 0 ELSE values[i - 1])) % Modulus
  BY DeltasAre DEF ArrayInv
<1>3. /\ r \in Seq(Codes!Symbols) /\ Len(r) = m /\ m \in Nat
      /\ \A i \in 1..m : r[i] = (out[i] - (IF i = 1 THEN 0 ELSE out[i - 1])) % Modulus
  BY <1>1, DeltasAre DEF ReadingInv
<1>4. CodesOf(table, codes) /\ OwnTable
  BY <1>1 DEF ReadingInv, Sound
<1>5. Known(s, codes)
  BY <1>4, OwnCodes
<1> HIDE DEF s, r, m
<1>6. m < Len(values) /\ m + 1 \in 1..Len(values) /\ DOMAIN s = 1..Len(values)
  BY <1>2, <1>3 DEF m
<1>7. PICK c \in codes : c.symbol = s[m + 1]
  BY <1>5, <1>6 DEF Known
<1>8. \A i \in 1..m : r[i] = s[i]
  <2> TAKE i \in 1..m
  <2>1. i \in 1..Len(values) /\ out[i] = values[i]
    BY <1>1, <1>2, <1>3, <1>6 DEF Follows, m
  <2>2. i # 1 => i - 1 \in 1..m /\ out[i - 1] = values[i - 1]
    BY <1>1, <1>3 DEF Follows, m
  <2> QED BY <1>2, <1>3, <2>1, <2>2
<1>9. bits = Codes!Encoded(s, codes) /\ bitCount = Len(bits)
  BY <1>1, <1>4 DEF Sound, s
<1>10. Before = Codes!Encoded(r, codes)
  BY DEF Before, r
<1>11. /\ Len(Before) + Len(c.code) <= Len(bits)
       /\ \A q \in 1..Len(Before) : bits[q] = Before[q]
       /\ \A q \in 1..Len(c.code) : bits[Len(Before) + q] = c.code[q]
  <2>1. m < Len(s)
    BY <1>2, <1>6
  <2>2. m \in Nat /\ s \in Seq(Codes!Symbols) /\ r \in Seq(Codes!Symbols) /\ Len(r) = m
        /\ CodesOf(table, codes) /\ Known(s, codes) /\ c \in codes /\ c.symbol = s[m + 1]
        /\ \A i \in 1..m : r[i] = s[i]
    BY <1>2, <1>3, <1>4, <1>5, <1>7, <1>8
  <2> DEFINE e == Codes!Encoded(s, codes)
             h == Codes!Encoded(r, codes)
  <2>3. /\ Len(h) + Len(c.code) <= Len(e)
        /\ \A q \in 1..Len(h) : e[q] = h[q]
        /\ \A q \in 1..Len(c.code) : e[Len(h) + q] = c.code[q]
    BY <2>1, <2>2, EncodedPart
  <2> HIDE DEF e, h
  <2>4. bits = e /\ Before = h
    BY <1>9, <1>10 DEF e, h
  <2> QED BY <2>3, <2>4
<1>12. c.code \in Seq(Bit) /\ Len(c.code) \in Nat
  BY <1>4, CodeOfIs
<1>13. Len(prefix) < Len(c.code)
  BY <1>1, <1>6, <1>7 DEF Follows, m, s
<1> QED BY <1>7, <1>9, <1>11, <1>12, <1>13 DEF s, m

LEMMA AllRead ==
  ASSUME ArrayInv, AtBits, damage = "none", Len(out) = Len(values)
  PROVE  prefix = <<>> /\ out = values /\ at = bitCount
<1>1. StreamIs /\ Sound /\ ReadingInv /\ Follows
  BY DEF AtBits
<1>2. prefix = <<>>
  BY <1>1 DEF Follows
<1>3. out = values
  <2>1. out \in Seq(Codes!Symbols) /\ values \in Seq(Codes!Symbols)
    BY <1>1 DEF ReadingInv, ArrayInv, IsArray
  <2> QED BY <1>1, <2>1 DEF Follows
<1>4. bits = Before /\ bitCount = Len(bits)
  BY <1>1, <1>3 DEF Sound, ReadingInv, Before
<1>5. at = Len(Before) + Len(prefix) /\ Len(Before) \in Nat
  BY <1>1, ReadIs
<1>6. Len(prefix) = 0
  BY <1>2
<1> QED BY <1>2, <1>3, <1>4, <1>5, <1>6

(* The bit read next continues that code.                                  *)
LEMMA Following ==
  ASSUME ArrayInv, AtBits, damage = "none", at < bitCount
  PROVE  /\ Len(out) < Len(values)
         /\ \E c \in codes :
              /\ c.symbol = Codes!Deltas(values)[Len(out) + 1]
              /\ c.code \in Seq(Bit) /\ Len(Codes!NextPrefix) <= Len(c.code)
              /\ \A q \in 1..Len(Codes!NextPrefix) : c.code[q] = Codes!NextPrefix[q]
<1>1. StreamIs /\ ReadingInv
  BY DEF AtBits
<1>2. /\ Before \in Seq(Bit) /\ Len(Before) \in Nat /\ Len(prefix) \in Nat
      /\ Len(out) \in Nat /\ Len(values) \in Nat /\ at \in Nat /\ bitCount \in Nat
      /\ at = Len(Before) + Len(prefix) /\ Before \o prefix = ReadTo(at)
  BY <1>1, ReadIs
<1>3. Len(out) < Len(values)
  <2>1. Len(out) # Len(values)
    BY <1>2, AllRead
  <2> QED BY <1>1, <1>2, <2>1 DEF ReadingInv
<1>4. PICK c \in codes :
        /\ c.symbol = Codes!Deltas(values)[Len(out) + 1]
        /\ c.code \in Seq(Bit) /\ Len(c.code) \in Nat /\ Len(prefix) < Len(c.code)
        /\ Len(Before) + Len(c.code) <= bitCount /\ bitCount = Len(bits)
        /\ \A q \in 1..Len(c.code) : bits[Len(Before) + q] = c.code[q]
  BY <1>3, FollowingCode
<1> DEFINE w == Codes!NextPrefix
<1>5. /\ w \in Seq(Bit) /\ Len(w) = Len(prefix) + 1
      /\ \A q \in 1..Len(prefix) : w[q] = prefix[q]
      /\ w[Len(prefix) + 1] = IF at < Len(bits) THEN bits[at + 1] ELSE 0
  BY <1>1, NextBit
<1> HIDE DEF w
<1>6. ASSUME NEW q \in 1..Len(prefix) PROVE c.code[q] = prefix[q]
  <2>1. q \in 1..Len(c.code) /\ Len(Before) + q \in 1..at /\ Len(Before) + q <= Len(bits)
    BY <1>2, <1>4
  <2>2. (Before \o prefix)[Len(Before) + q] = prefix[q]
    BY <1>1, <1>2, Concatenation DEF ReadingInv
  <2>3. ReadTo(at)[Len(Before) + q] = bits[Len(Before) + q]
    BY <2>1 DEF ReadTo
  <2> QED BY <1>2, <1>4, <2>1, <2>2, <2>3
<1>7. c.code[Len(prefix) + 1] = w[Len(prefix) + 1]
  <2>1. Len(prefix) + 1 \in 1..Len(c.code) /\ Len(Before) + (Len(prefix) + 1) = at + 1
    BY <1>2, <1>4
  <2>2. at < Len(bits)
    BY <1>4
  <2> QED BY <1>4, <1>5, <2>1, <2>2
<1>8. \A q \in 1..Len(w) : c.code[q] = w[q]
  <2> TAKE q \in 1..Len(w)
  <2>1. q \in 1..Len(prefix) \/ q = Len(prefix) + 1
    BY <1>2, <1>5
  <2> QED BY <1>5, <1>6, <1>7, <2>1
<1>9. Len(w) <= Len(c.code)
  BY <1>2, <1>4, <1>5
<1> QED BY <1>3, <1>4, <1>8, <1>9 DEF w

(* A bit inside of a code.                                                 *)
LEMMA InnerBit == ASSUME CodesInv, Codes!ReadBit, ~Codes!Leaf PROVE CodesInv'
<1> DEFINE w == Codes!NextPrefix
<1>1. /\ stage = "bits" /\ at < bitCount
      /\ at' = at + 1 /\ prefix' = w /\ out' = out
      /\ UNCHANGED <<values, table, bits, bitCount, damage, codes, stage>>
  BY DEF Codes!ReadBit, Codes!AtBit, Codes!streamVars, Codes!canonicalVars
<1>2. AtBits /\ ArrayInv /\ StreamIs /\ Sound /\ ReadingInv
  BY <1>1 DEF CodesInv, AtBits
<1>3. /\ w \in Seq(Bit) /\ Len(w) = Len(prefix) + 1 /\ Before \o w = ReadTo(at + 1)
  BY <1>2, NextBit
<1>4. at \in Nat /\ bitCount \in Nat /\ Len(out) \in Nat /\ Len(values) \in Nat /\ Len(prefix) \in Nat
  BY <1>2, ReadIs
<1>5. ASSUME damage = "none"
      PROVE  /\ Len(out) < Len(values)
             /\ \A d \in codes : d.symbol = Codes!Deltas(values)[Len(out) + 1] =>
                                   Len(w) < Len(d.code)
  <2>1. Len(out) < Len(values)
    BY <1>1, <1>2, <1>5, Following
  <2>2. PICK c \in codes :
          /\ c.symbol = Codes!Deltas(values)[Len(out) + 1]
          /\ c.code \in Seq(Bit) /\ Len(w) <= Len(c.code)
          /\ \A q \in 1..Len(w) : c.code[q] = w[q]
    BY <1>1, <1>2, <1>5, Following
  <2>3. Len(w) # Len(c.code)
    <3>1. c.code # w
      BY DEF Codes!Leaf
    <3> HIDE DEF w
    <3> QED BY <1>3, <2>2, <3>1, PrefixIs
  <2>4. \A d \in codes : d.symbol = c.symbol => d = c
    BY <1>2, CanonicalPrefixFree DEF ReadingInv, CodesOf
  <2>5. Len(w) < Len(c.code)
    <3>1. Len(c.code) \in Nat /\ Len(w) \in Nat
      BY <1>3, <1>4, <2>2
    <3> QED BY <2>2, <2>3, <3>1
  <2> QED BY <2>1, <2>2, <2>4, <2>5
<1> HIDE DEF w
<1>6. ArrayInv' /\ StreamIs' /\ Sound'
  BY <1>1, <1>2, StreamStays
<1>7. ReadingInv'
  <2>1. at + 1 \in 0..bitCount
    BY <1>1, <1>4
  <2>2. ReadTo(at + 1)' = [i \in 1..(at + 1)' |-> IF i <= Len(bits)' THEN bits'[i] ELSE 0]
    BY DEF ReadTo
  <2>3. Codes!Encoded(Codes!Deltas(out), codes) \o w = ReadTo(at + 1)
    BY <1>3 DEF Before
  <2>4. Codes!Kraft([k \in DOMAIN table' |-> table'[k].length]) <= Codes!WholeSpace'
    BY <1>1, <1>2 DEF ReadingInv, Codes!WholeSpace, Codes!Kraft
  <2>5. (ReadTo(at))' = ReadTo(at + 1)
    BY <1>1 DEF ReadTo
  <2>6. /\ CodesOf(table', codes') /\ IsArray(out') /\ Len(out') <= Len(values')
        /\ Known(Codes!Deltas(out'), codes')
    BY <1>1, <1>2 DEF ReadingInv
  <2>7. (Codes!Encoded(Codes!Deltas(out), codes) \o prefix)' = (ReadTo(at))'
    BY <1>1, <2>3, <2>5
  <2>8. prefix' \in Seq(Bit) /\ at' \in 0..bitCount'
    BY <1>1, <1>3, <2>1
  <2> QED BY <1>1, <2>4, <2>6, <2>7, <2>8 DEF ReadingInv, Codes!Kraft, Codes!WholeSpace
<1>8. (damage = "none" => Follows)'
  BY <1>1, <1>2, <1>4, <1>5 DEF Follows, AtBits
<1> QED BY <1>1, <1>6, <1>7, <1>8 DEF CodesInv, AtBits

(* The bit that completes a code.                                          *)
LEMMA LastBit == ASSUME CodesInv, Codes!ReadBit, Codes!Leaf PROVE CodesInv'
<1> DEFINE w == Codes!NextPrefix
           c == CHOOSE c \in codes : c.code = w
           v == c.symbol
           m == Len(out)
           x == (Last(out) + v) % Modulus
<1>1. /\ stage = "bits" /\ at < bitCount /\ m < Len(values)
      /\ at' = at + 1 /\ prefix' = <<>> /\ out' = Append(out, x)
      /\ UNCHANGED <<values, table, bits, bitCount, damage, codes, stage>>
  BY DEF Codes!ReadBit, Codes!AtBit, Codes!streamVars, Codes!canonicalVars, Codes!Value,
         Codes!Previous, Last
<1>2. AtBits /\ ArrayInv /\ StreamIs /\ Sound /\ ReadingInv
  BY <1>1 DEF CodesInv, AtBits
<1>3. w \in Seq(Bit) /\ Before \o w = ReadTo(at + 1)
  BY <1>2, NextBit
<1>4. /\ at \in Nat /\ bitCount \in Nat /\ m \in Nat /\ Len(values) \in Nat
      /\ Codes!Deltas(out) \in Seq(Codes!Symbols) /\ Last(out) \in Codes!Symbols
  BY <1>2, ReadIs
<1>5. c \in codes /\ c.code = w
  BY DEF Codes!Leaf
<1> HIDE DEF w, c
<1>6. CodesOf(table, codes) /\ Known(Codes!Deltas(out), codes) /\ IsArray(out)
      /\ Len(values) <= MaxValues
  BY <1>2 DEF ReadingInv, ArrayInv, IsArray
<1>7. v \in Codes!Symbols
  BY <1>5, <1>6, CodeOfIs
<1>8. IsArray(out') /\ Codes!Deltas(out') = Append(Codes!Deltas(out), v)
  <2>1. Len(out) < MaxValues
    BY <1>1, <1>4, <1>6, CodesAssumed
  <2> HIDE DEF v
  <2> QED BY <1>1, <1>6, <1>7, <2>1, DeltaAppended
<1>9. /\ Codes!Encoded(Append(Codes!Deltas(out), v), codes) = Before \o w
      /\ Known(Append(Codes!Deltas(out), v), codes)
  BY <1>4, <1>5, <1>6, EncodedAppended DEF Before
<1>10. out \in Seq(Codes!Symbols) /\ x \in Codes!Symbols
  BY <1>4, <1>6, <1>7, StepBack DEF IsArray
<1> HIDE DEF v, x, m
<1>11. Len(out') = m + 1 /\ out'[m + 1] = x /\ \A i \in 1..m : out'[i] = out[i]
  <2>1. Len(out) \in Nat
    BY <1>4 DEF m
  <2> QED BY <1>1, <1>10, <2>1 DEF m
<1>12. ArrayInv' /\ StreamIs' /\ Sound'
  BY <1>1, <1>2, StreamStays
<1>13. ReadingInv'
  <2>1. Codes!Encoded(Codes!Deltas(out'), codes) \in Seq(Bit)
    <3>1. Codes!Deltas(out') \in Seq(Codes!Symbols)
      BY <1>8, DeltasAre
    <3> QED BY <1>6, <1>8, <1>9, <3>1, EncodedIs
  <2>2. Codes!Encoded(Codes!Deltas(out'), codes) \o <<>> = ReadTo(at + 1)
    BY <1>3, <1>8, <1>9, <2>1, WithNothing
  <2>3. (ReadTo(at))' = ReadTo(at + 1)
    BY <1>1 DEF ReadTo
  <2>4. Codes!Kraft([k \in DOMAIN table' |-> table'[k].length]) <= Codes!WholeSpace'
    BY <1>1, <1>2 DEF ReadingInv, Codes!WholeSpace, Codes!Kraft
  <2>5. (Codes!Encoded(Codes!Deltas(out), codes) \o prefix)' = (ReadTo(at))'
    BY <1>1, <2>2, <2>3
  <2>6. /\ CodesOf(table', codes') /\ IsArray(out') /\ Len(out') <= Len(values')
        /\ Known(Codes!Deltas(out'), codes')
    BY <1>1, <1>4, <1>6, <1>8, <1>9, <1>11
  <2>7. prefix' \in Seq(Bit) /\ at' \in 0..bitCount'
    <3>1. <<>> \in Seq(Bit)
      OBVIOUS
    <3> QED BY <1>1, <1>4, <3>1
  <2> QED BY <1>1, <2>4, <2>5, <2>6, <2>7 DEF ReadingInv, Codes!Kraft, Codes!WholeSpace
<1>14. ASSUME damage = "none" PROVE Follows'
  <2>1. Follows
    BY <1>2, <1>14 DEF AtBits
  <2>2. PICK d \in codes :
          /\ d.symbol = Codes!Deltas(values)[m + 1]
          /\ d.code \in Seq(Bit) /\ Len(w) <= Len(d.code)
          /\ \A q \in 1..Len(w) : d.code[q] = w[q]
    BY <1>1, <1>2, <1>14, Following DEF w, m
  <2>3. c = d
    <3>1. Codes!IsPrefix(c.code, d.code)
      BY <1>3, <1>5, <2>2, PrefixIs
    <3> QED BY <1>5, <1>6, <3>1, CanonicalPrefixFree DEF CodesOf
  <2>4. v = (values[m + 1] - Last(out)) % Modulus /\ values[m + 1] \in Codes!Symbols
    <3>1. m + 1 \in 1..Len(values)
      BY <1>1, <1>4
    <3>2. v = (values[m + 1] - (IF m + 1 = 1 THEN 0 ELSE values[(m + 1) - 1])) % Modulus
      <4>1. Codes!Deltas(values)[m + 1] =
              (values[m + 1] - (IF m + 1 = 1 THEN 0 ELSE values[(m + 1) - 1])) % Modulus
        BY <1>2, <3>1, DeltasAre DEF ArrayInv
      <4>2. v = Codes!Deltas(values)[m + 1]
        BY <2>2, <2>3 DEF v
      <4> QED BY <4>1, <4>2
    <3>3. (IF m + 1 = 1 THEN 0 ELSE values[(m + 1) - 1]) = Last(out)
      <4>1. m = 0 <=> out = <<>>
        BY <1>10 DEF m
      <4>2. CASE m = 0
        BY <4>1, <4>2 DEF Last
      <4>3. CASE m # 0
        <5>1. m \in 1..Len(out) /\ m + 1 # 1 /\ (m + 1) - 1 = m
          BY <1>4, <4>3 DEF m
        <5>2. Last(out) = out[m]
          BY <4>1, <4>3 DEF Last, m
        <5> QED BY <2>1, <5>1, <5>2 DEF Follows
      <4> QED BY <4>2, <4>3
    <3>4. values[m + 1] \in Codes!Symbols
      BY <1>2, <3>1 DEF ArrayInv, IsArray
    <3> QED BY <3>2, <3>3, <3>4
  <2>5. x = values[m + 1]
    BY <1>4, <2>4, StepBack DEF x
  <2>6. \A i \in 1..Len(out') : out'[i] = values'[i]
    <3> SUFFICES ASSUME NEW i \in 1..(m + 1) PROVE out'[i] = values[i]
      BY <1>1, <1>11
    <3>1. i = m + 1 \/ i \in 1..Len(out)
      BY <1>4 DEF m
    <3>2. i \in 1..Len(out) => out'[i] = out[i] /\ out[i] = values[i]
      BY <1>11, <2>1 DEF Follows, m
    <3> QED BY <1>11, <2>5, <3>1, <3>2
  <2>7. \A e \in codes : Len(<<>>) < Len(e.code)
    <3>1. \A e \in codes : Len(e.code) \in 1..MaxValues
      BY <1>6, CodeOfIs
    <3> QED BY <3>1, CodesAssumed
  <2> QED BY <1>1, <2>6, <2>7 DEF Follows
<1>15. (damage = "none" => Follows)'
  BY <1>1, <1>14
<1> QED BY <1>1, <1>12, <1>13, <1>15 DEF CodesInv, AtBits

LEMMA RejectBitKeeps == CodesInv /\ Codes!RejectBit => CodesInv'
<1> SUFFICES ASSUME CodesInv, Codes!RejectBit PROVE CodesInv'
  OBVIOUS
<1>1. /\ stage = "bits" /\ at < bitCount /\ stage' = "rejected"
      /\ ~(Codes!InTrie /\ (Codes!Leaf => Len(out) < Len(values)))
      /\ UNCHANGED <<values, table, bits, bitCount, damage>>
  BY DEF Codes!RejectBit, Codes!AtBit, Codes!Reject, Codes!streamVars
<1>2. AtBits /\ ArrayInv
  BY <1>1 DEF CodesInv
<1>3. damage # "none"
  <2> SUFFICES ASSUME damage = "none" PROVE FALSE
    OBVIOUS
  <2>1. Len(out) < Len(values)
    BY <1>1, <1>2, Following
  <2>2. PICK c \in codes :
          /\ c.code \in Seq(Bit) /\ Len(Codes!NextPrefix) <= Len(c.code)
          /\ \A q \in 1..Len(Codes!NextPrefix) : c.code[q] = Codes!NextPrefix[q]
    BY <1>1, <1>2, Following
  <2>3. Codes!NextPrefix \in Seq(Bit)
    BY <1>2, NextBit DEF AtBits
  <2>4. Codes!IsPrefix(Codes!NextPrefix, c.code)
    BY <2>2, <2>3, PrefixIs
  <2>5. Codes!InTrie
    BY <2>4 DEF Codes!InTrie
  <2> QED BY <1>1, <2>1, <2>5
<1>4. ArrayInv'
  BY <1>1, <1>2, StreamStays
<1> QED BY <1>1, <1>3, <1>4 DEF CodesInv

LEMMA DecodeDoneKeeps == CodesInv /\ Codes!DecodeDone => CodesInv'
<1> SUFFICES ASSUME CodesInv, Codes!DecodeDone PROVE CodesInv'
  OBVIOUS
<1>1. /\ stage = "bits" /\ at = bitCount
      /\ stage' = IF Codes!DecodeEnds THEN "accepted" ELSE "rejected"
      /\ UNCHANGED <<values, table, bits, bitCount, damage, codes, at, prefix, out>>
  BY DEF Codes!DecodeDone, Codes!streamVars, Codes!canonicalVars, Codes!readerVars
<1>2. AtBits /\ ArrayInv /\ StreamIs /\ Sound /\ ReadingInv
  BY <1>1 DEF CodesInv, AtBits
<1>3. ArrayInv' /\ StreamIs' /\ Sound'
  BY <1>1, <1>2, StreamStays
<1>4. CASE Codes!DecodeEnds
  <2>1. ReadingInv'
    BY <1>1, <1>2 DEF ReadingInv, ReadTo, Codes!Kraft, Codes!WholeSpace
  <2>2. (damage = "none" => Follows)'
    BY <1>1, <1>2 DEF AtBits, Follows
  <2>3. (at = bitCount /\ Codes!DecodeEnds)'
    BY <1>1, <1>4 DEF Codes!DecodeEnds
  <2> QED BY <1>1, <1>3, <1>4, <2>1, <2>2, <2>3 DEF CodesInv, AtAccepted, AtBits
<1>5. CASE ~Codes!DecodeEnds
  <2>1. damage # "none"
    <3> SUFFICES ASSUME damage = "none" PROVE FALSE
      OBVIOUS
    <3>1. /\ Len(Before) \in Nat /\ Len(prefix) \in Nat /\ at = Len(Before) + Len(prefix)
          /\ Len(out) \in Nat /\ Len(values) \in Nat /\ Len(out) <= Len(values)
      BY <1>2, ReadIs DEF ReadingInv
    <3>2. CASE Len(out) = Len(values)
      BY <1>2, <1>5, <3>2, AllRead DEF Codes!DecodeEnds
    <3>3. CASE Len(out) < Len(values)
      <4>1. PICK c \in codes : /\ Len(c.code) \in Nat /\ Len(prefix) < Len(c.code)
                               /\ Len(Before) + Len(c.code) <= bitCount
        BY <1>2, <3>3, FollowingCode
      <4> QED BY <1>1, <3>1, <4>1
    <3> QED BY <3>1, <3>2, <3>3
  <2> QED BY <1>1, <1>3, <1>5, <2>1 DEF CodesInv
<1> QED BY <1>4, <1>5

LEMMA CodesStay == CodesInv /\ UNCHANGED Codes!vars => CodesInv'
<1> SUFFICES ASSUME CodesInv, UNCHANGED Codes!vars PROVE CodesInv'
  OBVIOUS
<1>1. UNCHANGED <<values, table, bits, bitCount, damage, heap, pending, following, overflow,
                  codes, at, prefix, out, stage>>
  BY DEF Codes!vars, Codes!streamVars, Codes!canonicalVars, Codes!readerVars
<1>2. (ArrayInv => ArrayInv') /\ (StreamIs => StreamIs') /\ (Sound => Sound') /\ (OwnTable => OwnTable')
  BY <1>1, StreamStays
<1>3. Alphabet' = Alphabet /\ Counted' = Counted
  BY <1>1 DEF Alphabet, Counted
<1>4. Forest(heap) => Forest(heap)'
  BY <1>1, <1>3 DEF Forest, NodeIs
<1>5. CanonInv => CanonInv'
  BY <1>1 DEF CanonInv, Spent, Assigned
<1>6. ReadingInv => ReadingInv'
  BY <1>1 DEF ReadingInv, ReadTo, Codes!Kraft, Codes!WholeSpace
<1>7. /\ Follows => Follows'
      /\ ReaderStart => ReaderStart'
      /\ Codes!DecodeEnds => Codes!DecodeEnds'
  BY <1>1 DEF Follows, ReaderStart, Codes!DecodeEnds
<1>8. AtOversubscribed => AtOversubscribed'
  BY <1>1 DEF AtOversubscribed, Codes!Kraft, Codes!WholeSpace
<1>9. AtBits => AtBits'
  BY <1>1, <1>2, <1>6, <1>7 DEF AtBits
<1> QED BY <1>1, <1>2, <1>4, <1>5, <1>7, <1>8, <1>9
        DEF CodesInv, AtMerge, AtEncode, AtDamage, AtTable, AtDecode, AtAccepted

LEMMA CodesNextKeeps == CodesInv /\ Codes!Next => CodesInv'
<1> SUFFICES ASSUME CodesInv, Codes!Next PROVE CodesInv'
  OBVIOUS
<1>1. CASE Codes!Merge BY <1>1, MergeKeeps
<1>2. CASE Codes!Lengths BY <1>2, LengthsKeeps
<1>3. CASE Codes!AssignCode BY <1>3, AssignCodeStays
<1>4. CASE Codes!RejectCode BY <1>4, RejectCodeKeeps
<1>5. CASE Codes!Write BY <1>5, WriteKeeps
<1>6. CASE Codes!Intact BY <1>6, IntactKeeps
<1>7. CASE Codes!BadBit \/ Codes!BadTable \/ Codes!BadBitCount BY <1>7, DamageKeeps
<1>8. CASE Codes!ReadTable BY <1>8, ReadTableKeeps
<1>9. CASE Codes!RejectTable BY <1>9, RejectTableKeeps
<1>10. CASE Codes!CodesDone BY <1>10, CodesDoneKeeps
<1>11. CASE Codes!ReadBit BY <1>11, InnerBit, LastBit
<1>12. CASE Codes!RejectBit BY <1>12, RejectBitKeeps
<1>13. CASE Codes!DecodeDone BY <1>13, DecodeDoneKeeps
<1>14. CASE Codes!Done BY <1>14, CodesStay DEF Codes!Done
<1> QED BY <1>1, <1>2, <1>3, <1>4, <1>5, <1>6, <1>7, <1>8, <1>9, <1>10, <1>11, <1>12, <1>13,
           <1>14 DEF Codes!Next

(* What the invariant says of a judged stream.                             *)
LEMMA CodesInvJudges == CodesInv => Codes!RoundTrip /\ Codes!DamageJudged
<1> SUFFICES ASSUME CodesInv PROVE Codes!RoundTrip /\ Codes!DamageJudged
  OBVIOUS
<1>1. Codes!RoundTrip
  <2> SUFFICES ASSUME damage = "none" PROVE /\ stage \notin {"rejected", "oversubscribed"}
                                            /\ stage = "accepted" => out = values
    BY DEF Codes!RoundTrip
  <2>1. stage \notin {"rejected", "oversubscribed"}
    BY DEF CodesInv, AtOversubscribed
  <2>2. ASSUME stage = "accepted" PROVE out = values
    <3>1. AtAccepted /\ ArrayInv
      BY <2>2 DEF CodesInv
    <3> QED BY <3>1, AllRead DEF AtAccepted, Codes!DecodeEnds
  <2> QED BY <2>1, <2>2
<1>2. Codes!TableJudged
  <2>1. CASE stage = "oversubscribed"
    BY <2>1 DEF CodesInv, AtOversubscribed, Codes!TableJudged
  <2>2. CASE stage = "bits"
    <3>1. ReadingInv
      BY <2>2 DEF CodesInv, AtBits
    <3>2. \A c, d \in codes : Codes!IsPrefix(c.code, d.code) => c = d
      BY <3>1, CanonicalPrefixFree DEF ReadingInv, CodesOf
    <3> QED BY <2>2, <3>1, <3>2 DEF Codes!TableJudged, ReadingInv
  <2> QED BY <2>1, <2>2 DEF Codes!TableJudged
<1>3. Codes!AcceptedReencodes
  <2> SUFFICES ASSUME stage = "accepted"
               PROVE  /\ Len(out) = Len(values)
                      /\ Codes!Encoded(Codes!Deltas(out), codes) = ReadTo(bitCount)
    BY DEF Codes!AcceptedReencodes, ReadTo
  <2>1. AtAccepted /\ ArrayInv
    BY DEF CodesInv
  <2>2. ReadingInv /\ StreamIs /\ at = bitCount /\ Len(out) = Len(values) /\ prefix = <<>>
    BY <2>1 DEF AtAccepted, AtBits, Codes!DecodeEnds
  <2>3. Before \in Seq(Bit) /\ Before \o prefix = ReadTo(at)
    BY <2>1, <2>2, ReadIs
  <2> QED BY <2>2, <2>3, WithNothing DEF Before
<1> QED BY <1>1, <1>2, <1>3 DEF Codes!DamageJudged

-------------------------------------------------------------------------------
(* ---- no code takes fewer bits ------------------------------------------- *)

LEMMA TotalZero ==
  ASSUME NEW S, IsFiniteSet(S), NEW f, \A x \in S : f[x] = 0
  PROVE  Total(f, S) = 0
<1>1. /\ Total(f, S) \in Nat
      /\ Total(f, S) = Total(f, S) + Total(f, S)
  <2>1. \A x \in S : f[x] \in Nat /\ f[x] \in Nat /\ f[x] = f[x] + f[x]
    OBVIOUS
  <2> QED BY <2>1, TotalAdds
<1> QED BY <1>1, SMTT(30)

(* Two of the terms.                                                       *)
LEMMA TotalTwo ==
  ASSUME NEW S, IsFiniteSet(S), NEW x \in S, NEW y \in S, x # y, NEW f, \A z \in S : f[z] \in Nat
  PROVE  /\ Total(f, S) = f[x] + (f[y] + Total(f, S \ {x, y}))
         /\ Total(f, S \ {x, y}) \in Nat /\ Total(f, S) \in Nat
<1>1. IsFiniteSet(S \ {x}) /\ IsFiniteSet(S \ {x, y}) /\ y \in S \ {x}
      /\ (S \ {x}) \ {y} = S \ {x, y}
  BY FS_Subset
<1>2. Takes(f, S) /\ Takes(f, S \ {x})
  BY <1>1, TotalTakes
<1>3. Total(f, S) = f[x] + Total(f, S \ {x})
  BY <1>2 DEF Takes
<1>4. Total(f, S \ {x}) = f[y] + Total(f, S \ {x, y})
  BY <1>1, <1>2 DEF Takes
<1>5. Total(f, S \ {x, y}) \in Nat /\ Total(f, S) \in Nat
  BY <1>1, TotalType
<1> QED BY <1>3, <1>4, <1>5

IsMultiple(v, d) == \E q \in Nat : v = q * d

LEMMA TotalMultiple ==
  ASSUME NEW S, IsFiniteSet(S), NEW d \in Nat, NEW f,
         \A x \in S : f[x] \in Nat /\ IsMultiple(f[x], d)
  PROVE  IsMultiple(Total(f, S), d)
<1> DEFINE P == {s \in SUBSET S : IsMultiple(Total(f, s), d)}
<1>1. {} \in P
  <2>1. 0 = 0 * d /\ 0 \in Nat
    OBVIOUS
  <2>2. Total(f, {}) = 0
    BY TotalEmpty
  <2> QED BY <2>1, <2>2 DEF IsMultiple
<1>2. ASSUME NEW s \in SUBSET S, NEW x \in S \ s, s \in P PROVE s \cup {x} \in P
  <2>1. IsFiniteSet(s) /\ x \notin s /\ \A y \in s \cup {x} : f[y] \in Nat
    BY <1>2, FS_Subset
  <2>2. Total(f, s \cup {x}) = f[x] + Total(f, s)
    BY <2>1, TotalWith
  <2>3. PICK q \in Nat : Total(f, s) = q * d
    BY <1>2 DEF IsMultiple
  <2>4. PICK r \in Nat : f[x] = r * d
    BY DEF IsMultiple
  <2>5. r * d + q * d = (r + q) * d /\ r + q \in Nat
    OBVIOUS
  <2>6. IsMultiple(Total(f, s \cup {x}), d)
    BY <2>2, <2>3, <2>4, <2>5 DEF IsMultiple
  <2> QED BY <2>6
<1> HIDE DEF P
<1>3. S \in P
  BY <1>1, <1>2, BySubsets
<1> QED BY <1>3 DEF P

(* A sum does not depend on the names of its terms.                        *)
LEMMA TotalRenamed ==
  ASSUME NEW S, IsFiniteSet(S), NEW g, NEW f, NEW h,
         \A x, y \in S : g[x] = g[y] => x = y,
         \A x \in S : f[g[x]] \in Nat /\ h[x] = f[g[x]]
  PROVE  Total(h, S) = Total(f, {g[x] : x \in S})
<1> DEFINE Image(s) == {g[x] : x \in s}
           P == {s \in SUBSET S : IsFiniteSet(Image(s)) /\ Total(h, s) = Total(f, Image(s))}
<1>1. {} \in P
  <2>1. Image({}) = {}
    OBVIOUS
  <2> HIDE DEF Image
  <2> QED BY <2>1, TotalEmpty, FS_EmptySet
<1>2. ASSUME NEW s \in SUBSET S, NEW x \in S \ s, s \in P PROVE s \cup {x} \in P
  <2>1. IsFiniteSet(s) /\ x \notin s /\ \A y \in s \cup {x} : h[y] \in Nat
    BY <1>2, FS_Subset
  <2>2. Total(h, s \cup {x}) = h[x] + Total(h, s)
    BY <2>1, TotalWith
  <2>3. Image(s \cup {x}) = Image(s) \cup {g[x]} /\ g[x] \notin Image(s)
    BY <1>2
  <2>4. \A y \in Image(s) \cup {g[x]} : f[y] \in Nat
    BY <1>2
  <2>5. IsFiniteSet(Image(s)) /\ Total(h, s) = Total(f, Image(s))
    BY <1>2
  <2>6. h[x] = f[g[x]]
    OBVIOUS
  <2> HIDE DEF Image
  <2>7. /\ IsFiniteSet(Image(s) \cup {g[x]})
        /\ Total(f, Image(s) \cup {g[x]}) = f[g[x]] + Total(f, Image(s))
    BY <2>3, <2>4, <2>5, TotalWith
  <2> QED BY <2>2, <2>3, <2>5, <2>6, <2>7
<1> HIDE DEF P
<1>3. S \in P
  BY <1>1, <1>2, BySubsets
<1> QED BY <1>3 DEF P

LEMMA RoomMultiple ==
  ASSUME NEW j \in 0..MaxValues, NEW k \in j..MaxValues
  PROVE  IsMultiple(Room(j), Room(k))
<1> DEFINE P == {i \in j..k : IsMultiple(Room(j), Room(i))}
<1>1. j \in P
  <2>1. Room(j) \in Nat
    BY RoomIs
  <2>2. Room(j) = 1 * Room(j)
    BY <2>1
  <2> QED BY <2>2 DEF IsMultiple
<1>2. ASSUME NEW i \in j..(k - 1), i \in P PROVE i + 1 \in P
  <2>1. PICK q \in Nat : Room(j) = q * Room(i)
    BY <1>2 DEF IsMultiple
  <2>2. i + 1 \in 1..MaxValues /\ i + 1 \in 0..MaxValues /\ i \in 0..MaxValues /\ (i + 1) - 1 = i
        /\ i + 1 \in j..k
    BY CodesAssumed
  <2>3. Room(i) = 2 * Room(i + 1) /\ Room(i + 1) \in Nat
    BY <2>2, RoomIs
  <2> DEFINE r == Room(i + 1)
  <2> HIDE DEF r
  <2>4. q * (2 * r) = (2 * q) * r /\ 2 * q \in Nat
    BY <2>3 DEF r
  <2>5. Room(j) = (2 * q) * Room(i + 1)
    BY <2>1, <2>3, <2>4 DEF r
  <2> QED BY <2>2, <2>4, <2>5 DEF IsMultiple
<1> HIDE DEF P
<1>3. \A i \in j..k : i \in P
  BY <1>1, <1>2, UpTo
<1> QED BY <1>3 DEF P

(* What lengths cost if there are w[x] of each.                            *)
Weighted(w, l) == [x \in DOMAIN l |-> w[x] * l[x]]
MayHave(S, l) ==
  /\ l \in [S -> 0..MaxValues]
  /\ Total(Rooms(l), S) <= Room(0)

LEMMA LengthsAre ==
  ASSUME NEW S, IsFiniteSet(S), NEW w, \A x \in S : w[x] \in Nat, NEW l \in [S -> 0..MaxValues]
  PROVE  /\ \A x \in S : /\ l[x] \in Nat /\ Rooms(l)[x] = Room(l[x]) /\ Room(l[x]) \in Nat
                         /\ Room(l[x]) > 0
                         /\ Weighted(w, l)[x] = w[x] * l[x] /\ w[x] * l[x] \in Nat
         /\ Total(Rooms(l), S) \in Nat /\ Total(Weighted(w, l), S) \in Nat
         /\ Total(l, S) \in Nat
<1>1. ASSUME NEW x \in S
      PROVE  /\ l[x] \in Nat /\ Rooms(l)[x] = Room(l[x]) /\ Room(l[x]) \in Nat
             /\ Room(l[x]) > 0
             /\ Weighted(w, l)[x] = w[x] * l[x] /\ w[x] * l[x] \in Nat
  <2>1. l[x] \in 0..MaxValues /\ l[x] \in Nat /\ w[x] \in Nat /\ DOMAIN l = S
    BY CodesAssumed
  <2>2. Room(l[x]) \in Nat /\ Room(l[x]) > 0
    BY <2>1, RoomIs
  <2> DEFINE u == w[x]
             v == l[x]
  <2>3. u * v \in Nat
    BY <2>1
  <2> QED BY <2>1, <2>2, <2>3 DEF Rooms, Weighted
<1>2. Total(Rooms(l), S) \in Nat
  <2>1. \A x \in S : Rooms(l)[x] \in Nat
    BY <1>1
  <2> QED BY <2>1, TotalType
<1>3. Total(Weighted(w, l), S) \in Nat
  <2>1. \A x \in S : Weighted(w, l)[x] \in Nat
    BY <1>1
  <2> QED BY <2>1, TotalType
<1>4. Total(l, S) \in Nat
  BY <1>1, TotalType
<1> QED BY <1>1, <1>2, <1>3, <1>4

(* A lighter node may take the longer code of a heavier one.               *)
LEMMA SwapCheaper ==
  ASSUME NEW S, IsFiniteSet(S), NEW w, \A x \in S : w[x] \in Nat,
         NEW l, MayHave(S, l), NEW a \in S, NEW u \in S, w[a] <= w[u], l[a] <= l[u]
  PROVE  \E m : /\ MayHave(S, m)
                /\ Total(Weighted(w, m), S) <= Total(Weighted(w, l), S)
                /\ m[a] = l[u] /\ m[u] = l[a]
                /\ \A x \in S \ {a, u} : m[x] = l[x]
<1>1. l \in [S -> 0..MaxValues] /\ Total(Rooms(l), S) <= Room(0)
  BY DEF MayHave
<1>2. CASE a = u
  <2>1. Total(Weighted(w, l), S) <= Total(Weighted(w, l), S)
    BY <1>1, LengthsAre
  <2> QED BY <1>2, <2>1
<1>3. CASE a # u
  <2> DEFINE m == [x \in S |-> IF x = a THEN l[u] ELSE IF x = u THEN l[a] ELSE l[x]]
  <2>1. /\ m \in [S -> 0..MaxValues] /\ m[a] = l[u] /\ m[u] = l[a]
        /\ \A x \in S \ {a, u} : m[x] = l[x]
    BY <1>1, <1>3
  <2> HIDE DEF m
  <2>2. \A x \in S : /\ l[x] \in Nat /\ Rooms(l)[x] = Room(l[x]) /\ Room(l[x]) \in Nat
                     /\ Weighted(w, l)[x] = w[x] * l[x] /\ w[x] * l[x] \in Nat
    BY <1>1, LengthsAre
  <2>3. \A x \in S : /\ m[x] \in Nat /\ Rooms(m)[x] = Room(m[x]) /\ Room(m[x]) \in Nat
                     /\ Weighted(w, m)[x] = w[x] * m[x] /\ w[x] * m[x] \in Nat
    BY <2>1, LengthsAre
  <2>4. Total(Rooms(m), S) = Total(Rooms(l), S)
    <3>1. /\ \A x \in S : Rooms(l)[x] \in Nat
          /\ Rooms(m)[a] = Rooms(l)[u] /\ Rooms(m)[u] = Rooms(l)[a]
          /\ \A x \in S \ {a, u} : Rooms(m)[x] = Rooms(l)[x]
      BY <2>1, <2>2, <2>3
    <3> QED BY <3>1, TotalSwapped
  <2>5. Total(Weighted(w, m), S) <= Total(Weighted(w, l), S)
    <3> DEFINE f == Weighted(w, l)
               h == Weighted(w, m)
               R == S \ {a, u}
    <3>1. /\ \A x \in S : f[x] \in Nat /\ h[x] \in Nat
          /\ f[a] = w[a] * l[a] /\ f[u] = w[u] * l[u]
          /\ h[a] = w[a] * l[u] /\ h[u] = w[u] * l[a]
      BY <2>1, <2>2, <2>3
    <3>2. \A x \in R : h[x] = f[x]
      BY <2>1, <2>2, <2>3
    <3>3. IsFiniteSet(R)
      BY FS_Subset
    <3> HIDE DEF f, h
    <3>4. Total(f, S) = f[a] + (f[u] + Total(f, R)) /\ Total(f, R) \in Nat
      BY <1>3, <3>1, TotalTwo
    <3>5. Total(h, S) = h[a] + (h[u] + Total(h, R)) /\ Total(h, R) \in Nat
      BY <1>3, <3>1, TotalTwo
    <3>6. Total(h, R) = Total(f, R)
      BY <3>2, <3>3, TotalSame
    <3>7. h[a] + h[u] <= f[a] + f[u]
      <4> DEFINE p == w[a]
                 q == w[u]
                 i == l[a]
                 j == l[u]
      <4>1. p \in Nat /\ q \in Nat /\ i \in Nat /\ j \in Nat /\ p <= q /\ i <= j
        BY <2>2
      <4>2. f[a] = p * i /\ f[u] = q * j /\ h[a] = p * j /\ h[u] = q * i
        BY <3>1
      <4> HIDE DEF p, q, i, j
      <4>3. (q - p) * (j - i) >= 0
        <5>1. q - p \in Nat /\ j - i \in Nat
          BY <4>1
        <5> QED BY <5>1
      <4>4. (q - p) * (j - i) = (q * j - q * i) - (p * j - p * i)
        BY <4>1
      <4>5. p * i \in Nat /\ q * j \in Nat /\ p * j \in Nat /\ q * i \in Nat
        BY <4>1
      <4> QED BY <4>2, <4>3, <4>4, <4>5
    <3>8. f[a] \in Nat /\ f[u] \in Nat /\ h[a] \in Nat /\ h[u] \in Nat
      BY <3>1
    <3> HIDE DEF R
    <3>9. Total(h, S) <= Total(f, S)
      BY <3>4, <3>5, <3>6, <3>7, <3>8
    <3> QED BY <3>9 DEF f, h
  <2> QED BY <1>1, <2>1, <2>4, <2>5 DEF MayHave
<1> QED BY <1>2, <1>3

(* If only one node had the longest code, that one could be shorter.       *)
LEMMA Shortened ==
  ASSUME NEW S, IsFiniteSet(S), NEW w, \A x \in S : w[x] \in Nat,
         NEW l, MayHave(S, l), NEW u \in S, l[u] > 0, \A x \in S \ {u} : l[x] < l[u]
  PROVE  \E m : /\ MayHave(S, m) /\ Total(m, S) < Total(l, S)
                /\ Total(Weighted(w, m), S) <= Total(Weighted(w, l), S)
<1> DEFINE k == l[u]
           m == [x \in S |-> IF x = u THEN k - 1 ELSE l[x]]
           R == S \ {u}
<1>1. l \in [S -> 0..MaxValues] /\ Total(Rooms(l), S) <= Room(0) /\ k \in 1..MaxValues
  BY CodesAssumed DEF MayHave
<1>2. m \in [S -> 0..MaxValues] /\ m[u] = k - 1 /\ \A x \in R : m[x] = l[x]
  BY <1>1, CodesAssumed
<1> HIDE DEF m
<1>3. \A x \in S : /\ l[x] \in Nat /\ Rooms(l)[x] = Room(l[x]) /\ Room(l[x]) \in Nat
                   /\ Weighted(w, l)[x] = w[x] * l[x] /\ w[x] * l[x] \in Nat
  BY <1>1, LengthsAre
<1>4. \A x \in S : /\ m[x] \in Nat /\ Rooms(m)[x] = Room(m[x]) /\ Room(m[x]) \in Nat
                   /\ Weighted(w, m)[x] = w[x] * m[x] /\ w[x] * m[x] \in Nat
  BY <1>2, LengthsAre
<1>5. IsFiniteSet(R)
  BY FS_Subset
<1>6. ASSUME NEW f, \A x \in S : f[x] \in Nat
      PROVE  Total(f, S) = f[u] + Total(f, R) /\ Total(f, R) \in Nat
  <2>1. Takes(f, S)
    BY <1>6, TotalTakes
  <2>2. Total(f, R) \in Nat
    BY <1>5, <1>6, TotalType
  <2> QED BY <2>1, <2>2 DEF Takes
<1>7. Total(m, S) < Total(l, S)
  <2>1. Total(m, R) = Total(l, R)
    BY <1>2, <1>5, TotalSame
  <2>2. Total(m, S) = m[u] + Total(m, R)
    BY <1>4, <1>6
  <2>3. Total(l, S) = l[u] + Total(l, R) /\ Total(l, R) \in Nat
    BY <1>3, <1>6
  <2> QED BY <1>1, <1>2, <2>1, <2>2, <2>3
<1>8. Total(Weighted(w, m), S) <= Total(Weighted(w, l), S)
  <2>1. \A x \in S : /\ Weighted(w, m)[x] \in Nat /\ Weighted(w, l)[x] \in Nat
                     /\ Weighted(w, m)[x] <= Weighted(w, l)[x]
    <3> TAKE x \in S
    <3>1. m[x] <= l[x]
      BY <1>1, <1>2, <1>3
    <3> DEFINE p == w[x]
               i == m[x]
               j == l[x]
    <3>2. p \in Nat /\ i \in Nat /\ j \in Nat /\ i <= j
      BY <1>3, <1>4, <3>1
    <3>3. p * i <= p * j
      <4> HIDE DEF p, i, j
      <4> QED BY <3>2
    <3> QED BY <1>3, <1>4, <3>3
  <2> QED BY <2>1, TotalAtMost
<1>9. Total(Rooms(m), S) <= Room(0)
  <2> DEFINE r == Room(k)
             T == Total(Rooms(l), R)
             d == 2 * r
  <2>1. /\ k \in 0..MaxValues /\ k - 1 \in 0..MaxValues
        /\ r \in Nat /\ r > 0 /\ Room(k - 1) = d /\ Room(0) \in Nat /\ d \in Nat
    <3>1. k \in 0..MaxValues /\ k - 1 \in 0..MaxValues /\ 0 \in 0..MaxValues
      BY <1>1, CodesAssumed
    <3> HIDE DEF k
    <3>2. r \in Nat /\ r > 0 /\ Room(k - 1) = 2 * r /\ Room(0) \in Nat
      BY <1>1, <3>1, RoomIs
    <3> QED BY <3>1, <3>2
  <2>2. \A x \in R : Rooms(l)[x] \in Nat /\ IsMultiple(Rooms(l)[x], d)
    <3> TAKE x \in R
    <3>3. l[x] \in 0..MaxValues /\ l[x] < k /\ l[x] \in Nat
      BY <1>1, <1>3
    <3>1. l[x] \in 0..MaxValues /\ k - 1 \in l[x]..MaxValues
      <4> HIDE DEF k
      <4> QED BY <1>1, <3>3, CodesAssumed
    <3>2. IsMultiple(Room(l[x]), Room(k - 1))
      BY <3>1, RoomMultiple
    <3> QED BY <1>3, <2>1, <3>2
  <2>3. IsMultiple(T, d)
    BY <1>5, <2>1, <2>2, TotalMultiple
  <2>4. IsMultiple(Room(0), d)
    <3>1. 0 \in 0..MaxValues /\ k - 1 \in 0..MaxValues
      BY <2>1, CodesAssumed
    <3> QED BY <2>1, <3>1, RoomMultiple
  <2>5. Total(Rooms(l), S) = r + T /\ T \in Nat
    BY <1>3, <1>6
  <2>6. Total(Rooms(m), S) = d + T
    <3>1. Total(Rooms(m), R) = T
      <4>1. \A x \in R : Rooms(m)[x] = Rooms(l)[x]
        BY <1>2, <1>3, <1>4
      <4> QED BY <1>5, <4>1, TotalSame
    <3>2. Total(Rooms(m), S) = Rooms(m)[u] + Total(Rooms(m), R)
      BY <1>4, <1>6
    <3>3. Rooms(m)[u] = d
      BY <1>2, <1>4, <2>1
    <3> QED BY <3>1, <3>2, <3>3
  <2>7. d + T <= Room(0)
    <3>1. PICK q \in Nat : T = q * d
      BY <2>3 DEF IsMultiple
    <3>2. PICK z \in Nat : Room(0) = z * d
      BY <2>4 DEF IsMultiple
    <3> DEFINE W == Room(0)
    <3>3. T < W /\ d > 0 /\ d \in Nat /\ T = q * d /\ W = z * d
      BY <1>1, <2>1, <2>5, <3>1, <3>2
    <3> HIDE DEF T, d, W
    <3>4. q < z
      <4> SUFFICES ASSUME q >= z PROVE FALSE
        OBVIOUS
      <4>1. q * d >= z * d
        BY <3>3
      <4>2. q * d \in Nat /\ z * d \in Nat
        BY <3>3
      <4> QED BY <3>3, <4>1, <4>2
    <3>5. (q + 1) * d <= z * d
      BY <3>3, <3>4
    <3>6. (q + 1) * d = q * d + d /\ q * d \in Nat /\ z * d \in Nat
      BY <3>3
    <3>7. d + T <= W
      BY <3>3, <3>5, <3>6
    <3> QED BY <3>7 DEF W
  <2> QED BY <2>6, <2>7
<1> QED BY <1>2, <1>7, <1>8, <1>9 DEF MayHave

(* Two nodes share the longest code.                                       *)
LEMMA TwoLongest ==
  ASSUME NEW S, IsFiniteSet(S), NEW w, \A x \in S : w[x] \in Nat,
         NEW l, MayHave(S, l), NEW a \in S, NEW b \in S, a # b
  PROVE  \E m : /\ MayHave(S, m)
                /\ Total(Weighted(w, m), S) <= Total(Weighted(w, l), S)
                /\ \E u, v \in S : /\ u # v /\ m[u] = m[v] /\ m[u] > 0
                                   /\ \A x \in S : m[x] <= m[u]
<1> DEFINE Good(m) == MayHave(S, m) /\ Total(Weighted(w, m), S) <= Total(Weighted(w, l), S)
           T == {n \in Nat : \E m : Good(m) /\ Total(m, S) = n}
<1>1. T \subseteq Nat
  OBVIOUS
<1>2. T # {}
  <2>1. Total(l, S) \in Nat /\ Total(Weighted(w, l), S) \in Nat
    BY LengthsAre DEF MayHave
  <2>2. Good(l)
    BY <2>1
  <2> QED BY <2>1, <2>2
<1>3. PICK n \in T : \A k \in T : n <= k
  <2> HIDE DEF T
  <2> QED BY <1>1, <1>2, LeastNatural
<1>4. PICK m : Good(m) /\ Total(m, S) = n
  BY <1>3
<1>5. m \in [S -> 0..MaxValues] /\ Total(Rooms(m), S) <= Room(0)
  BY <1>4 DEF MayHave
<1>6. PICK u \in S : \A x \in S : m[x] <= m[u]
  <2> DEFINE V == {m[x] : x \in S}
  <2>1. V \subseteq 0..MaxValues /\ V # {} /\ MaxValues \in Nat
    BY <1>5, CodesAssumed
  <2> HIDE DEF V
  <2>2. PICK t \in V : \A k \in V : k <= t
    BY <2>1, LargestNatural
  <2> QED BY <2>2 DEF V
<1>7. \A x \in S : m[x] \in Nat /\ Rooms(m)[x] = Room(m[x]) /\ Room(m[x]) \in Nat
  BY <1>5, LengthsAre
<1>8. m[u] > 0
  <2> SUFFICES ASSUME m[u] = 0 PROVE FALSE
    BY <1>7
  <2>1. m[a] = 0 /\ m[b] = 0
    BY <1>6, <1>7
  <2>2. \A x \in S : Rooms(m)[x] \in Nat
    BY <1>7
  <2>3. /\ Total(Rooms(m), S) = Rooms(m)[a] + (Rooms(m)[b] + Total(Rooms(m), S \ {a, b}))
        /\ Total(Rooms(m), S \ {a, b}) \in Nat
    BY <2>2, TotalTwo
  <2>4. Rooms(m)[a] = Room(0) /\ Rooms(m)[b] = Room(0)
    BY <1>7, <2>1
  <2>5. Room(0) \in Nat /\ Room(0) > 0
    <3>1. 0 \in 0..MaxValues
      BY CodesAssumed
    <3> QED BY <3>1, RoomIs
  <2> QED BY <1>5, <2>3, <2>4, <2>5
<1>9. \E v \in S : u # v /\ m[u] = m[v]
  <2> SUFFICES ASSUME \A v \in S : u # v => m[u] # m[v] PROVE FALSE
    OBVIOUS
  <2>1. \A x \in S \ {u} : m[x] < m[u]
    BY <1>6, <1>7
  <2>2. PICK k : /\ MayHave(S, k) /\ Total(k, S) < Total(m, S)
                 /\ Total(Weighted(w, k), S) <= Total(Weighted(w, m), S)
    BY <1>4, <1>8, <2>1, Shortened
  <2>3. Total(k, S) \in Nat /\ Total(Weighted(w, k), S) \in Nat
    BY <2>2, LengthsAre DEF MayHave
  <2>4. Total(Weighted(w, m), S) \in Nat /\ Total(Weighted(w, l), S) \in Nat
    BY <1>4, LengthsAre DEF MayHave
  <2>5. Good(k)
    BY <1>4, <2>2, <2>3, <2>4
  <2>6. Total(k, S) \in T
    BY <2>3, <2>5
  <2> HIDE DEF T
  <2> QED BY <1>1, <1>3, <1>4, <2>2, <2>3, <2>6
<1> QED BY <1>4, <1>6, <1>8, <1>9

(* The two lightest nodes may be those.                                    *)
LEMMA Exchange ==
  ASSUME NEW S, IsFiniteSet(S), NEW w, \A x \in S : w[x] \in Nat,
         NEW l, MayHave(S, l), NEW a \in S, NEW b \in S, a # b,
         \A x \in S : w[a] <= w[x], \A x \in S \ {a} : w[b] <= w[x]
  PROVE  \E m : /\ MayHave(S, m) /\ m[a] = m[b] /\ m[a] > 0
                /\ Total(Weighted(w, m), S) <= Total(Weighted(w, l), S)
<1>1. PICK m : /\ MayHave(S, m)
               /\ Total(Weighted(w, m), S) <= Total(Weighted(w, l), S)
               /\ \E u, v \in S : /\ u # v /\ m[u] = m[v] /\ m[u] > 0
                                  /\ \A x \in S : m[x] <= m[u]
  BY TwoLongest
<1>2. PICK u, v \in S : u # v /\ m[u] = m[v] /\ m[u] > 0 /\ \A x \in S : m[x] <= m[u]
  BY <1>1
<1>3. PICK k : /\ MayHave(S, k)
               /\ Total(Weighted(w, k), S) <= Total(Weighted(w, m), S)
               /\ k[a] = m[u] /\ k[u] = m[a]
               /\ \A x \in S \ {a, u} : k[x] = m[x]
  BY <1>1, <1>2, SwapCheaper
<1>4. \A x \in S : k[x] <= m[u]
  BY <1>2, <1>3
<1>5. PICK t \in S \ {a} : k[t] = m[u]
  <2>1. CASE v # a
    BY <1>2, <1>3, <2>1
  <2>2. CASE v = a
    <3>1. u \in S \ {a} /\ k[u] = m[u]
      BY <1>2, <1>3, <2>2
    <3> QED BY <3>1
  <2> QED BY <2>1, <2>2
<1>6. PICK z : /\ MayHave(S, z)
               /\ Total(Weighted(w, z), S) <= Total(Weighted(w, k), S)
               /\ z[b] = k[t] /\ z[t] = k[b]
               /\ \A x \in S \ {b, t} : z[x] = k[x]
  <2>1. w[b] <= w[t] /\ k[b] <= k[t]
    BY <1>4, <1>5
  <2> QED BY <1>3, <1>5, <2>1, SwapCheaper
<1>7. z[a] = m[u] /\ z[b] = m[u]
  BY <1>3, <1>5, <1>6
<1>8. Total(Weighted(w, z), S) <= Total(Weighted(w, l), S)
  <2>1. /\ Total(Weighted(w, z), S) \in Nat /\ Total(Weighted(w, k), S) \in Nat
        /\ Total(Weighted(w, m), S) \in Nat /\ Total(Weighted(w, l), S) \in Nat
    BY <1>1, <1>3, <1>6, LengthsAre DEF MayHave
  <2> QED BY <1>1, <1>3, <1>6, <2>1
<1> QED BY <1>2, <1>6, <1>7, <1>8

(* The nodes' weights, and the bits that their leaves already need below   *)
(* them.                                                                   *)
Frequencies(H) == [x \in H |-> x.frequency]
Below(x) == Total(Weighted(Counted, x.depth), DOMAIN x.depth)
Inner(H) == Total([x \in H |-> Below(x)], H)

(* Whatever lengths are chosen, there are some for the nodes of H that     *)
(* cost no more, with what is below them.                                  *)
Affordable(lengths) ==
  lengths \in [Alphabet -> 1..MaxValues] /\ Total(Rooms(lengths), Alphabet) <= Room(0)
Bounded(H) ==
  \A lengths : Affordable(lengths) =>
    \E l : /\ MayHave(H, l)
           /\ Total(Weighted(Frequencies(H), l), H) + Inner(H)
                <= Total(Weighted(Counted, lengths), Alphabet)

LEMMA BelowIs ==
  ASSUME ArrayInv, NEW x, NodeIs(x)
  PROVE  /\ IsFiniteSet(DOMAIN x.depth) /\ Below(x) \in Nat
         /\ \A s \in DOMAIN x.depth : /\ Counted[s] \in Nat
                                      /\ Weighted(Counted, x.depth)[s] = Counted[s] * x.depth[s]
                                      /\ Weighted(Counted, x.depth)[s] \in Nat
<1>1. IsFiniteSet(DOMAIN x.depth)
  BY AlphabetIs, FS_Subset DEF NodeIs
<1>2. ASSUME NEW s \in DOMAIN x.depth
      PROVE  /\ Counted[s] \in Nat
             /\ Weighted(Counted, x.depth)[s] = Counted[s] * x.depth[s]
             /\ Weighted(Counted, x.depth)[s] \in Nat
  <2> DEFINE p == Counted[s]
             q == x.depth[s]
  <2>1. p \in Nat /\ q \in Nat
    BY AlphabetIs DEF NodeIs
  <2>2. p * q \in Nat
    <3> HIDE DEF p, q
    <3> QED BY <2>1
  <2> QED BY <2>1, <2>2 DEF Weighted
<1>3. Below(x) \in Nat
  BY <1>1, <1>2, TotalType DEF Below
<1> QED BY <1>1, <1>2, <1>3

LEMMA LeavesBounded ==
  ASSUME ArrayInv, heap = Codes!Leaves(Codes!Deltas(values))
  PROVE  Bounded(heap)
<1>1. Forest(heap) /\ \A x \in heap : \A s \in DOMAIN x.depth : x.depth[s] = 0
  BY LeavesAre
<1>2. ASSUME NEW x \in heap
      PROVE  /\ DOMAIN x.depth = {x.minimum} /\ x.minimum \in Alphabet
             /\ x.frequency = Counted[x.minimum] /\ Counted[x.minimum] \in Nat
             /\ Below(x) = 0
  <2>1. NodeIs(x) /\ x.depth[x.minimum] = 0
    BY <1>1 DEF Forest, NodeIs
  <2>2. DOMAIN x.depth = {x.minimum} /\ x.minimum \in Alphabet
    BY <2>1 DEF NodeIs
  <2>3. Counted[x.minimum] \in Nat
    BY <2>2, AlphabetIs
  <2>4. x.frequency = Counted[x.minimum]
    BY <2>1, <2>2, <2>3, TotalSingle DEF NodeIs
  <2>5. Below(x) = 0
    <3>1. Weighted(Counted, x.depth)[x.minimum] = 0
      BY <2>1, <2>2, <2>3 DEF Weighted
    <3>2. 0 \in Nat
      OBVIOUS
    <3> QED BY <2>2, <3>1, <3>2, TotalSingle DEF Below
  <2> QED BY <2>2, <2>3, <2>4, <2>5
<1>3. IsFiniteSet(heap)
  BY <1>1 DEF Forest
<1>4. Inner(heap) = 0
  <2>1. \A x \in heap : [y \in heap |-> Below(y)][x] = 0
    BY <1>2
  <2> DEFINE f == [y \in heap |-> Below(y)]
  <2> HIDE DEF f
  <2>2. Total(f, heap) = 0
    BY <1>3, <2>1, TotalZero DEF f
  <2> QED BY <2>2 DEF Inner, f
<1> DEFINE g == [x \in heap |-> x.minimum]
<1>5. {g[x] : x \in heap} = Alphabet
  <2>1. \A s \in Alphabet : \E x \in heap : s = x.minimum
    BY <1>1, <1>2 DEF Forest
  <2> QED BY <1>2, <2>1
<1>6. \A x, y \in heap : g[x] = g[y] => x = y
  BY <1>1, NodesApart
<1>7. ASSUME NEW lengths, Affordable(lengths)
      PROVE  \E l : /\ MayHave(heap, l)
                    /\ Total(Weighted(Frequencies(heap), l), heap) + Inner(heap)
                         <= Total(Weighted(Counted, lengths), Alphabet)
  <2> DEFINE l == [x \in heap |-> lengths[x.minimum]]
  <2>1. lengths \in [Alphabet -> 0..MaxValues] /\ Total(Rooms(lengths), Alphabet) <= Room(0)
    BY <1>7, CodesAssumed DEF Affordable
  <2>2. l \in [heap -> 0..MaxValues] /\ \A x \in heap : l[x] = lengths[x.minimum]
    BY <1>2, <2>1
  <2> HIDE DEF l
  <2>3. IsFiniteSet(Alphabet) /\ \A s \in Alphabet : Counted[s] \in Nat
    BY AlphabetIs
  <2>4. /\ \A s \in Alphabet : /\ Rooms(lengths)[s] = Room(lengths[s]) /\ Room(lengths[s]) \in Nat
                               /\ Weighted(Counted, lengths)[s] = Counted[s] * lengths[s]
                               /\ Counted[s] * lengths[s] \in Nat
        /\ Total(Weighted(Counted, lengths), Alphabet) \in Nat
    BY <2>1, <2>3, LengthsAre
  <2>5. \A x \in heap : /\ Rooms(l)[x] = Room(l[x])
                        /\ Weighted(Frequencies(heap), l)[x] = x.frequency * l[x]
    BY <2>2 DEF Rooms, Weighted, Frequencies
  <2>6. \A x \in heap : g[x] = x.minimum /\ g[x] \in Alphabet
    BY <1>2
  <2>7. Total(Rooms(l), heap) = Total(Rooms(lengths), Alphabet)
    <3>1. \A x \in heap : /\ Rooms(lengths)[g[x]] \in Nat
                          /\ Rooms(l)[x] = Rooms(lengths)[g[x]]
      BY <2>2, <2>4, <2>5, <2>6
    <3> HIDE DEF g
    <3> QED BY <1>3, <1>5, <1>6, <3>1, TotalRenamed
  <2>8. Total(Weighted(Frequencies(heap), l), heap) = Total(Weighted(Counted, lengths), Alphabet)
    <3>1. \A x \in heap : /\ Weighted(Counted, lengths)[g[x]] \in Nat
                          /\ Weighted(Frequencies(heap), l)[x] = Weighted(Counted, lengths)[g[x]]
      BY <1>2, <2>2, <2>4, <2>5, <2>6
    <3> HIDE DEF g
    <3> QED BY <1>3, <1>5, <1>6, <3>1, TotalRenamed
  <2> QED BY <1>4, <2>1, <2>2, <2>4, <2>7, <2>8 DEF MayHave
<1> QED BY <1>7 DEF Bounded

LEMMA BelowJoined ==
  ASSUME ArrayInv, NEW H, Forest(H), NEW a \in H, NEW b \in H, a # b, NEW n, Joins(n, a, b)
  PROVE  /\ Below(n) = Below(a) + Below(b) + (a.frequency + b.frequency)
         /\ Below(n) \in Nat /\ Below(a) \in Nat /\ Below(b) \in Nat
<1> DEFINE A == DOMAIN a.depth
           B == DOMAIN b.depth
           h == Weighted(Counted, n.depth)
<1>1. NodeIs(a) /\ NodeIs(b) /\ NodeIs(n) /\ A \cap B = {}
  BY JoinedNode DEF Forest
<1>2. /\ DOMAIN n.depth = A \cup B
      /\ \A s \in A : n.depth[s] = 1 + a.depth[s]
      /\ \A s \in B : n.depth[s] = 1 + b.depth[s]
  BY DEF Joins
<1>3. /\ IsFiniteSet(A) /\ IsFiniteSet(B) /\ Below(n) \in Nat /\ Below(a) \in Nat /\ Below(b) \in Nat
      /\ \A s \in A \cup B : h[s] = Counted[s] * n.depth[s] /\ h[s] \in Nat /\ Counted[s] \in Nat
  BY <1>1, <1>2, BelowIs
<1>4. ASSUME NEW x, NodeIs(x), DOMAIN x.depth \subseteq A \cup B,
             \A s \in DOMAIN x.depth : n.depth[s] = 1 + x.depth[s]
      PROVE  /\ Total(h, DOMAIN x.depth) = x.frequency + Below(x)
             /\ x.frequency \in Nat /\ Below(x) \in Nat
  <2> DEFINE D == DOMAIN x.depth
             e == Weighted(Counted, x.depth)
  <2>1. IsFiniteSet(D) /\ \A s \in D : e[s] = Counted[s] * x.depth[s] /\ e[s] \in Nat
    BY <1>4, BelowIs
  <2>2. \A s \in D : Counted[s] \in Nat /\ e[s] \in Nat /\ h[s] = Counted[s] + e[s]
    <3> TAKE s \in D
    <3> DEFINE p == Counted[s]
               q == x.depth[s]
               t == n.depth[s]
    <3>1. p \in Nat /\ q \in Nat /\ t = 1 + q
      BY <1>3, <1>4 DEF NodeIs
    <3>2. h[s] = p * t /\ e[s] = p * q
      BY <1>3, <1>4, <2>1
    <3>3. p * t = p + p * q
      <4> HIDE DEF p, q, t
      <4> QED BY <3>1
    <3> QED BY <2>1, <3>1, <3>2, <3>3
  <2> HIDE DEF e, h
  <2>3. /\ Total(Counted, D) \in Nat /\ Total(e, D) \in Nat
        /\ Total(h, D) = Total(Counted, D) + Total(e, D)
    BY <2>1, <2>2, TotalAdds
  <2>4. x.frequency = Total(Counted, D) /\ Below(x) = Total(e, D)
    BY <1>4 DEF NodeIs, Below, e
  <2> QED BY <2>3, <2>4
<1>5. Total(h, A) = a.frequency + Below(a) /\ a.frequency \in Nat
  BY <1>1, <1>2, <1>4
<1>6. Total(h, B) = b.frequency + Below(b) /\ b.frequency \in Nat
  BY <1>1, <1>2, <1>4
<1>7. Below(n) = Total(h, A) + Total(h, B)
  <2>1. Below(n) = Total(h, A \cup B)
    BY <1>2 DEF Below
  <2> HIDE DEF h, A, B
  <2>2. Total(h, A \cup B) = Total(h, A) + Total(h, B)
    BY <1>1, <1>3, TotalUnion
  <2> QED BY <2>1, <2>2
<1> QED BY <1>3, <1>5, <1>6, <1>7

LEMMA InnerJoined ==
  ASSUME ArrayInv, NEW H, Forest(H), NEW a \in H, NEW b \in H, a # b, NEW n, Joins(n, a, b)
  PROVE  LET K == (H \ {a, b}) \cup {n}
         IN  /\ Inner(K) = Inner(H) + (a.frequency + b.frequency)
             /\ Inner(H) \in Nat /\ Inner(K) \in Nat
<1> DEFINE R == H \ {a, b}
           K == R \cup {n}
           f == [x \in H |-> Below(x)]
           g == [x \in K |-> Below(x)]
<1>1. Forest(K) /\ n \notin R /\ IsFiniteSet(H) /\ IsFiniteSet(R)
  <2>1. IsFiniteSet(H)
    BY DEF Forest
  <2> QED BY <2>1, JoinedForest, FS_Subset
<1>2. /\ \A x \in H : f[x] = Below(x) /\ Below(x) \in Nat
      /\ \A x \in K : g[x] = Below(x) /\ Below(x) \in Nat
  <2>1. \A x \in H : NodeIs(x)
    BY DEF Forest
  <2>2. \A x \in K : NodeIs(x)
    BY <1>1 DEF Forest
  <2> HIDE DEF K
  <2> QED BY <2>1, <2>2, BelowIs
<1>3. Inner(H) = Total(f, H) /\ Inner(K) = Total(g, K)
  BY DEF Inner
<1>4. a.frequency \in Nat /\ b.frequency \in Nat
  BY NodesApart
<1>5. /\ Below(n) = Below(a) + Below(b) + (a.frequency + b.frequency)
      /\ Below(n) \in Nat /\ Below(a) \in Nat /\ Below(b) \in Nat
  BY BelowJoined
<1> HIDE DEF f, g
<1>6. /\ Total(f, H) = f[a] + (f[b] + Total(f, R))
      /\ Total(f, R) \in Nat
  BY <1>1, <1>2, TotalTwo
<1>7. Total(g, K) = g[n] + Total(g, R)
  <2>1. \A x \in R \cup {n} : g[x] \in Nat
    BY <1>2
  <2> HIDE DEF R
  <2> QED BY <1>1, <2>1, TotalWith
<1>8. Total(f, R) = Total(g, R)
  <2>1. \A x \in R : f[x] = g[x]
    BY <1>2
  <2> HIDE DEF R
  <2> QED BY <1>1, <2>1, TotalSame
<1>9. f[a] = Below(a) /\ f[b] = Below(b) /\ g[n] = Below(n)
  BY <1>2
<1> HIDE DEF R, K
<1>10. /\ Inner(K) = Inner(H) + (a.frequency + b.frequency)
       /\ Inner(H) \in Nat /\ Inner(K) \in Nat
  BY <1>3, <1>4, <1>5, <1>6, <1>7, <1>8, <1>9
<1> QED BY <1>10 DEF K, R

(* Lengths of the nodes of K that cost f less than the lengths m of H.     *)
Cheaper(K, f, H, m) ==
  \E k : /\ MayHave(K, k)
         /\ Total(Weighted(Frequencies(K), k), K) + f = Total(Weighted(Frequencies(H), m), H)

(* The parent takes a code one bit shorter than those of its children.     *)
LEMMA CostJoined ==
  ASSUME ArrayInv, NEW H, Forest(H), NEW a \in H, NEW b \in H, a # b, NEW n, Joins(n, a, b),
         NEW m, MayHave(H, m), m[a] = m[b], m[a] > 0
  PROVE  Cheaper((H \ {a, b}) \cup {n}, a.frequency + b.frequency, H, m)
<1> DEFINE R == H \ {a, b}
           K == R \cup {n}
           d == m[a]
           k == [x \in K |-> IF x = n THEN d - 1 ELSE m[x]]
           wH == Frequencies(H)
           wK == Frequencies(K)
<1>1. Forest(K) /\ n \notin R /\ IsFiniteSet(H) /\ IsFiniteSet(R) /\ IsFiniteSet(K)
  <2>1. IsFiniteSet(H)
    BY DEF Forest
  <2>2. Forest(K) /\ n \notin R
    BY JoinedForest
  <2> QED BY <2>1, <2>2, FS_Subset DEF Forest
<1>2. m \in [H -> 0..MaxValues] /\ Total(Rooms(m), H) <= Room(0) /\ d \in 1..MaxValues /\ d - 1 \in 0..MaxValues
  BY CodesAssumed DEF MayHave
<1>3. k \in [K -> 0..MaxValues] /\ k[n] = d - 1 /\ \A x \in R : k[x] = m[x]
  BY <1>1, <1>2
<1> HIDE DEF k
<1>4. /\ \A x \in H : wH[x] = x.frequency /\ wH[x] \in Nat
      /\ \A x \in K : wK[x] = x.frequency /\ wK[x] \in Nat
      /\ n.frequency = a.frequency + b.frequency
  <2>1. \A x \in H : x.frequency \in Nat
    BY NodesApart
  <2>2. \A x \in K : x.frequency \in Nat
    BY <1>1, NodesApart
  <2> HIDE DEF K
  <2> QED BY <2>1, <2>2 DEF Frequencies, Joins
<1> HIDE DEF wH, wK
<1>5. \A x \in H : /\ Rooms(m)[x] = Room(m[x]) /\ Room(m[x]) \in Nat
                   /\ Weighted(wH, m)[x] = wH[x] * m[x] /\ wH[x] * m[x] \in Nat
  BY <1>1, <1>2, <1>4, LengthsAre
<1>6. /\ \A x \in K : /\ Rooms(k)[x] = Room(k[x]) /\ Room(k[x]) \in Nat
                      /\ Weighted(wK, k)[x] = wK[x] * k[x] /\ wK[x] * k[x] \in Nat
      /\ Total(Rooms(k), K) \in Nat
  <2> HIDE DEF K
  <2> QED BY <1>1, <1>3, <1>4, LengthsAre
<1>7. ASSUME NEW f, NEW g, \A x \in H : f[x] \in Nat, \A x \in K : g[x] \in Nat,
             \A x \in R : f[x] = g[x]
      PROVE  /\ Total(f, H) = f[a] + (f[b] + Total(f, R)) /\ Total(g, K) = g[n] + Total(f, R)
             /\ Total(f, R) \in Nat
  <2>1. Total(f, H) = f[a] + (f[b] + Total(f, R)) /\ Total(f, R) \in Nat
    BY <1>1, <1>7, TotalTwo
  <2>2. \A x \in R \cup {n} : g[x] \in Nat
    BY <1>7
  <2>3. \A x \in R : f[x] = g[x]
    BY <1>7
  <2> HIDE DEF R
  <2>4. Total(g, R \cup {n}) = g[n] + Total(g, R) /\ Total(g, R) = Total(f, R)
    BY <1>1, <2>2, <2>3, TotalWith, TotalSame
  <2> QED BY <2>1, <2>4
<1>8. Total(Rooms(k), K) = Total(Rooms(m), H)
  <2>1. /\ Total(Rooms(m), H) = Rooms(m)[a] + (Rooms(m)[b] + Total(Rooms(m), R))
        /\ Total(Rooms(k), K) = Rooms(k)[n] + Total(Rooms(m), R)
        /\ Total(Rooms(m), R) \in Nat
    <3>1. /\ \A x \in H : Rooms(m)[x] \in Nat
          /\ \A x \in K : Rooms(k)[x] \in Nat
          /\ \A x \in R : Rooms(m)[x] = Rooms(k)[x]
      BY <1>3, <1>5, <1>6
    <3> HIDE DEF K, R
    <3> QED BY <1>7, <3>1
  <2>2. Rooms(m)[a] = Room(d) /\ Rooms(m)[b] = Room(d) /\ Rooms(k)[n] = Room(d - 1)
    BY <1>3, <1>5, <1>6
  <2>3. Room(d - 1) = 2 * Room(d) /\ Room(d) \in Nat
    <3>1. d \in 0..MaxValues
      BY <1>2, CodesAssumed
    <3> HIDE DEF d
    <3> QED BY <1>2, <3>1, RoomIs
  <2> HIDE DEF d
  <2> QED BY <2>1, <2>2, <2>3
<1>9. Total(Weighted(wK, k), K) + (a.frequency + b.frequency) = Total(Weighted(wH, m), H)
  <2> DEFINE f == Weighted(wH, m)
             g == Weighted(wK, k)
  <2>1. /\ Total(f, H) = f[a] + (f[b] + Total(f, R))
        /\ Total(g, K) = g[n] + Total(f, R)
        /\ Total(f, R) \in Nat
    <3>1. /\ \A x \in H : f[x] \in Nat
          /\ \A x \in K : g[x] \in Nat
      BY <1>5, <1>6
    <3>2. \A x \in R : f[x] = g[x]
      <4> TAKE x \in R
      <4>1. wH[x] = wK[x] /\ m[x] = k[x]
        BY <1>3, <1>4
      <4> QED BY <1>5, <1>6, <4>1
    <3> HIDE DEF f, g, K, R
    <3> QED BY <1>7, <3>1, <3>2
  <2> DEFINE p == a.frequency
             q == b.frequency
  <2>2. p \in Nat /\ q \in Nat /\ f[a] = p * d /\ f[b] = q * d /\ g[n] = (p + q) * (d - 1)
    <3>1. wH[a] = p /\ wH[b] = q /\ wK[n] = p + q /\ p \in Nat /\ q \in Nat
      BY <1>4
    <3>2. f[a] = wH[a] * m[a] /\ f[b] = wH[b] * m[b] /\ g[n] = wK[n] * k[n]
      BY <1>5, <1>6
    <3> QED BY <1>3, <3>1, <3>2
  <2> HIDE DEF f, g, p, q, d
  <2>3. (p + q) * (d - 1) + (p + q) = p * d + q * d
    BY <1>2, <2>2
  <2>4. p * d \in Nat /\ q * d \in Nat /\ (p + q) * (d - 1) \in Nat
    <3>1. d \in Nat /\ d - 1 \in Nat /\ p + q \in Nat
      BY <1>2, <2>2
    <3> QED BY <2>2, <3>1
  <2>5. Total(g, K) + (p + q) = Total(f, H)
    BY <2>1, <2>2, <2>3, <2>4
  <2> QED BY <2>5 DEF f, g, p, q
<1>10. MayHave(K, k)
  BY <1>2, <1>3, <1>8 DEF MayHave
<1> QED BY <1>9, <1>10 DEF wH, wK, Cheaper

LEMMA BoundedJoined ==
  ASSUME ArrayInv, NEW H, Forest(H), Bounded(H), NEW a \in H, NEW b \in H, a # b,
         NEW n, Joins(n, a, b), \A y \in H : a.frequency <= y.frequency,
         \A y \in H \ {a} : b.frequency <= y.frequency
  PROVE  Bounded((H \ {a, b}) \cup {n})
<1> DEFINE K == (H \ {a, b}) \cup {n}
           w == Frequencies(H)
<1>1. IsFiniteSet(H) /\ \A x \in H : w[x] = x.frequency /\ w[x] \in Nat
  BY NodesApart DEF Forest, Frequencies
<1>2. Forest(K)
  BY JoinedForest
<1> HIDE DEF w
<1>3. ASSUME NEW lengths, Affordable(lengths)
      PROVE  \E k : /\ MayHave(K, k)
                    /\ Total(Weighted(Frequencies(K), k), K) + Inner(K)
                         <= Total(Weighted(Counted, lengths), Alphabet)
  <2>1. PICK l : /\ MayHave(H, l)
                 /\ Total(Weighted(w, l), H) + Inner(H)
                      <= Total(Weighted(Counted, lengths), Alphabet)
    BY <1>3 DEF Bounded, w
  <2>2. PICK m : /\ MayHave(H, m) /\ m[a] = m[b] /\ m[a] > 0
                 /\ Total(Weighted(w, m), H) <= Total(Weighted(w, l), H)
    <3>1. (\A x \in H : w[a] <= w[x]) /\ (\A x \in H \ {a} : w[b] <= w[x])
      BY <1>1
    <3> QED BY <1>1, <2>1, <3>1, Exchange
  <2>3. PICK k : /\ MayHave(K, k)
                 /\ Total(Weighted(Frequencies(K), k), K) + (a.frequency + b.frequency)
                      = Total(Weighted(w, m), H)
    <3>1. MayHave(H, m) /\ m[a] = m[b] /\ m[a] > 0
      BY <2>2
    <3>2. Cheaper((H \ {a, b}) \cup {n}, a.frequency + b.frequency, H, m)
      <4> HIDE DEF K
      <4> QED BY <3>1, CostJoined
    <3> QED BY <3>2 DEF w, Cheaper
  <2>4. Inner(K) = Inner(H) + (a.frequency + b.frequency) /\ Inner(H) \in Nat /\ Inner(K) \in Nat
    BY InnerJoined
  <2>5. Total(Weighted(w, m), H) \in Nat /\ Total(Weighted(w, l), H) \in Nat
    BY <1>1, <2>1, <2>2, LengthsAre DEF MayHave
  <2>6. Total(Weighted(Frequencies(K), k), K) \in Nat
    <3>1. IsFiniteSet(K) /\ \A x \in K : Frequencies(K)[x] \in Nat
      <4> HIDE DEF K
      <4> QED BY <1>2, NodesApart DEF Forest, Frequencies
    <3> HIDE DEF K
    <3> QED BY <2>3, <3>1, LengthsAre DEF MayHave
  <2>7. Total(Weighted(Counted, lengths), Alphabet) \in Nat
    <3>1. lengths \in [Alphabet -> 0..MaxValues]
      BY <1>3, CodesAssumed DEF Affordable
    <3> QED BY <3>1, AlphabetIs, LengthsAre
  <2>8. a.frequency \in Nat /\ b.frequency \in Nat
    BY NodesApart
  <2> HIDE DEF K
  <2>9. Total(Weighted(Frequencies(K), k), K) + Inner(K)
          <= Total(Weighted(Counted, lengths), Alphabet)
    BY <2>1, <2>2, <2>3, <2>4, <2>5, <2>6, <2>7, <2>8
  <2> QED BY <2>3, <2>9
<1> QED BY <1>3 DEF Bounded

(* Lengths that cost no more than any others.                              *)
LeastCost(l) ==
  \A lengths : Affordable(lengths) =>
    Total(Weighted(Counted, l), Alphabet) <= Total(Weighted(Counted, lengths), Alphabet)
Own == [s \in Alphabet |-> table[s].length]

LEMMA OneTreeBest ==
  ASSUME ArrayInv, NEW H, Forest(H), Cardinality(H) = 1, Bounded(H),
         NEW l, l = [s \in Alphabet |-> Codes!Length(Codes!Top(H).depth[s])]
  PROVE  LeastCost(l)
<1> DEFINE x == Codes!Top(H)
           d == x.depth
<1>1. H = {x} /\ DOMAIN d = Alphabet /\ NodeIs(x) /\ \A s \in Alphabet : d[s] \in 0..(MaxValues - 1)
  BY OneTree
<1>2. /\ IsFiniteSet(Alphabet)
      /\ \A s \in Alphabet : Counted[s] \in Nat
  BY AlphabetIs
<1> HIDE DEF x
<1>3. \A s \in Alphabet : l[s] = IF d[s] = 0 THEN 1 ELSE d[s]
  BY DEF Codes!Length, x
<1>4. DOMAIN l = Alphabet
  OBVIOUS
<1>5. Below(x) = Total(Weighted(Counted, d), Alphabet) /\ Below(x) \in Nat
  BY <1>1, BelowIs DEF Below
<1>6. Inner(H) = Below(x)
  <2> DEFINE f == [y \in H |-> Below(y)]
  <2>1. f[x] = Below(x) /\ Inner(H) = Total(f, {x})
    BY <1>1 DEF Inner
  <2> HIDE DEF f
  <2> QED BY <1>5, <2>1, TotalSingle
<1> SUFFICES ASSUME NEW lengths, Affordable(lengths)
             PROVE  Total(Weighted(Counted, l), Alphabet)
                      <= Total(Weighted(Counted, lengths), Alphabet)
  BY DEF LeastCost
<1>7. lengths \in [Alphabet -> 1..MaxValues]
  BY DEF Affordable
<1>8. CASE \A s \in Alphabet : d[s] # 0
  <2>1. PICK k : /\ MayHave(H, k)
                 /\ Total(Weighted(Frequencies(H), k), H) + Inner(H)
                      <= Total(Weighted(Counted, lengths), Alphabet)
    BY DEF Bounded
  <2>2. Total(Weighted(Frequencies(H), k), H) \in Nat
    <3>1. IsFiniteSet(H) /\ \A y \in H : Frequencies(H)[y] \in Nat
      BY NodesApart DEF Forest, Frequencies
    <3> QED BY <2>1, <3>1, LengthsAre DEF MayHave
  <2>3. Total(Weighted(Counted, lengths), Alphabet) \in Nat
    <3>1. lengths \in [Alphabet -> 0..MaxValues]
      BY <1>7, CodesAssumed
    <3> QED BY <1>2, <3>1, LengthsAre
  <2>4. Total(Weighted(Counted, l), Alphabet) = Total(Weighted(Counted, d), Alphabet)
    <3>1. \A s \in Alphabet : Weighted(Counted, l)[s] = Weighted(Counted, d)[s]
      BY <1>1, <1>3, <1>4, <1>8 DEF Weighted
    <3> QED BY <1>2, <3>1, TotalSame
  <2> QED BY <1>5, <1>6, <2>1, <2>2, <2>3, <2>4
<1>9. CASE \E s \in Alphabet : d[s] = 0
  <2>1. PICK s \in Alphabet : d[s] = 0
    BY <1>9
  <2>2. Alphabet = {s}
    BY <1>1, <2>1 DEF NodeIs
  <2>3. Weighted(Counted, l)[s] = Counted[s] * 1
    BY <1>3, <1>4, <2>1 DEF Weighted
  <2>4. Weighted(Counted, lengths)[s] = Counted[s] * lengths[s] /\ lengths[s] \in 1..MaxValues
    BY <1>7 DEF Weighted
  <2> DEFINE p == Counted[s]
             q == lengths[s]
  <2>5. p \in Nat /\ q \in Nat /\ q >= 1
    BY <1>2, <2>4, CodesAssumed
  <2>6. p * 1 \in Nat /\ p * q \in Nat /\ p * 1 <= p * q
    <3> HIDE DEF p, q
    <3>1. p * q = p + p * (q - 1) /\ q - 1 \in Nat
      BY <2>5
    <3>2. p * (q - 1) \in Nat
      BY <2>5, <3>1
    <3> QED BY <2>5, <3>1, <3>2
  <2>7. /\ Total(Weighted(Counted, l), {s}) = p * 1
        /\ Total(Weighted(Counted, lengths), {s}) = p * q
    BY <2>3, <2>4, <2>6, TotalSingle
  <2> QED BY <2>2, <2>6, <2>7
<1> QED BY <1>8, <1>9

(* One symbol more, counted.                                               *)
Count(s, k, y) == Cardinality({i \in 1..k : s[i] = y})

LEMMA OneMore ==
  ASSUME NEW s, NEW k \in Nat, NEW y
  PROVE  /\ Count(s, k, y) \in Nat
         /\ Count(s, k + 1, y) = Count(s, k, y) + (IF s[k + 1] = y THEN 1 ELSE 0)
<1> DEFINE c == {i \in 1..k : s[i] = y}
           e == {i \in 1..(k + 1) : s[i] = y}
<1>1. IsFiniteSet(1..k)
  BY FS_Interval
<1>2. IsFiniteSet(c)
  BY <1>1, FS_Subset
<1>3. k + 1 \notin c /\ e = IF s[k + 1] = y THEN c \cup {k + 1} ELSE c
  OBVIOUS
<1>4. Count(s, k, y) = Cardinality(c) /\ Count(s, k + 1, y) = Cardinality(e)
  BY DEF Count
<1> HIDE DEF c, e
<1>5. Cardinality(c) \in Nat /\ Cardinality(c \cup {k + 1}) = Cardinality(c) + 1
  BY <1>2, <1>3, FS_AddElement, FS_CardinalityType
<1> QED BY <1>3, <1>4, <1>5

(* The payload is as long as the lengths of the table cost.                *)
LEMMA EncodedCosts ==
  ASSUME ArrayInv, OwnTable, NEW cs, CodesOf(table, cs)
  PROVE  Len(Codes!Encoded(Codes!Deltas(values), cs)) = Total(Weighted(Counted, Own), Alphabet)
<1> DEFINE s == Codes!Deltas(values)
           n == Len(values)
           l == CodeList(s, cs)
           c(k) == [y \in Alphabet |-> Count(s, k, y)]
<1>1. s \in Seq(Codes!Symbols) /\ Len(s) = n /\ n \in Nat /\ DOMAIN s = 1..n
  BY DeltasAre DEF ArrayInv
<1>2. Alphabet = {s[i] : i \in 1..n} /\ IsFiniteSet(Alphabet)
  BY AlphabetIs
<1>3. /\ Known(s, cs)
  BY OwnCodes
<1> HIDE DEF s, n
<1>4. /\ l \in Seq(Seq(Bit)) /\ Len(l) = n
      /\ \A i \in 1..n : l[i] = Codes!CodeOf(s[i], cs)
      /\ Codes!Encoded(s, cs) = Codes!FlattenSeq(l)
  BY <1>1, <1>3, CodeListIs
<1>5. Own \in [Alphabet -> 0..MaxValues] /\ \A y \in Alphabet : Own[y] \in Nat
  BY CodesAssumed DEF OwnTable, TableIs, Own
<1>6. ASSUME NEW i \in 1..n PROVE l[i] \in Seq(Bit) /\ Len(l[i]) = Own[s[i]] /\ s[i] \in Alphabet
  <2>1. s[i] \in Alphabet
    BY <1>2
  <2>2. PICK a \in cs : IsCodeOf(table, s[i], a)
    BY <2>1 DEF CodesOf, Canonical, OwnTable
  <2>3. a.symbol = s[i] /\ Len(a.code) = Own[s[i]]
    BY <2>1, <2>2 DEF IsCodeOf, OwnTable, Own
  <2>4. Codes!CodeOf(a.symbol, cs) = a.code /\ a.code \in Seq(Bit)
    BY CodeOfIs
  <2> QED BY <1>4, <2>1, <2>3, <2>4
<1> HIDE DEF l
<1>7. PICK F : Flattened(F, l)
  BY <1>4, FlattenedExists
<1>8. ASSUME NEW k \in Nat
      PROVE  \A y \in Alphabet : /\ c(k)[y] \in Nat
                                 /\ c(k + 1)[y] = c(k)[y] + (IF s[k + 1] = y THEN 1 ELSE 0)
                                 /\ Weighted(c(k), Own)[y] = c(k)[y] * Own[y]
                                 /\ c(k)[y] * Own[y] \in Nat
  <2> TAKE y \in Alphabet
  <2>1. c(k)[y] \in Nat /\ c(k + 1)[y] = c(k)[y] + (IF s[k + 1] = y THEN 1 ELSE 0)
    <3>1. c(k)[y] = Count(s, k, y) /\ c(k + 1)[y] = Count(s, k + 1, y)
      OBVIOUS
    <3> HIDE DEF c
    <3> QED BY <3>1, OneMore
  <2> HIDE DEF c
  <2> DEFINE p == c(k)[y]
             q == Own[y]
  <2>2. p \in Nat /\ q \in Nat
    BY <1>5, <2>1
  <2>3. p * q \in Nat
    <3> HIDE DEF p, q
    <3> QED BY <2>2
  <2> QED BY <1>5, <2>1, <2>3 DEF Weighted
<1> HIDE DEF c
<1> DEFINE P == {k \in 0..n : Len(F[k]) = Total(Weighted(c(k), Own), Alphabet)}
<1>9. 0 \in P
  <2>1. \A y \in Alphabet : Weighted(c(0), Own)[y] = 0
    <3> TAKE y \in Alphabet
    <3>1. c(0)[y] = 0
      <4>1. {i \in 1..0 : s[i] = y} = {}
        OBVIOUS
      <4> QED BY <4>1, FS_EmptySet DEF c, Count
    <3> QED BY <1>5, <1>8, <3>1
  <2>2. Total(Weighted(c(0), Own), Alphabet) = 0
    BY <1>2, <2>1, TotalZero
  <2> QED BY <1>1, <1>7, <2>2 DEF Flattened
<1>10. ASSUME NEW k \in 0..(n - 1), k \in P PROVE k + 1 \in P
  <2> DEFINE y == s[k + 1]
             f == Weighted(c(k), Own)
             h == Weighted(c(k + 1), Own)
             e == [z \in Alphabet |-> IF z = y THEN Own[z] ELSE 0]
  <2>1. k \in Nat /\ k + 1 \in Nat /\ k + 1 \in 1..n /\ (k + 1) - 1 = k /\ k \in 0..n /\ k + 1 \in 0..n
    BY <1>1
  <2>2. y \in Alphabet /\ Len(l[k + 1]) = Own[y] /\ l[k + 1] \in Seq(Bit) /\ Own[y] \in Nat
    BY <1>5, <1>6, <2>1
  <2>3. F[k + 1] = F[k] \o l[k + 1] /\ F[k] \in Seq(Bit)
    BY <1>4, <1>7, <2>1 DEF Flattened
  <2>4. Len(F[k + 1]) = Len(F[k]) + Own[y]
    <3> DEFINE x == F[k]
               z == l[k + 1]
    <3>1. x \in Seq(Bit) /\ z \in Seq(Bit) /\ F[k + 1] = x \o z
      BY <2>2, <2>3
    <3> HIDE DEF x, z, y
    <3>2. Len(x \o z) = Len(x) + Len(z)
      BY <3>1
    <3> QED BY <2>2, <3>1, <3>2 DEF x, z
  <2>5. \A z \in Alphabet : e[z] = (IF z = y THEN Own[z] ELSE 0) /\ e[z] \in Nat
    BY <1>5
  <2> HIDE DEF e
  <2>6. \A z \in Alphabet : f[z] \in Nat /\ e[z] \in Nat /\ h[z] = f[z] + e[z]
    <3> TAKE z \in Alphabet
    <3>1. /\ c(k)[z] \in Nat
          /\ c(k + 1)[z] = c(k)[z] + (IF y = z THEN 1 ELSE 0)
          /\ f[z] = c(k)[z] * Own[z] /\ f[z] \in Nat /\ Own[z] \in Nat
          /\ h[z] = c(k + 1)[z] * Own[z]
      BY <1>5, <1>8, <2>1
    <3> DEFINE p == c(k)[z]
               r == c(k + 1)[z]
               q == Own[z]
    <3>2. p \in Nat /\ q \in Nat /\ r = p + (IF y = z THEN 1 ELSE 0)
          /\ f[z] = p * q /\ f[z] \in Nat /\ h[z] = r * q
      BY <3>1
    <3>3. e[z] = (IF z = y THEN q ELSE 0)
      BY <2>5
    <3> HIDE DEF p, q, r, f, h, y
    <3>4. (p + 1) * q = p * q + q
      BY <3>2
    <3>5. CASE y = z
      BY <3>2, <3>3, <3>4, <3>5
    <3>6. CASE y # z
      BY <3>2, <3>3, <3>6
    <3> QED BY <3>5, <3>6
  <2>7. Total(e, Alphabet) = Own[y]
    <3>1. Takes(e, Alphabet)
      BY <1>2, <2>5, TotalTakes
    <3>2. Total(e, Alphabet) = e[y] + Total(e, Alphabet \ {y})
      BY <2>2, <3>1 DEF Takes
    <3>3. Total(e, Alphabet \ {y}) = 0
      <4>1. IsFiniteSet(Alphabet \ {y}) /\ \A z \in Alphabet \ {y} : e[z] = 0
        BY <1>2, <2>5, FS_Subset
      <4> QED BY <4>1, TotalZero
    <3> QED BY <2>2, <2>5, <3>2, <3>3
  <2> HIDE DEF f, h
  <2>8. /\ Total(f, Alphabet) \in Nat
        /\ Total(h, Alphabet) = Total(f, Alphabet) + Total(e, Alphabet)
    BY <1>2, <2>6, TotalAdds
  <2>9. Len(F[k]) = Total(f, Alphabet)
    BY <1>10 DEF f
  <2>10. Len(F[k + 1]) = Total(h, Alphabet)
    BY <2>4, <2>7, <2>8, <2>9
  <2> QED BY <2>1, <2>10 DEF h
<1> HIDE DEF P
<1>11. n \in P
  <2>1. \A k \in 0..n : k \in P
    BY <1>1, <1>9, <1>10, UpTo
  <2> QED BY <1>1, <2>1
<1>12. Codes!FlattenSeq(l) = F[n]
  BY <1>4, <1>7, FlattenIs
<1>13. Total(Weighted(c(n), Own), Alphabet) = Total(Weighted(Counted, Own), Alphabet)
  <2>1. \A y \in Alphabet : c(n)[y] = Counted[y]
    BY <1>1, CodesNumbers DEF c, Count, Counted, Codes!Occurrences, s
  <2>2. \A y \in Alphabet : Weighted(c(n), Own)[y] = Weighted(Counted, Own)[y]
    BY <2>1 DEF Weighted, Own
  <2> QED BY <1>2, <2>2, TotalSame
<1> QED BY <1>4, <1>11, <1>12, <1>13 DEF P, s

(* What is known of the costs while the encoder works.                     *)
CostInv ==
  /\ stage = "merge" => Bounded(heap)
  /\ stage = "encode" => LeastCost(Own)
  /\ Codes!Shortest

LEMMA CostInitInv == Codes!Init => CostInv
<1> SUFFICES ASSUME Codes!Init PROVE CostInv
  OBVIOUS
<1>1. ArrayInv
  BY CodesInitInv DEF CodesInv
<1>2. Bounded(heap)
  BY <1>1, LeavesBounded DEF Codes!Init
<1> QED BY <1>2 DEF CostInv, Codes!Shortest, Codes!Init

LEMMA MergeKeepsCost == CodesInv /\ CostInv /\ Codes!Merge => CostInv'
<1> SUFFICES ASSUME CodesInv, CostInv, Codes!Merge PROVE CostInv'
  OBVIOUS
<1>1. stage = "merge" /\ Forest(heap) /\ ArrayInv /\ Bounded(heap)
  BY DEF CodesInv, AtMerge, CostInv, Codes!Merge
<1>2. PICK a, b \in heap : \E n :
        /\ a # b /\ Joins(n, a, b) /\ heap' = (heap \ {a, b}) \cup {n}
        /\ \A y \in heap : a.frequency <= y.frequency
        /\ \A y \in heap \ {a} : b.frequency <= y.frequency
  BY <1>1, MergeJoins
<1>3. PICK n :
        /\ a # b /\ Joins(n, a, b) /\ heap' = (heap \ {a, b}) \cup {n}
        /\ \A y \in heap : a.frequency <= y.frequency
        /\ \A y \in heap \ {a} : b.frequency <= y.frequency
  BY <1>2
<1>4. Bounded((heap \ {a, b}) \cup {n})
  BY <1>1, <1>3, BoundedJoined
<1>5. Bounded(heap')
  BY <1>3, <1>4
<1>6. UNCHANGED <<values, stage>>
  BY DEF Codes!Merge, Codes!streamVars
<1>7. Alphabet' = Alphabet /\ Counted' = Counted
  BY <1>6 DEF Alphabet, Counted
<1>8. Bounded(heap)'
  BY <1>5, <1>7 DEF Bounded, Affordable, Inner, Below
<1> QED BY <1>1, <1>6, <1>8 DEF CostInv, Codes!Shortest

LEMMA LengthsKeepsCost == CodesInv /\ CostInv /\ Codes!Lengths => CostInv'
<1> SUFFICES ASSUME CodesInv, CostInv, Codes!Lengths PROVE CostInv'
  OBVIOUS
<1> DEFINE d == Codes!Top(heap).depth
           l == [s \in Alphabet |-> Codes!Length(d[s])]
<1>1. stage = "merge" /\ Forest(heap) /\ ArrayInv /\ Bounded(heap) /\ Cardinality(heap) = 1
  BY CodesNumbers DEF CodesInv, AtMerge, CostInv, Codes!Lengths
<1>2. /\ table' = [s \in DOMAIN d |-> [symbol |-> s, length |-> Codes!Length(d[s])]]
      /\ stage' = "encode" /\ UNCHANGED values
  BY DEF Codes!Lengths
<1>3. DOMAIN d = Alphabet
  BY <1>1, OneTree
<1>4. LeastCost(l)
  BY <1>1, OneTreeBest
<1>5. Alphabet' = Alphabet /\ Counted' = Counted
  BY <1>2 DEF Alphabet, Counted
<1>6. Own' = l
  BY <1>2, <1>3, <1>5 DEF Own
<1> HIDE DEF l
<1>7. LeastCost(Own)'
  BY <1>4, <1>5, <1>6 DEF LeastCost, Affordable
<1> QED BY <1>2, <1>7 DEF CostInv, Codes!Shortest

(* The room and the cost of chosen lengths, as the property names them.    *)
LEMMA ChosenLengths ==
  ASSUME ArrayInv, NEW lengths \in [Alphabet -> 1..MaxValues]
  PROVE  /\ Codes!Kraft(lengths) = Total(Rooms(lengths), Alphabet)
         /\ Codes!Cost(lengths) = Total(Weighted(Counted, lengths), Alphabet)
         /\ Codes!WholeSpace = Room(0)
<1> DEFINE g == [s \in DOMAIN lengths |-> Codes!PowerOfTwo[MaxValues - lengths[s]]]
           h == [s \in DOMAIN lengths |-> Codes!Occurrences(s, Codes!Deltas(values)) * lengths[s]]
<1>1. DOMAIN lengths = Alphabet
  OBVIOUS
<1>2. DOMAIN g = Alphabet /\ Codes!Kraft(lengths) = Codes!SumFunction(g)
  BY <1>1 DEF Codes!Kraft
<1>3. DOMAIN h = Alphabet /\ Codes!Cost(lengths) = Codes!SumFunction(h)
  BY <1>1 DEF Codes!Cost
<1>4. \A s \in Alphabet : g[s] = Rooms(lengths)[s]
  BY <1>1, CodesNumbers DEF Rooms, Room
<1>5. \A s \in Alphabet : h[s] = Weighted(Counted, lengths)[s]
  BY <1>1 DEF Weighted, Counted
<1> HIDE DEF g, h
<1>6. Codes!Kraft(lengths) = Total(g, Alphabet) /\ Codes!Cost(lengths) = Total(h, Alphabet)
  BY <1>2, <1>3, SumIsTotal
<1>7. IsFiniteSet(Alphabet)
  BY AlphabetIs
<1>8. Total(g, Alphabet) = Total(Rooms(lengths), Alphabet)
  BY <1>4, <1>7, TotalSame
<1>9. Total(h, Alphabet) = Total(Weighted(Counted, lengths), Alphabet)
  BY <1>5, <1>7, TotalSame
<1>10. Codes!WholeSpace = Room(0)
  BY CodesNumbers, CodesAssumed DEF Codes!WholeSpace, Room
<1> QED BY <1>6, <1>8, <1>9, <1>10

LEMMA WriteKeepsCost == CodesInv /\ CostInv /\ Codes!Write => CostInv'
<1> SUFFICES ASSUME CodesInv, CostInv, Codes!Write PROVE CostInv'
  OBVIOUS
<1>1. /\ stage = "encode" /\ pending = {} /\ stage' = "damage"
      /\ bits' = Codes!Encoded(Codes!Deltas(values), codes) /\ UNCHANGED values
  BY DEF Codes!Write
<1>2. CanonInv /\ ArrayInv /\ OwnTable /\ LeastCost(Own)
  BY <1>1 DEF CodesInv, AtEncode, CostInv
<1>3. CodesOf(table, codes)
  BY <1>1, <1>2, FinishedTable DEF CodesOf, CanonInv
<1>4. Len(bits') = Total(Weighted(Counted, Own), Alphabet)
  BY <1>1, <1>2, <1>3, EncodedCosts
<1>5. ASSUME NEW lengths \in [Alphabet -> 1..MaxValues], Codes!Kraft(lengths) <= Codes!WholeSpace
      PROVE  Len(bits') <= Codes!Cost(lengths)
  <2>1. Affordable(lengths)
    BY <1>2, <1>5, ChosenLengths DEF Affordable
  <2>2. Total(Weighted(Counted, Own), Alphabet) <= Total(Weighted(Counted, lengths), Alphabet)
    BY <1>2, <2>1 DEF LeastCost
  <2> QED BY <1>2, <1>4, <2>2, ChosenLengths
<1>6. Codes!Shortest'
  BY <1>1, <1>5 DEF Codes!Shortest, Alphabet, Codes!Kraft, Codes!WholeSpace, Codes!Cost
<1> QED BY <1>1, <1>6 DEF CostInv

LEMMA CostStays ==
  ASSUME CostInv, UNCHANGED <<values, heap, table, bits, stage>>
  PROVE  CostInv'
<1>1. Alphabet' = Alphabet /\ Counted' = Counted /\ Own' = Own
  BY DEF Alphabet, Counted, Own
<1>2. Bounded(heap) => Bounded(heap)'
  BY <1>1 DEF Bounded, Affordable, Inner, Below
<1>3. LeastCost(Own) => LeastCost(Own)'
  BY <1>1 DEF LeastCost, Affordable
<1>4. Codes!Shortest'
  BY DEF CostInv, Codes!Shortest, Codes!Kraft, Codes!WholeSpace, Codes!Cost
<1> QED BY <1>2, <1>3, <1>4 DEF CostInv

(* The other steps leave the stages the costs are about, or stay in one.   *)
LEMMA CostNextKeeps == CodesInv /\ CostInv /\ Codes!Next => CostInv'
<1> SUFFICES ASSUME CodesInv, CostInv, Codes!Next PROVE CostInv'
  OBVIOUS
<1>1. CASE Codes!Merge BY <1>1, MergeKeepsCost
<1>2. CASE Codes!Lengths BY <1>2, LengthsKeepsCost
<1>3. CASE Codes!Write BY <1>3, WriteKeepsCost
<1>4. CASE Codes!AssignCode
  BY <1>4, CostStays DEF Codes!AssignCode, Codes!streamVars
<1>5. CASE stage' \notin {"merge", "encode", "damage"}
  BY <1>5 DEF CostInv, Codes!Shortest
<1>6. CASE Codes!Done
  BY <1>6, CostStays DEF Codes!Done, Codes!vars, Codes!streamVars
<1>7. CASE Codes!RejectCode \/ Codes!Intact \/ Codes!BadBit \/ Codes!BadTable \/ Codes!BadBitCount
  BY <1>5, <1>7 DEF Codes!RejectCode, Codes!Intact, Codes!BadBit, Codes!BadTable,
     Codes!BadBitCount, Codes!Damage
<1>8. CASE Codes!ReadTable \/ Codes!RejectTable \/ Codes!CodesDone
  BY <1>5, <1>8 DEF Codes!ReadTable, Codes!RejectTable, Codes!CodesDone, Codes!Reject
<1>9. CASE Codes!ReadBit \/ Codes!RejectBit \/ Codes!DecodeDone
  BY <1>5, <1>9 DEF Codes!ReadBit, Codes!RejectBit, Codes!DecodeDone, Codes!AtBit, Codes!Reject
<1> QED BY <1>1, <1>2, <1>3, <1>4, <1>6, <1>7, <1>8, <1>9 DEF Codes!Next

-------------------------------------------------------------------------------
(* ---- the two parts ------------------------------------------------------ *)

CodesPart == part = "codes" => CodesInv /\ CostInv

LEMMA CodesPartInvariant == TripletSpec => []CodesPart
<1>1. TripletInit => CodesPart
  BY CodesInitInv, CostInitInv DEF TripletInit, CodesPart
<1>2. CodesPart /\ [TripletNext]_tripletVars => CodesPart'
  <2> SUFFICES ASSUME CodesPart, [TripletNext]_tripletVars PROVE CodesPart'
    OBVIOUS
  <2>1. CASE part = "codes" /\ Codes!Next /\ UNCHANGED <<part, vars>>
    BY <2>1, CodesNextKeeps, CostNextKeeps DEF CodesPart
  <2>2. CASE part = "encoder" /\ Next /\ UNCHANGED <<part, codeVars>>
    BY <2>2 DEF CodesPart
  <2>3. CASE UNCHANGED tripletVars
    <3>1. UNCHANGED part /\ UNCHANGED Codes!vars
          /\ UNCHANGED <<values, heap, table, bits, stage>>
      BY <2>3 DEF tripletVars, codeVars, Codes!vars, Codes!streamVars, Codes!canonicalVars,
         Codes!readerVars
    <3> QED BY <3>1, CodesStay, CostStays DEF CodesPart
  <2> QED BY <2>1, <2>2, <2>3 DEF TripletNext
<1> QED BY <1>1, <1>2, PTL DEF TripletSpec

(* huffman.cpp:32-41, 181-188: a table is refused exactly when its lengths *)
(* do not fit into the code space, the codes of an accepted one are        *)
(* prefix-free, and what is accepted of a damaged stream is as many values *)
(* as asked, whose codes are the bits read.                                *)
THEOREM DamageStaysJudged == TripletSpec => []DamageJudged
<1>1. CodesPart => DamageJudged
  BY CodesInvJudges DEF CodesPart, DamageJudged
<1> QED BY <1>1, CodesPartInvariant, PTL

(* huffman.cpp:72, 96: an undamaged stream is never refused and gives the  *)
(* values back, and no prefix code of the differences takes fewer bits.    *)
THEOREM StreamStaysShortest == TripletSpec => []ShortestCode
<1>1. CodesPart => ShortestCode
  BY CodesInvJudges DEF CodesPart, ShortestCode, Codes!ShortestCode, CostInv
<1> QED BY <1>1, CodesPartInvariant, PTL
===============================================================================
