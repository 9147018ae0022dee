---------------------------- MODULE TripletEncoder ----------------------------
(***************************************************************************)
(* encode_triplet and encode_native of src/triplets.cpp: every chunk is    *)
(* compressed, decompressed and measured, up to six times with other       *)
(* settings, by parallel_map (its promise, MapOutcome, is used here); then *)
(* the chunks are joined under one set of settings, those of chunk 0.      *)
(* The codec is nondeterministic: it returns any of Errors, or throws.     *)
(***************************************************************************)
EXTENDS Integers, Sequences

CONSTANTS
  Chunks,     (* number of chunks; 0: argument `chunk` is 0, one stream    *)
  Requested,  (* argument `bound`, in units of which 100 make 1 %          *)
  Errors,     (* the largest L2 errors a codec may leave                   *)
  Infinite,   (* the error of a value that is not finite                   *)
  None        (* no result, no exception, no metadata, nothing measured    *)

ASSUME TripletEncoderAssumption ==
  /\ Chunks \in Nat
  /\ Requested \in Nat \ {0}
  /\ Infinite \in Nat /\ Infinite > Requested
  /\ Errors \subseteq 0..Infinite
  /\ None \notin Int

Jobs == IF Chunks = 0 THEN 1 ELSE Chunks
Index == 0..(Jobs - 1)
Settings == [quantizer : {"to", "cube"}, bound : 1..Requested]

(* for (; attempt < 6; ++attempt)                                          *)
MaxAttempts == 6

VARIABLES
  codec, position,                   (* arguments of encode_triplet        *)
  value, threw, outcome, reported,   (* the parallel_map over the chunks   *)
  options,    (* options[i]: XnYZip::Options of chunk i                    *)
  attempts,   (* attempts[i]: the settings chunk i was compressed with so  *)
              (* far, and the errors measured; its length is `attempt`     *)
  merged,     (* the loop variable `index` of the join                     *)
  stored,     (* result.metadata                                           *)
  verdict     (* how the join ended, or "joining"                          *)

vars == <<codec, position, value, threw, outcome, reported, options, attempts,
          merged, stored, verdict>>
mapVars == <<value, threw, outcome, reported>>
joinVars == <<merged, stored, verdict>>

Map == INSTANCE MapOutcome

Attempt == [settings : Settings, error : Errors \cup {None}]

TypeOK ==
  /\ codec \in {"lcp", "xnyzip"}
  /\ position \in BOOLEAN
  /\ value \in [Index -> Index \cup {None}]
  /\ threw \in SUBSET Index
  /\ outcome \in {"running", "value", "error", "spawn_failed"}
  /\ options \in [Index -> Settings]
  /\ attempts \in [Index -> Seq(Attempt)]
  /\ \A i \in Index : Len(attempts[i]) <= MaxAttempts
  /\ merged \in 0..Jobs
  /\ stored \in Settings \cup {None}
  /\ verdict \in {"joining", "stored", "inconsistent"}

(* The lambda of the chunks passes position = false.                       *)
Init ==
  /\ codec \in {"lcp", "xnyzip"}
  /\ position \in IF Chunks = 0 THEN BOOLEAN ELSE {FALSE}
  /\ Map!Init
  /\ options = [i \in Index |-> [quantizer |-> "to", bound |-> Requested]]
  /\ attempts = [i \in Index |-> <<>>]
  /\ merged = 0
  /\ stored = None
  /\ verdict = "joining"

-------------------------------------------------------------------------------
(* encode_native                                                           *)

Measured(i, e) ==
  /\ codec = "xnyzip"
  /\ outcome = "running" /\ Map!Pending(i)
  /\ attempts' =
       [attempts EXCEPT ![i] = Append(@, [settings |-> options[i], error |-> e])]
  /\ UNCHANGED <<codec, position, joinVars>>

Fits(e) == e # Infinite /\ e <= Requested

TryCube(i) == position /\ options[i].quantizer = "to"

(* std::max(.01 * requested, 2 * (maximum - requested))                    *)
Margin(e) ==
  LET percent == Requested \div 100
      excess == 2 * (e - Requested)
  IN  IF percent < excess THEN excess ELSE percent

(* The mistakes: a bound derived from `requested`, a bound that is not     *)
(* tested, a change of quantizer that is repeated and not counted, five    *)
(* attempts instead of six.                                                *)
NextBoundFromRequested(i, e) == Requested - Margin(e)
ShrinkableUntested(i, e) == e # Infinite
RetryTogglingQuantizer(i) ==
  \E e \in Errors :
    /\ codec = "xnyzip" /\ outcome = "running" /\ Map!Pending(i)
    /\ ~Fits(e) /\ position
    /\ options' = [options EXCEPT ![i].quantizer = IF @ = "to" THEN "cube" ELSE "to"]
    /\ UNCHANGED <<codec, position, attempts, mapVars, joinVars>>
LastAttemptEarly(i) == Len(attempts[i]) + 2 >= MaxAttempts

(* double next = options.l2_bound - margin                                 *)
NextBound(i, e) == options[i].bound - Margin(e)

Shrinkable(i, e) == e # Infinite /\ NextBound(i, e) > 0

LastAttempt(i) == Len(attempts[i]) + 1 = MaxAttempts

Accept(i) ==
  \E e \in Errors :
    /\ Fits(e)
    /\ Measured(i, e)
    /\ Map!Complete(i)
    /\ UNCHANGED options

Retry(i) ==
  \E e \in Errors :
    /\ ~Fits(e) /\ ~LastAttempt(i)
    /\ Measured(i, e)
    /\ \/ /\ TryCube(i)
          /\ options' = [options EXCEPT ![i].quantizer = "cube"]
       \/ /\ ~TryCube(i) /\ Shrinkable(i, e)
          /\ options' = [options EXCEPT ![i].bound = NextBound(i, e)]
    /\ UNCHANGED mapVars

(* "XnYZip failed L2 validation after codec retries"                       *)
Refuse(i) ==
  \E e \in Errors :
    /\ ~Fits(e)
    /\ LastAttempt(i) \/ (~TryCube(i) /\ ~Shrinkable(i, e))
    /\ Measured(i, e)
    /\ Map!Fail(i)
    /\ UNCHANGED options

(* The codec throws, or returns another number of values or an index that  *)
(* is out of range.                                                        *)
NativeThrows(i) ==
  /\ Measured(i, None)
  /\ Map!Fail(i)
  /\ UNCHANGED options

(* LCP is told the bound and trusted.                                      *)
EncodeLcp(i) ==
  /\ codec = "lcp"
  /\ Map!Complete(i) \/ Map!Fail(i)
  /\ UNCHANGED <<codec, position, options, attempts, joinVars>>

EncodeNative(i) ==
  Accept(i) \/ Retry(i) \/ Refuse(i) \/ NativeThrows(i) \/ EncodeLcp(i)

-------------------------------------------------------------------------------
(* encode_triplet                                                          *)

(* parallel_map answers; it waits for every call that was begun.           *)
Answer ==
  /\ \A i \in Index : Map!Pending(i) => attempts[i] = <<>>
  /\ Map!ReturnAll \/ Map!Rethrow \/ (Jobs > 1 /\ Map!GiveUp)
  /\ UNCHANGED <<codec, position, options, attempts, joinVars>>

Joining == outcome = "value" /\ verdict = "joining"

(* The mistake: a chunk is compared with the chunk before it, and only its *)
(* quantizer is.                                                           *)
AgreesOnQuantizer(i) ==
  codec = "xnyzip" => options[i].quantizer = options[i - 1].quantizer

Agrees(i) == codec = "xnyzip" => options[i] = stored

Join ==
  /\ Joining /\ merged < Jobs
  /\ merged > 0 => Agrees(merged)
  /\ stored' = IF merged = 0 THEN options[0] ELSE stored
  /\ merged' = merged + 1
  /\ UNCHANGED <<codec, position, mapVars, options, attempts, verdict>>

(* "XnYZip chunks require inconsistent retry settings"                     *)
JoinThrows ==
  /\ Joining /\ merged \in 1..(Jobs - 1)
  /\ ~Agrees(merged)
  /\ verdict' = "inconsistent"
  /\ UNCHANGED <<codec, position, mapVars, options, attempts, merged, stored>>

Store ==
  /\ Joining /\ merged = Jobs
  /\ verdict' = "stored"
  /\ UNCHANGED <<codec, position, mapVars, options, attempts, merged, stored>>

Ended == outcome \in {"error", "spawn_failed"} \/ verdict # "joining"

Finished == Ended /\ UNCHANGED vars

Next ==
  \/ \E i \in Index : EncodeNative(i)
  \/ Answer \/ Join \/ JoinThrows \/ Store
  \/ Finished

Spec == Init /\ [][Next]_vars

-------------------------------------------------------------------------------
(* Properties.                                                             *)

(* triplets.cpp:181 keeps one l2_error_bound and one quantizer for all     *)
(* chunks, the decoder is given nothing else: they are those with which    *)
(* every chunk passed its validation, and none left more than was asked.   *)
StoredSettingsFit ==
  verdict = "stored" /\ codec = "xnyzip" =>
    \A i \in Index :
      /\ attempts[i] # <<>>
      /\ LET last == attempts[i][Len(attempts[i])] IN
           last.settings = stored /\ last.error <= Requested

(* triplets.cpp:117: an attempt after one that fitted, or with settings    *)
(* that failed before, would waste a compression and lose the fit.         *)
AttemptsDiffer ==
  \A i \in Index : \A a, b \in DOMAIN attempts[i] :
    a < b => /\ attempts[i][a].settings # attempts[i][b].settings
             /\ ~(attempts[i][a].error # None /\ Fits(attempts[i][a].error))

(* triplets.cpp:133: data is refused only when all six attempts failed, or *)
(* the next bound would not be positive, or the codec itself failed; for   *)
(* positions never before the cube quantizer was tried.                    *)
RefusalEarned ==
  codec = "xnyzip" => \A i \in threw :
    LET n == Len(attempts[i])
        last == attempts[i][n]
    IN  /\ n > 0
        /\ last.error # None =>
             \/ n = MaxAttempts
             \/ /\ last.error = Infinite
                   \/ last.settings.bound <= 2 * (last.error - Requested)
                   \/ last.settings.bound <= Requested \div 100
                /\ position => last.settings.quantizer = "cube"

(* triplets.cpp:99-133: the retries of a chunk never compress it twice     *)
(* with the same settings, and end in a refusal only when nothing is left  *)
(* to try.                                                                 *)
RetriesEarned == AttemptsDiffer /\ RefusalEarned
===============================================================================
