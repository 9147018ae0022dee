---------------------------- MODULE MCTripletCodes ----------------------------
(* TLC instance of how the streams of a triplet come about: the retries of *)
(* TripletEncoder for one stream, and the Huffman code of the block IDs of *)
(* LCP.  They share no state: `part` says which of them a behaviour is     *)
(* about, the variables of the other are idle.                             *)
(*                                                                         *)
(* One stream of positions or velocities, whose codec may leave any of six *)
(* errors at each attempt; five values of two bits, whose codes have one   *)
(* to three bits.                                                          *)
EXTENDS MCTripletEncoder

CONSTANTS MaxValues, Modulus, ByteBits

VARIABLES
  part,
  values, heap, table, bits, bitCount, damage, pending, following, overflow, codes,
  at, prefix, out, stage

codeVars == <<values, heap, table, bits, bitCount, damage, pending, following, overflow,
              codes, at, prefix, out, stage>>
tripletVars == <<part, vars, codeVars>>

Codes == INSTANCE Huffman

ASSUME CodesAssumption == Codes!HuffmanAssumption

EncoderIdle ==
  /\ codec = None /\ position = None
  /\ value = None /\ threw = {} /\ outcome = None /\ reported = None
  /\ options = None /\ attempts = [i \in Index |-> <<>>]
  /\ merged = None /\ stored = None /\ verdict = None
CodesIdle ==
  /\ values = None /\ heap = None /\ table = None /\ bits = None /\ bitCount = None
  /\ damage = None /\ pending = None /\ following = None /\ overflow = None
  /\ codes = None /\ at = None /\ prefix = None /\ out = None /\ stage = None

TripletInit ==
  \/ part = "encoder" /\ Init /\ CodesIdle
  \/ part = "codes" /\ Codes!Init /\ EncoderIdle

TripletNext ==
  \/ part = "encoder" /\ Next /\ UNCHANGED <<part, codeVars>>
  \/ part = "codes" /\ Codes!Next /\ UNCHANGED <<part, vars>>

TripletSpec == TripletInit /\ [][TripletNext]_tripletVars

(* ---- what is checked -------------------------------------------------- *)

(* RetriesEarned of TripletEncoder is checked as it is: an idle encoder    *)
(* has made no attempts.                                                   *)

(* Huffman: huffman.cpp:72, 96, the shortest stream, and it is read back.  *)
ShortestCode == part = "codes" => Codes!ShortestCode

(* Huffman: huffman.cpp:32-41, 181-188, tables and bits are judged for     *)
(* what they say.                                                          *)
DamageJudged == part = "codes" => Codes!DamageJudged
===============================================================================
