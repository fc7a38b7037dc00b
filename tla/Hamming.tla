------------------------------ MODULE Hamming ------------------------------
(***************************************************************************)
(* Assignment 19: hamming_code_gen.cpp turns a string of bits into a code  *)
(* word, hamming_code_check.cpp takes a word and flips the bit that the    *)
(* parities point at.  The two programs agree on the number of parity bits *)
(* only through the length of the word: the first derives it from the      *)
(* length of the data, the second from the length of the word.             *)
(*                                                                         *)
(* Positions count from 1, as i + 1 does in the source.                    *)
(***************************************************************************)
EXTENDS Naturals, Sequences, FiniteSets, FiniteSetsExt

CONSTANTS MaxData,   \* bound: the length of the data
          MaxFlips   \* bound: bits that change between the two programs

VARIABLES inp,     \* the data
          word,    \* the word, the generator's output and the checker's input
          flipped, \* the positions that changed on the way
          out,     \* the word the checker prints
          hpc      \* "gen", "way", "checked", "overrun" or "off"

varsHamming == <<inp, word, flipped, out, hpc>>

Bit == {0, 1}

\* pow(2,n), 1<<n
Pow2[n \in Nat] == IF n = 0 THEN 1 ELSE 2 * Pow2[n - 1]

\* while(1) { if(pow(2,r) >= len + r + 1) break; r++; }
find_length(len) == len + Min({r \in 0..len + 1 : Pow2[r] >= len + r + 1})

M_find_redun_len(len) == Min({r \in 0..len : Pow2[r + 1] >= len})
find_redun_len(len) == Min({r \in 0..len : Pow2[r] >= len})

\* ceil(log2(p)) = log2(p)
PowerOfTwo(p) == \E k \in 0..p : Pow2[k] = p

\* '*' at the powers of two, the data in order at the others; '*' is 0 here,
\* get_parity_bit counts neither.
generate_unprocessed_code(s, len) ==
  [p \in 1..len |->
     IF PowerOfTwo(p) THEN 0
     ELSE s[Cardinality({q \in 1..p : ~PowerOfTwo(q)})]]

find_positions(bit, len) == {p \in 1..len : (p \div bit) % 2 = 1}

get_parity_bit(positions, s) == Cardinality({p \in positions : s[p] = 1}) % 2

Fill(w, i) ==
  [w EXCEPT ![Pow2[i]] = get_parity_bit(find_positions(Pow2[i], Len(w)), w)]

\* while(i < redun_len) { ...; i++; }
process_string(s, redun) ==
  LET filled[i \in 0..redun] == IF i = 0 THEN s ELSE Fill(filled[i - 1], i - 1)
  IN  filled[redun]

\* The position after the bits below i, change_position of the loop.
correction(s, redun) ==
  LET Parity(i) == get_parity_bit(find_positions(Pow2[i], Len(s)), s)
      position[i \in 0..redun] ==
        IF i = 0 THEN 0
        ELSE position[i - 1] + IF Parity(i - 1) = 1 THEN Pow2[i - 1] ELSE 0
  IN  position[redun]
-----------------------------------------------------------------------------
InitHamming ==
  /\ inp \in UNION {[1..n -> Bit] : n \in 1..MaxData}
  /\ word = <<>> /\ flipped = {} /\ out = <<>> /\ hpc = "gen"

IdleHamming ==
  /\ inp = <<0>> /\ word = <<>> /\ flipped = {} /\ out = <<>> /\ hpc = "off"

gen_main ==
  /\ hpc = "gen" /\ hpc' = "way"
  /\ LET len == find_length(Len(inp))
     IN  word' = process_string(generate_unprocessed_code(inp, len), len - Len(inp))
  /\ UNCHANGED <<inp, flipped, out>>

\* The user types the word, with a few bits changed, into the checker.
Flip(p) ==
  /\ hpc = "way" /\ Cardinality(flipped) < MaxFlips /\ p \notin flipped
  /\ flipped' = flipped \cup {p}
  /\ word' = [word EXCEPT ![p] = 1 - @]
  /\ UNCHANGED <<inp, out, hpc>>

\* inp[position-1] is flipped without asking whether there is such a position.
check_main ==
  /\ hpc = "way"
  /\ LET position == correction(word, find_redun_len(Len(word)))
     IN  IF position > Len(word)
         THEN hpc' = "overrun" /\ UNCHANGED out
         ELSE /\ hpc' = "checked"
              /\ out' = IF position = 0 THEN word
                        ELSE [word EXCEPT ![position] = 1 - @]
  /\ UNCHANGED <<inp, word, flipped>>

NextHamming == gen_main \/ check_main \/ \E p \in DOMAIN word : Flip(p)
-----------------------------------------------------------------------------
\* The data of a word: what stands at the positions that are no powers of two.
DataAt(w) == {p \in DOMAIN w : ~PowerOfTwo(p)}
Nth(w, k) == CHOOSE p \in DataAt(w) : Cardinality({q \in DataAt(w) : q <= p}) = k
Payload(w) == [k \in 1..Cardinality(DataAt(w)) |-> w[Nth(w, k)]]

(***************************************************************************)
(* A word with at most one changed bit comes out of the checker with the   *)
(* generator's data, the changed bit being a parity bit or not, although   *)
(* the two programs compute the number of parity bits from different       *)
(* lengths.  Only two changed bits make hamming_code_check.cpp write       *)
(* inp[position-1] beyond the word, and never in a word that has all the   *)
(* Pow2[r] - 1 positions.                                                  *)
(***************************************************************************)
OneFlipIsRepaired ==
  /\ Cardinality(flipped) <= 1 =>
       hpc # "overrun" /\ (hpc = "checked" => Payload(out) = inp)
  /\ hpc = "overrun" => ~PowerOfTwo(Len(word) + 1)
=============================================================================
