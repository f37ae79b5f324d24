------------------------------ MODULE NoStdRand ------------------------------
(***************************************************************************)
(* Random numbers in a range and the shuffle (no_std_rand.rs), from a      *)
(* source of uniform words (RngCore::next_u32).                            *)
(***************************************************************************)
EXTENDS Integers, Sequences, SequencesExt

CONSTANT WordSize \* the number of words (2^32)

ASSUME WordAssumption == WordSize \in Nat \ {0}

Word == 0 .. WordSize - 1

(* Plausible bug: no word is rejected. *)
Threshold_Zero(n) == 0

(* n.wrapping_neg() % n *)
Threshold(n) == (WordSize - n) % n

(* The words random_range(n) does not reject, and those that give x *)
Accepted(n) == {word \in Word : word >= Threshold(n)}

WordsFor(n, x) == {word \in Accepted(n) : word % n = x}

Swapped(s, i, j) == [s EXCEPT ![i] = s[j], ![j] = s[i]]

(* Plausible bug: an element is swapped with any other. *)
Bound_Naive(s, position) == Len(s)

(* The shuffle fixes one position after the other, from the last to the second. *)
Bound(s, position) == position

(* Position of s is fixed with the element at some index a word gives. *)
Fix(s, position, word) ==
    LET index == 1 + (word % Bound(s, position))
    IN  [index |-> index, slice |-> Swapped(s, position, index)]
=============================================================================
