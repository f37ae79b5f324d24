----------------------------- MODULE Arrangement -----------------------------
(***************************************************************************)
(* Sequences made from others by choosing and ordering their indices, as   *)
(* iterator adapters and stable sorts of the standard library do.          *)
(***************************************************************************)
EXTENDS Integers, Sequences, FiniteSets

(* The elements of s at the indices ranked 1, 2, ... *)
Arrange(s, rank) ==
    [n \in 1 .. Cardinality(DOMAIN rank) |-> s[CHOOSE k \in DOMAIN rank : rank[k] = n]]

(* The elements of s at the indices in at, in the order of s (Iterator::filter) *)
Subsequence(s, at) == Arrange(s, [k \in at |-> Cardinality({j \in at : j <= k})])

(* The first element of each key, and none of a key in taken *)
FirstBy(key, s, taken) ==
    Subsequence(s, {k \in DOMAIN s : /\ key[s[k]] \notin taken
                                     /\ \A j \in 1 .. k - 1 : key[s[j]] # key[s[k]]})

(* A stable sort by numeric keys (slice::sort_by) *)
SortedBy(s, key) ==
    LET Before(j, k) == \/ key[s[j]] < key[s[k]]
                        \/ key[s[j]] = key[s[k]] /\ j <= k
    IN  Arrange(s, [k \in DOMAIN s |-> Cardinality({j \in DOMAIN s : Before(j, k)})])
=============================================================================
