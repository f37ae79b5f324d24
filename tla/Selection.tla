------------------------------ MODULE Selection ------------------------------
(***************************************************************************)
(* A Selection after coin selection (selection.rs): its inputs and outputs *)
(* may be sorted and shuffled before the transaction is made.              *)
(***************************************************************************)
EXTENDS Selector, NoStdRand

(***************************************************************************)
(* Outpoints are compared by number.  A transaction has fewer inputs and   *)
(* outputs than there are words.                                           *)
(***************************************************************************)
ASSUME SelectionAssumption ==
    /\ \A i \in InputId : PrevOutpoint[i] \in Int
    /\ IsFiniteSet(InputId) /\ Cardinality(InputId) <= WordSize
    /\ \A r \in Requests : r.recipients < WordSize

VARIABLES slice,    \* what the last shuffle shuffles: "inputs", "outputs" or "none"
          original, \* history: the slice before the shuffle
          indices,  \* history: the indices the shuffle has drawn
          position  \* the position to fix next; at 1 or 0 there is no shuffle

shuffling == <<slice, original, indices, position>>
selectionVars == <<vars, shuffling>>

SelectionInit ==
    /\ Init
    /\ slice = "none"
    /\ original = <<>>
    /\ indices = <<>>
    /\ position = 0

(* No shuffle is in progress. *)
Idle == position <= 1

(* Of a shuffle nothing is drawn yet; that of an empty slice is over. *)
Begin(what, s) ==
    /\ slice' = what
    /\ original' = s
    /\ indices' = <<>>
    /\ position' = Len(s)

(* sort_inputs_by and sort_outputs_by: here the outpoint and the number of the output *)
SortBy(sorted) ==
    /\ stage = "selected" /\ Idle
    /\ selection' = sorted
    /\ Begin("none", <<>>)
    /\ UNCHANGED <<candidates, stage, request, chosen, error>>

SortInputs == SortBy([selection EXCEPT !.inputs = SortedBy(@, PrevOutpoint)])
SortOutputs == SortBy([selection EXCEPT !.outputs = SortedBy(@, [o \in 0 .. request.recipients |-> o])])

(* shuffle_inputs, shuffle_outputs *)
Shuffle(what) ==
    /\ stage = "selected" /\ Idle
    /\ Begin(what, selection[what])
    /\ UNCHANGED vars

(* One turn of fisher_yates_shuffle; rejected words change nothing. *)
ShuffleStep(word) ==
    LET fixed == Fix(selection[slice], position, word)
    IN  /\ ~Idle
        /\ word \in Accepted(Bound(selection[slice], position))
        /\ selection' = [selection EXCEPT ![slice] = fixed.slice]
        /\ indices' = Append(indices, fixed.index)
        /\ position' = position - 1
        /\ UNCHANGED <<candidates, stage, request, chosen, error, slice, original>>

SelectionNext ==
    \/ Next /\ UNCHANGED shuffling
    \/ SortInputs
    \/ SortOutputs
    \/ \E what \in {"inputs", "outputs"} : Shuffle(what)
    \/ \E word \in Word : ShuffleStep(word)

SelectionSpec == SelectionInit /\ [][SelectionNext]_selectionVars

-----------------------------------------------------------------------------
(* Properties *)

(***************************************************************************)
(* At every step of a shuffle each position the element may go to is given *)
(* by equally many words, and no more than half of the words are rejected, *)
(* so that the loop of random_range ends (rejection sampling).             *)
(***************************************************************************)
DrawsAreUniform ==
    position > 1 =>
        LET chances == {Cardinality(WordsFor(position, x)) : x \in 0 .. position - 1}
        IN  /\ Cardinality(chances) = 1
            /\ 2 * Cardinality(Accepted(position)) >= WordSize

(***************************************************************************)
(* From a slice and what the shuffle has made of it after some steps, the  *)
(* indices these steps have used.                                          *)
(***************************************************************************)
IndicesUsed(from, to, made) ==
    LET Index(s, k) == CHOOSE i \in DOMAIN s : s[i] = to[Len(from) + 1 - k]
        before[k \in 1 .. made] == \* the slice before the k-th draw
            IF k = 1 THEN from
            ELSE Swapped(before[k - 1], Len(from) + 2 - k, Index(before[k - 1], k - 1))
    IN  [k \in 1 .. made |-> Index(before[k], k)]

(***************************************************************************)
(* The order a shuffle produces tells the indices that were drawn: no two  *)
(* ways through the shuffle give the same order.  There are as many ways   *)
(* as orders, so with uniform draws every order is equally likely, and     *)
(* none betrays which output is the change (fisher_yates_shuffle).         *)
(***************************************************************************)
OrderTellsDraws ==
    slice # "none" => indices = IndicesUsed(original, selection[slice], Len(indices))
=============================================================================
