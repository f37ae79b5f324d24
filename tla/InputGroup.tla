------------------------------ MODULE InputGroup ------------------------------
(***************************************************************************)
(* What an InputGroup (input.rs) tells about its inputs: some of the       *)
(* predicates have three answers, and the inputs are asked in order until  *)
(* one decides. The caller relies on an answer while blocks arrive and     *)
(* until the missing median times become known.                            *)
(***************************************************************************)
EXTENDS CreatePsbt

(* Plausible bug: an input that cannot tell is passed over. *)
FirstOtherThan_KnownOnly(default, answers) ==
    LET others == {n \in DOMAIN answers : answers[n] \notin {default, "unknown"}}
    IN  IF others = {} THEN default ELSE answers[Min(others)]

(* The loop of the predicates: the first input that does not let it go on *)
FirstOtherThan(default, answers) ==
    LET others == {n \in DOMAIN answers : answers[n] # default}
    IN  IF others = {} THEN default ELSE answers[Min(others)]

GroupImmature(group, t) == \E n \in DOMAIN group : IsImmature(group[n], t)

GroupBlockTimelocked(group, t) == \E n \in DOMAIN group : IsBlockTimelocked(group[n], t)

GroupTimeTimelocked(group, t) ==
    FirstOtherThan("free", [n \in DOMAIN group |-> TimeTimelocked(group[n], t)])

GroupTimelocked(group, t, mtpKnown) ==
    FirstOtherThan("free", [n \in DOMAIN group |-> Timelocked(group[n], t, mtpKnown)])

(* Input::is_spendable with its third answer *)
Spendable(i, t, mtpKnown) ==
    IF IsImmature(i, t) THEN "unspendable"
    ELSE CASE Timelocked(i, t, mtpKnown) = "unknown" -> "unknown"
           [] Timelocked(i, t, mtpKnown) = "locked" -> "unspendable"
           [] OTHER -> "spendable"

GroupSpendable(group, t, mtpKnown) ==
    FirstOtherThan("spendable", [n \in DOMAIN group |-> Spendable(group[n], t, mtpKnown)])

MinConfirmations(group, t) == Min({Confirmations(group[n], t) : n \in DOMAIN group})

-----------------------------------------------------------------------------
(* Properties *)

(* The groups of the inputs at hand, in every order *)
Orders == {o \in [1..Cardinality(Selected) -> Selected] : \A n \in Selected : \E m \in DOMAIN o : o[m] = n}
Groups == {[n \in DOMAIN o |-> inputs[o[n]]] : o \in Orders}

(* The same group when the missing median times become known *)
Learnt(group) == [n \in DOMAIN group |-> [group[n] EXCEPT !.prev_mtp_known = TRUE]]

(***************************************************************************)
(* Some(true) of InputGroup::is_spendable is kept: at every later tip, in  *)
(* every other order of the inputs, and when missing median times become   *)
(* known, the group is spendable; and Some(false) at a tip never turns     *)
(* into Some(true) at that tip by learning more or asking in another       *)
(* order.                                                                  *)
(***************************************************************************)
SpendableGroupStays ==
    [][stage = "candidates" /\ UNCHANGED inputs =>
          \A group \in Groups, other \in Groups, mtpKnown \in BOOLEAN :
             /\ GroupSpendable(group, tip, mtpKnown) = "spendable"
                    => /\ GroupSpendable(Learnt(other), tip, TRUE) = "spendable"
                       /\ GroupSpendable(other, tip', mtpKnown) = "spendable"
             /\ GroupSpendable(group, tip, mtpKnown) = "unspendable"
                    => GroupSpendable(Learnt(other), tip, TRUE) = "unspendable"]_vars

(***************************************************************************)
(* The predicates of a group, each with its own walk over the inputs and   *)
(* its own arithmetic, do not contradict each other: a group is spendable  *)
(* only when it is mature and not timelocked, a group that is not          *)
(* timelocked has neither kind of lock, a definite "timelocked" has one of *)
(* them, and enough confirmations for the deepest relative lock or for     *)
(* COINBASE_MATURITY lift those locks.                                     *)
(***************************************************************************)
GroupPredicatesAgree ==
    stage = "candidates" => \A group \in Groups, mtpKnown \in BOOLEAN :
        LET lock == GroupTimelocked(group, tip, mtpKnown)
            depth == MinConfirmations(group, tip)
        IN  /\ GroupSpendable(group, tip, mtpKnown) = "spendable"
                   <=> ~GroupImmature(group, tip) /\ lock = "free"
            /\ lock = "free" => /\ ~GroupBlockTimelocked(group, tip)
                                /\ mtpKnown => GroupTimeTimelocked(group, tip) = "free"
            /\ lock = "locked" => \/ GroupBlockTimelocked(group, tip)
                                  \/ GroupTimeTimelocked(group, tip) # "free"
            /\ depth >= Maturity => ~GroupImmature(group, tip)
            /\ GroupBlockTimelocked(group, tip) => \E n \in DOMAIN group :
                   \/ HasUnit(group[n].absolute, "blocks")
                   \/ /\ HasUnit(RelativeTimelock(group[n]), "blocks")
                      /\ RelativeTimelock(group[n]).value > depth \/ depth = 0
=============================================================================
