------------------------------ MODULE Selector ------------------------------
(***************************************************************************)
(* From candidates to a Selection (selector.rs): Selector::new, any        *)
(* selection algorithm, try_finalize.  The arithmetic of bdk_coin_select   *)
(* is external: a fee that meets the target feerate and, for a             *)
(* replacement, the fees it replaces plus the incremental relay fee.       *)
(***************************************************************************)
EXTENDS InputCandidates

CONSTANTS Requests,    \* the SelectorParams a caller may pass
          LockUnit,    \* unit of an input's absolute timelock, or NoUnit
          NoUnit,
          NoReplace,
          RateUnit,    \* a feerate is a fee for this much weight (1000)
          BaseWeight,  \* weight of a transaction without inputs and outputs
          ChangeWeight \* weight of a change output

RbfParams == [original_txs   : Seq([fee : Nat, weight : Nat \ {0}]),
              descendant_fee : Nat,
              incremental    : Nat] \* incremental_relay_feerate

(***************************************************************************)
(* value and weight: sums over target_outputs, recipients: their number;   *)
(* min_change: dust threshold and minimum change; change_error: what       *)
(* satisfaction_weight says of the change script, when it cannot be        *)
(* satisfied with the assets given or not at all; longterm: whether a      *)
(* long-term feerate may speak against change.                             *)
(***************************************************************************)
SelectorParams == [value : Nat, weight : Nat, recipients : Nat,
                   feerate : Nat, min_change : Nat,
                   replace : RbfParams \cup {NoReplace},
                   change_error : {"none", "InsufficientAssets", "Miniscript"},
                   longterm : BOOLEAN]

ASSUME SelectorAssumption ==
    /\ BaseWeight \in Nat \ {0} /\ ChangeWeight \in Nat /\ RateUnit \in Nat \ {0}
    /\ DOMAIN LockUnit = InputId
    /\ Requests \subseteq SelectorParams
    /\ NoReplace \notin RbfParams

VARIABLES stage,     \* "candidates", "selecting", "selected", "failed"
          request,   \* the SelectorParams of Selector::new
          chosen,    \* indices selected in the inner CoinSelector
          selection, \* the Selection: inputs, outputs (the recipients by number,
                     \* 0 for the change) and the value of the change, 0 for none
          error

selecting == <<stage, request, chosen, selection, error>>
vars == <<candidates, selecting>>

NoSelection == [inputs |-> <<>>, outputs |-> <<>>, change |-> 0]

Init ==
    /\ NewCandidates
    /\ stage = "candidates"
    /\ request \in Requests
    /\ chosen = {}
    /\ selection = NoSelection
    /\ error = "none"

-----------------------------------------------------------------------------
(* SelectorParams::to_cs_target *)

MaxOf(S) == IF S = {} THEN 0 ELSE Max(S)

(* OriginalTxStats::feerate truncates. *)
Feerate(stats) == (stats.fee * RateUnit) \div stats.weight

MaxFeerate(r) ==
    IF r.replace = NoReplace THEN 0
    ELSE MaxOf({Feerate(stats) : stats \in ToSet(r.replace.original_txs)})

ReplacedFee(r) ==
    SumFunction([n \in DOMAIN r.replace.original_txs |-> r.replace.original_txs[n].fee])
        + r.replace.descendant_fee

TargetRate(r) == MaxOf({r.feerate, MaxFeerate(r)})

(* The fee of weight w at a feerate, rounded up *)
FeeAt(rate, w) == (rate * w + RateUnit - 1) \div RateUnit

(* The fee the coin selector asks of a transaction of weight w *)
RequiredFee(r, w) ==
    MaxOf({FeeAt(TargetRate(r), w)} \cup
          (IF r.replace = NoReplace THEN {}
           ELSE {ReplacedFee(r) + FeeAt(r.replace.incremental, w)}))

ChosenValue == SumFunctionOnSet([k \in DOMAIN cs |-> cs[k].value], chosen)

(***************************************************************************)
(* With a segwit candidate there is a marker and a flag, and each          *)
(* candidate that is not segwit has one empty witness.                     *)
(***************************************************************************)
ChosenWeight ==
    LET legacy == {k \in chosen : ~cs[k].is_segwit}
    IN  BaseWeight + request.weight
            + SumFunctionOnSet([k \in DOMAIN cs |-> cs[k].weight], chosen)
            + IF legacy = chosen THEN 0 ELSE 2 + Cardinality(legacy)

IsTargetMet == ChosenValue >= request.value + RequiredFee(request, ChosenWeight)

(* Plausible bug: the weight of the change output is not paid for. *)
Drain_FreeChange ==
    LET left == ChosenValue - request.value - RequiredFee(request, ChosenWeight)
    IN  IF left > request.min_change THEN left ELSE 0

(* Plausible bug: change without a threshold. *)
Drain_NoThreshold ==
    ChosenValue - request.value - RequiredFee(request, ChosenWeight + ChangeWeight)

(* drain: the change, when it is worth more than the minimum *)
Drain ==
    LET left == ChosenValue - request.value
                    - RequiredFee(request, ChosenWeight + ChangeWeight)
    IN  IF left > request.min_change THEN left ELSE 0

-----------------------------------------------------------------------------

TotalValue == SumOver(InputValue, AllInputs(must, can))

NewError ==
    IF request.change_error # "none" THEN request.change_error
    ELSE IF request.value > TotalValue THEN "CannotMeetTarget"
    ELSE IF Cardinality({LockUnit[i] : i \in ToSet(AllInputs(must, can))} \ {NoUnit}) > 1
    THEN "LockTypeMismatch"
    ELSE "none"

(* Selector::new: the must_select group, at index 1, is selected first. *)
NewSelector ==
    /\ stage = "candidates"
    /\ error' = NewError
    /\ stage' = IF NewError = "none" THEN "selecting" ELSE "failed"
    /\ chosen' = IF NewError = "none" /\ must # <<>> THEN {1} ELSE {}
    /\ UNCHANGED <<candidates, request, selection>>

(* One choice of an algorithm (select_all, select_until_target_met, bnb, ...) *)
Select(k) ==
    /\ stage = "selecting"
    /\ k \notin chosen
    /\ chosen' = chosen \cup {k}
    /\ UNCHANGED <<candidates, stage, request, selection, error>>

(* try_finalize: apply_selection picks groups by the index of cs. *)
TryFinalize ==
    /\ stage = "selecting"
    /\ IF IsTargetMet
       THEN /\ \E change \in {Drain} \cup (IF request.longterm THEN {0} ELSE {}) :
                  selection' = [inputs |-> FlattenSeq(Subsequence(GroupsOf(must, can), chosen)),
                                outputs |-> [n \in 1 .. request.recipients |-> n]
                                                \o (IF change > 0 THEN <<0>> ELSE <<>>),
                                change |-> change]
            /\ stage' = "selected"
            /\ error' = "none"
       ELSE /\ stage' = "failed"
            /\ error' = "CannotMeetTarget"
            /\ UNCHANGED selection
    /\ UNCHANGED <<candidates, request, chosen>>

Next ==
    \/ stage = "candidates" /\ NextCandidates /\ UNCHANGED selecting
    \/ NewSelector
    \/ \E k \in DOMAIN cs : Select(k)
    \/ TryFinalize

Spec == Init /\ [][Next]_vars

-----------------------------------------------------------------------------
(* Properties *)

Selected == stage = "selected"

(* The variables have their types. *)
TypeOK ==
    /\ must \in Seq(InputId)
    /\ \A k \in DOMAIN can : can[k] \in Seq(InputId) \ {<<>>}
    /\ stage \in {"candidates", "selecting", "selected", "failed"}
    /\ chosen \subseteq DOMAIN cs
    /\ selection.inputs \in Seq(InputId) /\ selection.change \in Nat
    /\ stage = "failed" <=> error # "none"

PaidFee == SumOver(InputValue, selection.inputs) - request.value - selection.change

(* The weight of the transaction: one empty witness for each legacy input *)
LegacyInputs == ToSet(selection.inputs) \ Segwit

ActualWeight ==
    BaseWeight + request.weight + SumOver(InputWeight, selection.inputs)
        + (IF ToSet(selection.inputs) = LegacyInputs THEN 0 ELSE 2 + Cardinality(LegacyInputs))
        + (IF selection.change > 0 THEN ChangeWeight ELSE 0)

ChosenGroups == {GroupsOf(must, can)[k] : k \in chosen}

(***************************************************************************)
(* The transaction of a Selection pays for itself: from the values and the *)
(* weights of the inputs it really contains, its fee meets the target      *)
(* feerate and, for a replacement, exceeds what it replaces (rules 3, 4);  *)
(* change is never dust.  Within a group of several inputs the crate does  *)
(* not count the empty witnesses of legacy ones; it counts all else.       *)
(***************************************************************************)
SelectionPaysItsFee ==
    Selected =>
        LET uncounted == IF \A group \in ChosenGroups : Len(group) = 1
                         THEN 0 ELSE Cardinality(LegacyInputs)
        IN  /\ PaidFee >= RequiredFee(request, ActualWeight - uncounted)
            /\ selection.change > 0 => selection.change > request.min_change

(***************************************************************************)
(* A Selection has every must_select input, no outpoint twice, nothing a   *)
(* filter rejected except must_select inputs, and of the inputs that the   *)
(* last regroup put together either all or none.                           *)
(***************************************************************************)
SelectionRespectsGroups ==
    Selected =>
        LET ins == ToSet(selection.inputs)
        IN  /\ ToSet(must) \subseteq ins
            /\ Cardinality({PrevOutpoint[i] : i \in ins}) = Len(selection.inputs)
            /\ ins \subseteq kept \cup ToSet(must)
            /\ \A i, j \in ToSet(AllInputs(must, can)) :
                  policy[i] = policy[j] => (i \in ins <=> j \in ins)
=============================================================================
