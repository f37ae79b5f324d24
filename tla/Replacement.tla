----------------------------- MODULE Replacement -----------------------------
(***************************************************************************)
(* Replacing transactions, end to end: a fresh view, an extraction, the    *)
(* inputs that must be selected, the filter of rule 2, coin selection      *)
(* against the fees replaced (rbf_candidates in examples/common.rs and the *)
(* cancelling in examples/synopsis.rs).  CanonicalUnspents and Selector    *)
(* are the crate; this module is the caller that connects them.            *)
(***************************************************************************)
EXTENDS CanonicalUnspents, Selector

CONSTANTS Mine,       \* the outpoints of the wallet's index, those it can plan
          TxWeight,   \* TxWeight[t]: Transaction::weight
          Incremental \* incremental_relay_feerate

(***************************************************************************)
(* An input of the candidates is named by its outpoint and has the value   *)
(* try_get_unspent gives it; the wallet is a segwit one.                   *)
(***************************************************************************)
ASSUME ReplacementAssumption ==
    /\ InputId = CreatedBy(Txid)
    /\ PrevOutpoint = [op \in InputId |-> op]
    /\ InputValue = [op \in InputId |-> ValueOf(op)]
    /\ Segwit = InputId
    /\ Mine \subseteq InputId
    /\ TxWeight \in [Txid -> Nat \ {0}]
    /\ Incremental \in Nat
    /\ \A r \in Requests : r.replace = NoReplace

replacementVars == <<viewVars, vars>>

(* rbf_candidates has not got to the candidates. *)
ReplacementInit ==
    /\ ViewInit
    /\ must = <<>> /\ can = <<>> /\ cs = <<>> /\ contains = {}
    /\ policy = NoPolicy /\ kept = InputId /\ steps = 0
    /\ stage = "view"
    /\ request \in Requests
    /\ chosen = {}
    /\ selection = NoSelection
    /\ error = "none"

-----------------------------------------------------------------------------

(* extract_replacements, once: an error ends rbf_candidates. *)
Extract(R) ==
    /\ stage = "view" /\ ret = "none"
    /\ ExtractReplacements(R)
    /\ UNCHANGED vars

PickInputs ==
    /\ stage = "view" /\ ret = "Ok" /\ rbf # NoRbf /\ picked = {}
    /\ MustSelectLargestInputs
    /\ UNCHANGED vars

InputOf(op) == [prev_outpoint |-> op, value |-> ValueOf(op),
                status |-> StatusOf(op.txid), is_coinbase |-> IsCoinbase(op.txid)]

(* original_tx_stats *)
OriginalStats ==
    LET order == SetToSeq(rbf.txs)
    IN  [n \in DOMAIN order |-> [weight |-> TxWeight[order[n]], fee |-> OriginalFee(order[n])]]

(* Plausible bug: the fees of evicted descendants are not passed on. *)
SelectorRbfParams_OriginalsOnly ==
    [original_txs |-> OriginalStats, descendant_fee |-> 0, incremental |-> Incremental]

SelectorRbfParams ==
    [original_txs   |-> OriginalStats,
     descendant_fee |-> rbf.descendant_fee,
     incremental    |-> Incremental]

(* Plausible bug: the inputs of the originals are only offered. *)
Required_None == {}

(* What must be selected; rbf_candidates fails when the wallet cannot plan it. *)
Required == picked

(***************************************************************************)
(* InputCandidates::new with what try_get_unspent returns of the required  *)
(* outpoints and of the wallet's index; the caller passes selector_rbf_params *)
(* on to coin selection.                                                   *)
(***************************************************************************)
Offer ==
    LET new == NewFrom([must |-> SetToSeq(Required),
                        can |-> SetToSeq({op \in Mine : IsUnspent(op)})])
    IN  /\ stage = "view" /\ picked # {}
        /\ \A op \in picked : op \in Mine /\ IsUnspent(op)
        /\ stage' = "offered"
        /\ must' = new.must
        /\ can' = new.can
        /\ cs' = BuildCs(must', can')
        /\ contains' = new.contains
        /\ request' = [request EXCEPT !.replace = SelectorRbfParams]
        /\ UNCHANGED <<viewVars, policy, kept, steps, chosen, selection, error>>

(* filter(candidate_filter) *)
FilterCandidates ==
    /\ stage = "offered"
    /\ FilterInputs({op \in InputId : CandidateFilter(InputOf(op))})
    /\ stage' = "candidates"
    /\ UNCHANGED <<viewVars, request, chosen, selection, error>>

ReplacementNext ==
    \/ \E R \in TxidSets : Extract(R)
    \/ PickInputs
    \/ Offer
    \/ FilterCandidates
    \/ NewSelector /\ UNCHANGED viewVars
    \/ \E k \in DOMAIN cs : Select(k) /\ UNCHANGED viewVars
    \/ TryFinalize /\ UNCHANGED viewVars

ReplacementSpec == ReplacementInit /\ [][ReplacementNext]_replacementVars

-----------------------------------------------------------------------------
(* Properties *)

Spent == ToSet(selection.inputs)

(* The view before the extraction, and what of it conflicts with the replacement *)
Before == txs \cup evicted
Conflicts == {t \in Before : Inputs[t] \cap Spent # {}}

(***************************************************************************)
(* The replacement evicts exactly the transactions whose fees it was told  *)
(* to beat: it conflicts with every original, and its conflicts with their *)
(* descendants are what extract_replacements took out of the view, nothing *)
(* more (synopsis.rs: one prevout of each original must be picked).        *)
(***************************************************************************)
ReplacesWhatItEvicts ==
    Selected => /\ rbf.txs \subseteq Conflicts
                /\ Conflicts \cup Descendants(Before, Conflicts) = evicted

(***************************************************************************)
(* Rule 2: every output the replacement spends is confirmed or was spent   *)
(* by an original already.                                                 *)
(***************************************************************************)
NoNewUnconfirmedInput ==
    Selected => \A op \in Spent : op.txid \in DOMAIN statuses \/ op \in SpentBy(rbf.txs)

TrueFee(t) == SumValues(Inputs[t]) - SumValues(OutPointsOf(t))

(***************************************************************************)
(* Rules 3 and 4: the replacement pays the fees of everything it evicts,   *)
(* recomputed from the ledger, and the incremental relay fee of its own    *)
(* weight on top (RbfParams::to_cs_replace).                               *)
(***************************************************************************)
PaysForEvicted ==
    Selected => PaidFee >= SumFunction([t \in evicted |-> TrueFee(t)])
                               + FeeAt(Incremental, ActualWeight)

(***************************************************************************)
(* Rule 6, as synopsis.rs and max_feerate state it: the feerate of the     *)
(* replacement is larger than that of every original; see the findings.    *)
(***************************************************************************)
BeatsFeerates ==
    Selected => \A t \in rbf.txs : PaidFee * TxWeight[t] > TrueFee(t) * ActualWeight
=============================================================================
