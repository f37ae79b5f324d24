-------------------------- MODULE CanonicalUnspents --------------------------
(***************************************************************************)
(* The wallet's canonical view (canonical_unspents.rs) and the set of      *)
(* transactions taken out of it to be replaced (rbf.rs), driven by a       *)
(* caller that extracts replacements, asks for unspent outputs of its own  *)
(* and of others, keeps the Inputs it got while the view changes, and      *)
(* picks the inputs the replacement must spend.                            *)
(***************************************************************************)
EXTENDS Ledger, FiniteSetsExt

CONSTANTS Height,       \* block heights a transaction may be confirmed at
          Unconfirmed,  \* the status of an unconfirmed transaction
          TipHeight,    \* the height the caller passes to candidate_filter
          ForeignPsbts, \* what a foreign psbt input may claim, see Foreign
          NoRbf,        \* no replacement in progress
          MaxRequest,   \* bound: transactions per extract_replacements call
          MaxHeld       \* bound: Inputs the caller keeps

(***************************************************************************)
(* A foreign psbt input, compared with the output it is said to spend:     *)
(* each utxo field is missing, the true one, or another one.               *)
(***************************************************************************)
Foreign == [non_witness_utxo : {"none", "prev", "other"},
            witness_utxo     : {"none", "prev", "other"},
            is_coinbase      : BOOLEAN,
            cltv_final       : BOOLEAN]  \* CLTV path with Sequence::MAX

ASSUME CallerAssumption ==
    /\ Height \subseteq Nat
    /\ Unconfirmed \notin Height
    /\ TipHeight \in Nat
    /\ ForeignPsbts \subseteq Foreign
    /\ MaxRequest \in Nat
    /\ MaxHeld \in Nat

VARIABLES
    txs,      \* CanonicalUnspents.txs, the txids (the data is the ledger's)
    statuses, \* CanonicalUnspents.statuses, absent when unconfirmed
    spends,   \* CanonicalUnspents.spends: outpoint -> spending txid
    rbf,      \* the RbfSet the caller works with, or NoRbf
    picked,   \* outpoints the replacement must spend, {} until asked for
    inputs,   \* Inputs the caller holds, as they were when it got them
    ret,      \* the outcome of the last call
    evicted,  \* history: every transaction ever removed from the view
    replaced  \* history: those removed by the extraction that returned rbf

viewVars == <<txs, statuses, spends, rbf, picked, inputs, ret, evicted, replaced>>

Input == [prev_outpoint : OutPoint, value : Nat,
          status : Height \cup {Unconfirmed}, is_coinbase : BOOLEAN]

-----------------------------------------------------------------------------
(* CanonicalUnspents::new *)

SpendsOf(S) == [op \in SpentBy(S) |-> CHOOSE t \in S : op \in Inputs[t]]

ViewInit ==
    /\ txs \in {S \in SUBSET Txid : Canonical(S)}
    /\ statuses \in UNION {[S -> Height] : S \in SUBSET txs}
    /\ \A t \in txs : IsCoinbase(t) => t \in DOMAIN statuses
    /\ \A c \in DOMAIN statuses : \A op \in Inputs[c] :
          op.txid \in txs => /\ op.txid \in DOMAIN statuses
                             /\ statuses[op.txid] <= statuses[c]
    /\ spends = SpendsOf(txs)
    /\ rbf = NoRbf
    /\ picked = {}
    /\ inputs = {}
    /\ ret = "none"
    /\ evicted = {}
    /\ replaced = {}

-----------------------------------------------------------------------------
(* extract_replacements *)

(* Plausible bug: only the first output of a transaction is followed. *)
ChildrenOf_FirstOutput(t) ==
    {spends[op] : op \in {[txid |-> t, vout |-> 0]} \cap DOMAIN spends} \cap txs

ChildrenOf(t) == {spends[op] : op \in OutPointsOf(t) \cap DOMAIN spends} \cap txs

(* Plausible bug: the children of the requested transactions, not theirs in turn. *)
EvictedDescendants_OneLevel(R) == UNION {ChildrenOf(t) : t \in R}

(* Plausible bug: a requested transaction is never taken for a descendant. *)
EvictedDescendants_KeepsRequested(R) ==
    LET closed == {D \in SUBSET txs : \A p \in R \cup D : ChildrenOf(p) \subseteq D}
    IN  {t \in txs : \A D \in closed : t \in D} \ R

(* What the search reaches: the least set with the children of R and of its own. *)
EvictedDescendants(R) ==
    LET kids == [t \in txs |-> ChildrenOf(t)]
        closed == {D \in SUBSET txs : \A p \in R \cup D : kids[p] \subseteq D}
    IN  {t \in txs : \A D \in closed : t \in D}

HasPrevOut(op) == op.txid \in txs /\ op.vout < Len(Outputs[op.txid])

FeeOf(t) == SumValues(Inputs[t]) - SumValues(OutPointsOf(t))

(* Plausible bug: the retained and the removed entries swapped. *)
Drop_Inverted(f, S) == [x \in DOMAIN f \cap S |-> f[x]]

(* Plausible bug: the entries stay. *)
Drop_Nothing(f, S) == f

Drop(f, S) == [x \in DOMAIN f \ S |-> f[x]]

(***************************************************************************)
(* The RbfSet owns what it needs, so the caller may go on with the one of  *)
(* an earlier extraction, and with what it picked for it, on a view that   *)
(* has changed since.                                                      *)
(***************************************************************************)
ExtractOk(R) ==
    LET desc == EvictedDescendants(R)
        originals == R \ desc
        gone == R \cup desc
        set == [txs |-> originals,
                descendant_fee |-> SumFunction([t \in desc |-> FeeOf(t)]),
                prev_txouts |-> [op \in SpentBy(originals) |-> ValueOf(op)]]
    IN  /\ R \subseteq txs
        /\ \A t \in R : ~IsCoinbase(t)
        /\ \A op \in SpentBy(gone) : HasPrevOut(op)
        /\ txs' = txs \ gone
        /\ statuses' = Drop(statuses, gone)
        /\ spends' = Drop(spends, SpentBy(gone))
        /\ evicted' = evicted \cup gone
        /\ \/ rbf' = set /\ replaced' = gone /\ picked' = {}
           \/ rbf # NoRbf /\ UNCHANGED <<rbf, replaced, picked>>
        /\ ret' = "Ok"
        /\ UNCHANGED inputs

(* Every error return comes before the first mutation. *)
ExtractErr(R) ==
    /\ \/ ~(R \subseteq txs) /\ ret' = "TransactionNotFound"
       \/ (\E t \in R \cap txs : IsCoinbase(t)) /\ ret' = "CannotReplaceCoinbase"
       \/ /\ R \subseteq txs
          /\ \A t \in R : ~IsCoinbase(t)
          /\ \E op \in SpentBy(R \cup EvictedDescendants(R)) : ~HasPrevOut(op)
          /\ ret' = "PreviousOutputNotFound"
    /\ UNCHANGED <<txs, statuses, spends, rbf, picked, inputs, evicted, replaced>>

ExtractReplacements(R) == ExtractOk(R) \/ ExtractErr(R)

-----------------------------------------------------------------------------
(* Unspent outputs *)

IsUnspent(op) == op \notin DOMAIN spends /\ HasPrevOut(op)

StatusOf(t) == IF t \in DOMAIN statuses THEN statuses[t] ELSE Unconfirmed

Hold(input) ==
    /\ Cardinality(inputs) < MaxHeld
    /\ inputs' = inputs \cup {input}
    /\ ret' = "Ok"

TryGetUnspent(op) ==
    /\ IF IsUnspent(op)
       THEN Hold([prev_outpoint |-> op,
                  value |-> ValueOf(op),
                  status |-> StatusOf(op.txid),
                  is_coinbase |-> IsCoinbase(op.txid)])
       ELSE ret' = "None" /\ UNCHANGED inputs
    /\ UNCHANGED <<txs, statuses, spends, rbf, picked, evicted, replaced>>

(* Plausible bug: witness_utxo is not compared with the output of the view. *)
ForeignCheck_TrustsWitnessUtxo(op, psbt) ==
    CASE ~IsUnspent(op) -> "OutputIsAlreadySpent"
      [] IsUnspent(op) /\ psbt.non_witness_utxo = "other" -> "UtxoMismatch"
      [] OTHER -> IF psbt.is_coinbase # IsCoinbase(op.txid) THEN "Coinbase" ELSE "Ok"

(***************************************************************************)
(* try_get_foreign_unspent: its own checks against the view, then those of *)
(* Input::from_psbt_input.                                                 *)
(***************************************************************************)
ForeignCheck(op, psbt) ==
    CASE ~IsUnspent(op) -> "OutputIsAlreadySpent"
      [] IsUnspent(op) /\ "other" \in {psbt.non_witness_utxo, psbt.witness_utxo}
            -> "UtxoMismatch"
      [] OTHER -> IF psbt.is_coinbase # IsCoinbase(op.txid) THEN "Coinbase" ELSE "Ok"

FromPsbtInput(op, psbt) ==
    CASE psbt.non_witness_utxo = "other" -> "InvalidOutPoint"
      [] psbt.non_witness_utxo = "prev" /\ psbt.witness_utxo = "other" -> "UtxoCheck"
      [] psbt.non_witness_utxo = "prev" /\ psbt.is_coinbase # IsCoinbase(op.txid)
            -> "Coinbase"
      [] psbt.non_witness_utxo = "none" /\ psbt.witness_utxo = "none" -> "UtxoCheck"
      [] OTHER -> IF psbt.cltv_final THEN "AbsoluteTimelockDisabled" ELSE "Ok"

ClaimedValue(op, psbt) ==
    IF psbt.non_witness_utxo = "prev" \/ psbt.witness_utxo = "prev"
    THEN ValueOf(op)
    ELSE ValueOf(op) + 1

TryGetForeignUnspent(op, psbt) ==
    LET checked == ForeignCheck(op, psbt)
        built == IF checked = "Ok" THEN FromPsbtInput(op, psbt) ELSE checked
    IN  /\ IF built = "Ok"
           THEN Hold([prev_outpoint |-> op,
                      value |-> ClaimedValue(op, psbt),
                      status |-> StatusOf(op.txid),
                      is_coinbase |-> psbt.is_coinbase])
           ELSE ret' = built /\ UNCHANGED inputs
        /\ UNCHANGED <<txs, statuses, spends, rbf, picked, evicted, replaced>>

-----------------------------------------------------------------------------
(* RbfSet *)

(* Confirmations at TipHeight, with Rust's saturating subtractions. *)
Confirmations(input) ==
    IF input.status = Unconfirmed
    THEN 0
    ELSE Max({0, TipHeight - Max({0, input.status - 1})})

(* Plausible bug: the bound on the confirmations is off by one. *)
CandidateFilter_OffByOne(input) ==
    input.prev_outpoint \in SpentBy(rbf.txs) \/ Confirmations(input) >= 0

CandidateFilter(input) ==
    input.prev_outpoint \in SpentBy(rbf.txs) \/ Confirmations(input) > 0

OriginalFee(t) ==
    SumFunction([op \in Inputs[t] |-> rbf.prev_txouts[op]]) - SumValues(OutPointsOf(t))

(* Plausible bug: the fees of the evicted descendants are forgotten. *)
FeeToBeat_OriginalsOnly == SumFunction([t \in rbf.txs |-> OriginalFee(t)])

(* RbfParams::to_cs_replace: the fee the replacement has to beat. *)
FeeToBeat == SumFunction([t \in rbf.txs |-> OriginalFee(t)]) + rbf.descendant_fee

(* The inputs of original t that may be picked, and the largest of them. *)
Available(t) ==
    {op \in Inputs[t] : /\ op.txid \notin rbf.txs
                        /\ IsUnspent(op)
                        /\ rbf.prev_txouts[op] > 0}

(* Plausible bug: the comparison is the wrong way round. *)
LargestInputs_Smallest(t) ==
    {op \in Available(t) :
        \A other \in Available(t) : rbf.prev_txouts[op] <= rbf.prev_txouts[other]}

LargestInputs(t) ==
    {op \in Available(t) :
        \A other \in Available(t) : rbf.prev_txouts[op] >= rbf.prev_txouts[other]}

MustSelectLargestInputs ==
    /\ rbf # NoRbf
    /\ IF \A t \in rbf.txs : Available(t) # {}
       THEN /\ ret' = "Ok"
            /\ \E pick \in [rbf.txs -> SpentBy(rbf.txs)] :
                  /\ \A t \in rbf.txs : pick[t] \in LargestInputs(t)
                  /\ picked' = {pick[t] : t \in rbf.txs}
       ELSE /\ ret' = "OriginalTxHasNoInputsAvailable"
            /\ picked' = {}
    /\ UNCHANGED <<txs, statuses, spends, rbf, inputs, evicted, replaced>>

-----------------------------------------------------------------------------

TxidSets == {R \in SUBSET Txid : Cardinality(R) <= MaxRequest}

ViewNext ==
    \/ \E R \in TxidSets : ExtractReplacements(R)
    \/ \E op \in CreatedBy(Txid) : TryGetUnspent(op)
    \/ \E op \in CreatedBy(Txid), psbt \in ForeignPsbts : TryGetForeignUnspent(op, psbt)
    \/ MustSelectLargestInputs

ViewSpec == ViewInit /\ [][ViewNext]_viewVars

-----------------------------------------------------------------------------
(* Properties *)

(***************************************************************************)
(* The fields have their types, and maps keyed by txid stay within txs     *)
(* (the struct at canonical_unspents.rs:19).                               *)
(***************************************************************************)
ViewTypeOK ==
    /\ txs \subseteq Txid
    /\ DOMAIN statuses \subseteq txs
    /\ \A t \in DOMAIN statuses : statuses[t] \in Height
    /\ DOMAIN spends \subseteq OutPoint
    /\ \A op \in DOMAIN spends : spends[op] \in txs
    /\ rbf = NoRbf \/ /\ rbf.txs \subseteq Txid
                      /\ DOMAIN rbf.prev_txouts = SpentBy(rbf.txs)
                      /\ \A op \in DOMAIN rbf.prev_txouts : rbf.prev_txouts[op] \in Nat
    /\ picked \subseteq OutPoint
    /\ inputs \subseteq Input
    /\ evicted \subseteq Txid
    /\ replaced \subseteq evicted

(***************************************************************************)
(* The index spends is exactly what the transactions of the view spend,    *)
(* after any sequence of extractions: a stale entry would hide an unspent  *)
(* output, a missing one would let an output be spent twice.               *)
(***************************************************************************)
SpendsIndexesView ==
    /\ DOMAIN spends = SpentBy(txs)
    /\ \A op \in DOMAIN spends : op \in Inputs[spends[op]]

(***************************************************************************)
(* No transaction of the view depends on an evicted one, and no evicted    *)
(* output is offered as unspent, however many extractions were made        *)
(* (the descendant search of extract_replacements).                        *)
(***************************************************************************)
NothingRestsOnEvicted ==
    /\ evicted \cap txs = {}
    /\ \A t \in txs : \A op \in Inputs[t] : op.txid \notin evicted

(***************************************************************************)
(* Every input of every original is an output its own extraction left in   *)
(* the view, and is unspent there until a later extraction evicts the      *)
(* transaction that made it; so the replacement can conflict with each     *)
(* original (must_select_largest_input_of_each_original_tx, which skips    *)
(* what is spent or created by another original).                          *)
(***************************************************************************)
OriginalsStayReplaceable ==
    rbf # NoRbf =>
        \A t \in rbf.txs : \A op \in Inputs[t] :
            op.txid \notin replaced /\ (IsUnspent(op) \/ op.txid \in evicted)

(***************************************************************************)
(* The inputs returned by must_select_largest_input_of_each_original_tx    *)
(* conflict with every original, each by a most valuable one of the        *)
(* original's inputs that are still unspent, whenever the RbfSet was made; *)
(* and they stay unspent until a later extraction evicts what made them.   *)
(***************************************************************************)
MustReplacesEveryOriginal ==
    picked # {} =>
        /\ \A t \in rbf.txs : \E op \in picked \cap Inputs[t] :
              \A other \in Inputs[t] : IsUnspent(other) => ValueOf(op) >= ValueOf(other)
        /\ \A op \in picked : IsUnspent(op) \/ op.txid \in evicted \ replaced

(***************************************************************************)
(* Rule 2 of candidate_filter, for Inputs and RbfSets of any age: a        *)
(* candidate it lets through either spends an output that an original      *)
(* spent, and that was not evicted with the originals, or was confirmed    *)
(* at TipHeight when the Input was made and still has that status if the   *)
(* view still has its transaction.  (A confirmed transaction may be        *)
(* extracted too: its Inputs keep their status and pass.)                  *)
(***************************************************************************)
FilterKeepsRule2 ==
    rbf # NoRbf =>
        \A i \in inputs : CandidateFilter(i) =>
            LET op == i.prev_outpoint
            IN  \/ op \in SpentBy(rbf.txs) /\ op.txid \notin replaced
                \/ /\ i.status # Unconfirmed
                   /\ i.status <= TipHeight
                   /\ op.txid \in txs => i.status = StatusOf(op.txid)

(***************************************************************************)
(* An Input obtained from the view, one's own or foreign, carries the      *)
(* value and the coinbase flag of the output it spends, whatever the       *)
(* foreign psbt claims.                                                    *)
(***************************************************************************)
InputsAreGenuine ==
    \A i \in inputs : /\ i.value = ValueOf(i.prev_outpoint)
                      /\ i.is_coinbase = IsCoinbase(i.prev_outpoint.txid)

Unspents == {op \in CreatedBy(txs) : IsUnspent(op)}

UnspentValue == SumValues(Unspents)

(***************************************************************************)
(* An extraction gives back to the view exactly the fees that the          *)
(* replacement has to beat: fees of the originals, recomputed from the     *)
(* prev_txouts the RbfSet kept, plus the descendants' fees.  No fee is     *)
(* counted twice, none is lost (rules 3 and 4 of RbfParams), and neither   *)
(* unsigned subtraction, of an original or of a descendant, is negative    *)
(* (RbfSet::_fee asks whether it is safe to leave it unchecked).           *)
(***************************************************************************)
FeesComeBack ==
    [][rbf' # rbf => /\ UnspentValue' - UnspentValue = FeeToBeat'
                     /\ \A t \in rbf'.txs : OriginalFee(t)' >= 0
                     /\ \A t \in replaced' \ rbf'.txs : FeeOf(t) >= 0]_viewVars

(***************************************************************************)
(* CanonicalUnspents implements the abstract view: its lookups through     *)
(* spends and txs are the unspent outputs of a set of transactions.        *)
(***************************************************************************)
Abstract == INSTANCE CanonicalView
    WITH view <- txs, utxos <- Unspents

ImplementsView == Abstract!Spec
=============================================================================
