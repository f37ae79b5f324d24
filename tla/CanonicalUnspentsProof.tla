----------------------- MODULE CanonicalUnspentsProof -----------------------
(***************************************************************************)
(* Proofs about CanonicalUnspents for every ledger: its invariants, that   *)
(* it implements CanonicalView, and the fees a replacement has to beat.    *)
(***************************************************************************)
EXTENDS CanonicalUnspents, DataFacts

-----------------------------------------------------------------------------
(* The descendant search through spends, and the graph of the ledger *)

(* An extraction's descendants are closed: whoever spends one of them, or  *)
(* one of the requested transactions, is among them.                       *)
LEMMA DescendantsClosed ==
    ASSUME NEW S, NEW R
    PROVE  SpendClosed(S, R, Descendants(S, R))
  BY DEF SpendClosed, Descendants, Spenders

(* What the code finds through spends are the spenders in the ledger. *)
LEMMA ChildrenAreSpenders ==
    ASSUME ViewTypeOK, Canonical(txs), SpendsIndexesView, NEW t \in txs
    PROVE  ChildrenOf(t) = Spenders(txs, t)
<1>1. ASSUME NEW c \in ChildrenOf(t)
      PROVE  c \in Spenders(txs, t)
  <2>1. PICK op \in OutPointsOf(t) \cap DOMAIN spends : c = spends[op] /\ c \in txs
    BY <1>1 DEF ChildrenOf
  <2>2. op \in Inputs[c] /\ op.txid = t
    BY <2>1 DEF SpendsIndexesView, OutPointsOf
  <2> QED
    BY <2>1, <2>2 DEF Spenders
<1>2. ASSUME NEW c \in Spenders(txs, t)
      PROVE  c \in ChildrenOf(t)
  <2>1. c \in txs /\ c \in Txid /\ t \in Txid
    BY <1>2 DEF Spenders, ViewTypeOK
  <2>2. PICK op \in Inputs[c] : op.txid = t
    BY <1>2 DEF Spenders
  <2>3. op # NullOutPoint
    BY <2>1, <2>2, LedgerAssumption DEF NullOutPoint
  <2>4. op \in OutPointsOf(t)
    BY <2>1, <2>2, <2>3, LedgerAssumption
  <2>5. op \in DOMAIN spends /\ op \in Inputs[spends[op]] /\ spends[op] \in txs
    BY <2>1, <2>2 DEF SpendsIndexesView, SpentBy, ViewTypeOK
  <2>6. spends[op] = c
    BY <2>1, <2>2, <2>3, <2>5 DEF Canonical
  <2> QED
    BY <2>1, <2>4, <2>5, <2>6 DEF ChildrenOf
<1> QED
  BY <1>1, <1>2

(* So the two notions of descendant agree. *)
LEMMA SearchFindsDescendants ==
    ASSUME ViewTypeOK, Canonical(txs), SpendsIndexesView, NEW R, R \subseteq txs
    PROVE  EvictedDescendants(R) = Descendants(txs, R)
<1> DEFINE kids == [t \in txs |-> ChildrenOf(t)]
<1>1. \A t \in txs : kids[t] = Spenders(txs, t)
  BY ChildrenAreSpenders
<1>2. ASSUME NEW D \in SUBSET txs
      PROVE  SpendClosed(txs, R, D) <=> \A p \in R \cup D : kids[p] \subseteq D
  <2> HIDE DEF kids
  <2> QED
    BY <1>1, <1>2 DEF SpendClosed
<1> QED
  BY <1>2 DEF EvictedDescendants, Descendants

-----------------------------------------------------------------------------
(* The inductive invariant *)

(* The RbfSet is made of what was evicted with it and of true output values. *)
RbfIsEvicted ==
    rbf # NoRbf => /\ rbf.txs \subseteq replaced
                   /\ \A op \in DOMAIN rbf.prev_txouts : rbf.prev_txouts[op] = ValueOf(op)

(* While the view has the transaction of an Input, the Input has its status. *)
InputsKeepStatus ==
    \A i \in inputs :
        i.prev_outpoint.txid \in txs => i.status = StatusOf(i.prev_outpoint.txid)

ViewInv ==
    /\ ViewTypeOK
    /\ Canonical(txs)
    /\ SpendsIndexesView
    /\ NothingRestsOnEvicted
    /\ OriginalsStayReplaceable
    /\ RbfIsEvicted
    /\ MustReplacesEveryOriginal
    /\ InputsKeepStatus

LEMMA ValueIsNat ==
    ASSUME NEW t \in Txid, NEW op \in OutPointsOf(t)
    PROVE  op \in OutPoint /\ op.txid = t /\ ValueOf(op) \in Nat
           /\ op.vout < Len(Outputs[t]) /\ op # NullOutPoint
<1>1. Outputs[t] \in Seq(Nat) /\ Len(Outputs[t]) \in Nat
  BY LedgerAssumption
<1>2. PICK v \in 0 .. Len(Outputs[t]) - 1 : op = [txid |-> t, vout |-> v]
  BY DEF OutPointsOf
<1>3. v + 1 \in 1 .. Len(Outputs[t])
  BY <1>1
<1>4. Outputs[t][v + 1] \in Nat
  BY <1>1, <1>3
<1> QED
  BY <1>1, <1>2, <1>4, LedgerAssumption DEF ValueOf, OutPoint, NullOutPoint

(* The previous output of an outpoint the view can resolve. *)
LEMMA PrevOutIsOutput ==
    ASSUME ViewTypeOK, NEW t \in txs, NEW op \in Inputs[t], HasPrevOut(op)
    PROVE  op \in OutPointsOf(op.txid) /\ ValueOf(op) \in Nat /\ op # NullOutPoint
<1>1. t \in Txid /\ op.txid \in Txid
  BY DEF ViewTypeOK, HasPrevOut
<1>2. op \in OutPointsOf(op.txid)
  BY <1>1, LedgerAssumption DEF NullOutPoint
<1> QED
  BY <1>1, <1>2, ValueIsNat

LEMMA ViewInitInv == ViewInit => ViewInv
<1> SUFFICES ASSUME ViewInit PROVE ViewInv
  OBVIOUS
<1> USE DEF ViewInit
<1>1. txs \subseteq Txid /\ Canonical(txs)
  OBVIOUS
<1>2. \A op \in SpentBy(txs) : /\ op \in OutPoint
                              /\ spends[op] \in txs
                              /\ op \in Inputs[spends[op]]
  BY <1>1, LedgerAssumption DEF SpendsOf, SpentBy
<1>3. DOMAIN spends = SpentBy(txs)
  BY DEF SpendsOf
<1>4. DOMAIN statuses \subseteq txs /\ \A t \in DOMAIN statuses : statuses[t] \in Height
  OBVIOUS
<1>5. ViewTypeOK
  BY <1>1, <1>2, <1>3, <1>4 DEF ViewTypeOK
<1>6. SpendsIndexesView
  BY <1>2, <1>3 DEF SpendsIndexesView
<1> QED
  BY <1>1, <1>5, <1>6
     DEF ViewInv, NothingRestsOnEvicted, OriginalsStayReplaceable, RbfIsEvicted,
         MustReplacesEveryOriginal, InputsKeepStatus

-----------------------------------------------------------------------------
(* An extraction *)

LEMMA ExtractInv ==
    ASSUME ViewInv, NEW R, ExtractOk(R)
    PROVE  ViewInv'
<1> DEFINE desc == EvictedDescendants(R)
           originals == R \ desc
           gone == R \cup desc
           New == /\ rbf'.txs = originals
                  /\ rbf'.prev_txouts = [op \in SpentBy(originals) |-> ValueOf(op)]
                  /\ replaced' = gone
                  /\ picked' = {}
           Kept == rbf # NoRbf /\ UNCHANGED <<rbf, replaced, picked>>
<1>1. /\ ViewTypeOK
      /\ Canonical(txs)
      /\ SpendsIndexesView
      /\ NothingRestsOnEvicted
      /\ OriginalsStayReplaceable
      /\ RbfIsEvicted
      /\ MustReplacesEveryOriginal
      /\ InputsKeepStatus
  BY DEF ViewInv
<1>2. /\ R \subseteq txs
      /\ \A op \in SpentBy(gone) : HasPrevOut(op)
      /\ txs' = txs \ gone
      /\ statuses' = Drop(statuses, gone)
      /\ spends' = Drop(spends, SpentBy(gone))
      /\ evicted' = evicted \cup gone
      /\ inputs' = inputs
  BY DEF ExtractOk
<1>3. desc = Descendants(txs, R) /\ desc \subseteq txs /\ gone \subseteq txs
  BY <1>1, <1>2, SearchFindsDescendants DEF Descendants
<1>4. \A p \in gone : Spenders(txs, p) \subseteq desc
  BY <1>3, DescendantsClosed DEF SpendClosed
<1>5. New \/ Kept
  BY DEF ExtractOk
<1> HIDE DEF desc
<1>6. \A op \in SpentBy(originals) : op \in OutPoint /\ ValueOf(op) \in Nat
  <2> TAKE op \in SpentBy(originals)
  <2>1. PICK t \in originals : op \in Inputs[t]
    BY DEF SpentBy
  <2>2. t \in txs /\ HasPrevOut(op)
    BY <1>2, <2>1 DEF SpentBy
  <2>3. op \in OutPoint
    BY <1>1, <2>1, <2>2, LedgerAssumption DEF ViewTypeOK
  <2> QED
    BY <1>1, <2>1, <2>2, <2>3, PrevOutIsOutput
<1>7. ViewTypeOK'
  <2>1. txs' \subseteq Txid
    BY <1>1, <1>2 DEF ViewTypeOK
  <2>2. DOMAIN statuses' \subseteq txs' /\ \A t \in DOMAIN statuses' : statuses'[t] \in Height
    BY <1>1, <1>2 DEF ViewTypeOK, Drop
  <2>3. \A op \in DOMAIN spends' : op \in OutPoint /\ spends'[op] \in txs'
    <3> TAKE op \in DOMAIN spends'
    <3>1. op \in DOMAIN spends /\ op \notin SpentBy(gone) /\ spends'[op] = spends[op]
      BY <1>2 DEF Drop
    <3>2. op \in Inputs[spends[op]] /\ spends[op] \in txs
      BY <1>1, <3>1 DEF ViewTypeOK, SpendsIndexesView
    <3>3. spends[op] \notin gone
      BY <3>1, <3>2 DEF SpentBy
    <3> QED
      BY <1>1, <1>2, <3>1, <3>2, <3>3 DEF ViewTypeOK
  <2>4. inputs' \subseteq Input /\ evicted' \subseteq Txid
    BY <1>1, <1>2, <1>3 DEF ViewTypeOK
  <2>5. CASE New
    <3>1. /\ rbf'.txs \subseteq Txid
          /\ DOMAIN rbf'.prev_txouts = SpentBy(rbf'.txs)
          /\ \A op \in DOMAIN rbf'.prev_txouts : rbf'.prev_txouts[op] \in Nat
      BY <1>1, <1>2, <1>6, <2>5 DEF ViewTypeOK
    <3>2. picked' \subseteq OutPoint /\ replaced' \subseteq evicted'
      BY <1>2, <2>5
    <3> QED
      BY <2>1, <2>2, <2>3, <2>4, <3>1, <3>2 DEF ViewTypeOK
  <2>6. CASE Kept
    BY <1>1, <1>2, <2>1, <2>2, <2>3, <2>4, <2>6 DEF ViewTypeOK
  <2> QED
    BY <1>5, <2>5, <2>6
<1>8. Canonical(txs)'
  BY <1>1, <1>2 DEF Canonical
<1>9. SpendsIndexesView'
  <2>1. ASSUME NEW op
        PROVE  op \in DOMAIN spends' <=> op \in SpentBy(txs')
    <3>1. CASE op \in SpentBy(gone)
      <4>1. op \notin DOMAIN spends'
        BY <1>2, <3>1 DEF Drop
      <4>2. PICK t \in gone : op \in Inputs[t]
        BY <3>1 DEF SpentBy
      <4>3. op # NullOutPoint
        BY <1>1, <1>2, <1>3, <3>1, <4>2, PrevOutIsOutput
      <4>4. \A u \in txs' : op \notin Inputs[u]
        BY <1>1, <1>2, <1>3, <4>2, <4>3 DEF Canonical
      <4> QED
        BY <4>1, <4>4 DEF SpentBy
    <3>2. CASE op \notin SpentBy(gone)
      <4>1. op \in DOMAIN spends' <=> op \in SpentBy(txs)
        BY <1>1, <1>2, <3>2 DEF Drop, SpendsIndexesView
      <4>2. op \in SpentBy(txs) <=> op \in SpentBy(txs')
        BY <1>2, <3>2 DEF SpentBy
      <4> QED
        BY <4>1, <4>2
    <3> QED
      BY <3>1, <3>2
  <2>2. DOMAIN spends' = SpentBy(txs')
    <3>1. spends' = [x \in DOMAIN spends \ SpentBy(gone) |-> spends[x]]
      BY <1>2 DEF Drop
    <3> QED
      BY <2>1, <3>1
  <2>3. \A op \in DOMAIN spends' : op \in Inputs[spends'[op]]
    BY <1>1, <1>2 DEF Drop, SpendsIndexesView
  <2> QED
    BY <2>2, <2>3 DEF SpendsIndexesView
<1>10. NothingRestsOnEvicted'
  <2>1. evicted' \cap txs' = {}
    BY <1>1, <1>2 DEF NothingRestsOnEvicted
  <2>2. ASSUME NEW t \in txs', NEW op \in Inputs[t], op.txid \in gone
        PROVE  FALSE
    <3>1. t \in Spenders(txs, op.txid)
      BY <1>2, <2>2 DEF Spenders
    <3> QED
      BY <1>2, <1>4, <2>2, <3>1
  <2> QED
    BY <1>1, <1>2, <2>1, <2>2 DEF NothingRestsOnEvicted
<1>11. \A op : IsUnspent(op) => IsUnspent(op)' \/ op.txid \in gone
  BY <1>2 DEF IsUnspent, HasPrevOut, Drop
<1>12. OriginalsStayReplaceable'
  <2>1. CASE New
    <3>1. ASSUME NEW t \in originals, NEW op \in Inputs[t]
          PROVE  op.txid \notin gone /\ IsUnspent(op)'
      <4>1. t \in txs /\ t \notin desc /\ op \in SpentBy(gone)
        BY <1>2, <3>1 DEF SpentBy
      <4>2. op.txid \notin gone
        BY <1>4, <3>1, <4>1 DEF Spenders
      <4>3. op \notin DOMAIN spends'
        BY <1>2, <4>1 DEF Drop
      <4>4. HasPrevOut(op)'
        BY <1>2, <4>1, <4>2 DEF HasPrevOut
      <4> QED
        BY <4>2, <4>3, <4>4 DEF IsUnspent
    <3> QED
      BY <2>1, <3>1 DEF OriginalsStayReplaceable
  <2>2. CASE Kept
    <3> SUFFICES ASSUME NEW t \in rbf.txs, NEW op \in Inputs[t]
                 PROVE  op.txid \notin replaced /\ (IsUnspent(op)' \/ op.txid \in evicted')
      BY <2>2 DEF OriginalsStayReplaceable
    <3>1. op.txid \notin replaced /\ (IsUnspent(op) \/ op.txid \in evicted)
      BY <1>1, <2>2 DEF OriginalsStayReplaceable
    <3> QED
      BY <1>2, <1>11, <3>1
  <2> QED
    BY <1>5, <2>1, <2>2
<1>13. RbfIsEvicted'
  <2>1. CASE New
    BY <2>1 DEF RbfIsEvicted
  <2>2. CASE Kept
    BY <1>1, <2>2 DEF RbfIsEvicted, ValueOf
  <2> QED
    BY <1>5, <2>1, <2>2
<1>14. MustReplacesEveryOriginal'
  <2>1. CASE New
    BY <2>1 DEF MustReplacesEveryOriginal
  <2>2. CASE Kept
    <3> SUFFICES ASSUME picked # {}
                 PROVE  /\ \A t \in rbf.txs : \E op \in picked \cap Inputs[t] :
                              \A other \in Inputs[t] :
                                 IsUnspent(other)' => ValueOf(op) >= ValueOf(other)
                        /\ \A op \in picked : IsUnspent(op)' \/ op.txid \in evicted' \ replaced
      BY <2>2 DEF MustReplacesEveryOriginal, ValueOf
    <3>1. ASSUME NEW t \in rbf.txs, NEW other \in Inputs[t], IsUnspent(other)'
          PROVE  IsUnspent(other)
      <4>1. other.txid \in txs' /\ other.txid \in txs
        BY <1>2, <3>1 DEF IsUnspent, HasPrevOut
      <4> QED
        BY <1>1, <2>2, <3>1, <4>1 DEF OriginalsStayReplaceable, NothingRestsOnEvicted
    <3>2. ASSUME NEW op \in picked
          PROVE  IsUnspent(op)' \/ op.txid \in evicted' \ replaced
      <4>1. IsUnspent(op) \/ op.txid \in evicted \ replaced
        BY <1>1, <3>2 DEF MustReplacesEveryOriginal
      <4>2. gone \cap replaced = {}
        BY <1>1, <1>3 DEF ViewTypeOK, NothingRestsOnEvicted
      <4> QED
        BY <1>2, <1>11, <4>1, <4>2
    <3> QED
      BY <1>1, <3>1, <3>2 DEF MustReplacesEveryOriginal
  <2> QED
    BY <1>5, <2>1, <2>2
<1>15. InputsKeepStatus'
  BY <1>1, <1>2 DEF InputsKeepStatus, StatusOf, Drop
<1> QED
  BY <1>7, <1>8, <1>9, <1>10, <1>12, <1>13, <1>14, <1>15 DEF ViewInv

-----------------------------------------------------------------------------
(* The calls that leave the view alone *)

(* An Input made from an unspent output is one, and only inputs and ret change. *)
LEMMA HoldInv ==
    ASSUME ViewInv, NEW input \in Input, inputs' = inputs \cup {input},
           input.status = StatusOf(input.prev_outpoint.txid),
           UNCHANGED <<txs, statuses, spends, rbf, picked, evicted, replaced>>
    PROVE  ViewInv'
<1>1. ViewTypeOK'
  BY DEF ViewInv, ViewTypeOK
<1>2. InputsKeepStatus'
  BY DEF ViewInv, InputsKeepStatus, StatusOf
<1> QED
  BY <1>1, <1>2 DEF ViewInv, Canonical, SpendsIndexesView, NothingRestsOnEvicted,
              OriginalsStayReplaceable, RbfIsEvicted, MustReplacesEveryOriginal,
              IsUnspent, HasPrevOut

LEMMA ViewUnchangedInv ==
    ASSUME ViewInv,
           UNCHANGED <<txs, statuses, spends, rbf, picked, inputs, evicted, replaced>>
    PROVE  ViewInv'
<1> QED
  BY DEF ViewInv, ViewTypeOK, Canonical, SpendsIndexesView, NothingRestsOnEvicted,
         OriginalsStayReplaceable, RbfIsEvicted, MustReplacesEveryOriginal,
         InputsKeepStatus, StatusOf, IsUnspent, HasPrevOut

LEMMA StatusIsTyped ==
    ASSUME ViewTypeOK, NEW t
    PROVE  StatusOf(t) \in Height \cup {Unconfirmed}
<1> QED
  BY DEF StatusOf, ViewTypeOK

LEMMA TryGetInv ==
    ASSUME ViewInv, NEW op \in CreatedBy(Txid), TryGetUnspent(op)
    PROVE  ViewInv'
<1> DEFINE got == [prev_outpoint |-> op, value |-> ValueOf(op),
                   status |-> StatusOf(op.txid), is_coinbase |-> IsCoinbase(op.txid)]
<1>1. PICK t \in Txid : op \in OutPointsOf(t)
  BY DEF CreatedBy
<1>2. got \in Input
  BY <1>1, ValueIsNat, StatusIsTyped DEF ViewInv, Input, IsCoinbase
<1>3. CASE IsUnspent(op)
  <2>1. got.status = StatusOf(got.prev_outpoint.txid)
    OBVIOUS
  <2>2. /\ inputs' = inputs \cup {got}
        /\ UNCHANGED <<txs, statuses, spends, rbf, picked, evicted, replaced>>
    BY <1>3 DEF TryGetUnspent, Hold
  <2> HIDE DEF got
  <2> QED
    BY <1>2, <2>1, <2>2, HoldInv
<1>4. CASE ~IsUnspent(op)
  BY <1>4, ViewUnchangedInv DEF TryGetUnspent
<1> QED
  BY <1>3, <1>4

LEMMA TryGetForeignInv ==
    ASSUME ViewInv, NEW op \in CreatedBy(Txid), NEW psbt \in ForeignPsbts,
           TryGetForeignUnspent(op, psbt)
    PROVE  ViewInv'
<1> DEFINE checked == ForeignCheck(op, psbt)
           built == IF checked = "Ok" THEN FromPsbtInput(op, psbt) ELSE checked
           got == [prev_outpoint |-> op, value |-> ClaimedValue(op, psbt),
                   status |-> StatusOf(op.txid), is_coinbase |-> psbt.is_coinbase]
<1>1. PICK t \in Txid : op \in OutPointsOf(t)
  BY DEF CreatedBy
<1>2. psbt.is_coinbase \in BOOLEAN
  BY CallerAssumption DEF Foreign
<1>3. op \in OutPoint /\ ValueOf(op) \in Nat
  BY <1>1, ValueIsNat
<1>4. ClaimedValue(op, psbt) \in Nat
  BY <1>3 DEF ClaimedValue
<1>5. got \in Input
  BY <1>2, <1>3, <1>4, StatusIsTyped DEF ViewInv, Input
<1>6. CASE built = "Ok"
  <2>1. got.status = StatusOf(got.prev_outpoint.txid)
    OBVIOUS
  <2>2. /\ inputs' = inputs \cup {got}
        /\ UNCHANGED <<txs, statuses, spends, rbf, picked, evicted, replaced>>
    BY <1>6 DEF TryGetForeignUnspent, Hold
  <2> HIDE DEF got
  <2> QED
    BY <1>5, <2>1, <2>2, HoldInv
<1> HIDE DEF got, built
<1>7. CASE built # "Ok"
  BY <1>7, ViewUnchangedInv DEF TryGetForeignUnspent, built
<1> QED
  BY <1>6, <1>7

LEMMA MustSelectInv ==
    ASSUME ViewInv, MustSelectLargestInputs
    PROVE  ViewInv'
<1>1. /\ ViewTypeOK
      /\ OriginalsStayReplaceable
      /\ RbfIsEvicted
      /\ NothingRestsOnEvicted
      /\ rbf # NoRbf
      /\ UNCHANGED <<txs, statuses, spends, rbf, inputs, evicted, replaced>>
  BY DEF ViewInv, MustSelectLargestInputs
<1>2. ViewTypeOK' /\ MustReplacesEveryOriginal'
  <2>1. CASE picked' = {}
    BY <1>1, <2>1 DEF ViewTypeOK, MustReplacesEveryOriginal
  <2>2. CASE picked' # {}
    <3>1. PICK pick \in [rbf.txs -> SpentBy(rbf.txs)] :
              /\ \A t \in rbf.txs : pick[t] \in LargestInputs(t)
              /\ picked' = {pick[t] : t \in rbf.txs}
      BY <2>2 DEF MustSelectLargestInputs
    <3>2. \A op \in picked' : op \in OutPoint /\ IsUnspent(op)
      BY <1>1, <3>1, LedgerAssumption DEF LargestInputs, Available, ViewTypeOK
    <3>3. ASSUME NEW t \in rbf.txs
          PROVE  /\ pick[t] \in picked' \cap Inputs[t]
                 /\ \A other \in Inputs[t] :
                       IsUnspent(other) => ValueOf(pick[t]) >= ValueOf(other)
      <4>1. \A op \in Inputs[t] : /\ op \in DOMAIN rbf.prev_txouts
                                  /\ rbf.prev_txouts[op] = ValueOf(op)
                                  /\ rbf.prev_txouts[op] \in Nat
        BY <1>1 DEF ViewTypeOK, RbfIsEvicted, SpentBy
      <4>2. pick[t] \in Available(t) /\ pick[t] \in Inputs[t]
        BY <3>1 DEF LargestInputs, Available
      <4>3. ASSUME NEW other \in Inputs[t], IsUnspent(other)
            PROVE  ValueOf(pick[t]) >= ValueOf(other)
        <5>1. IsUnspent(other) /\ other.txid \notin rbf.txs
          BY <1>1, <4>3 DEF OriginalsStayReplaceable, RbfIsEvicted
        <5>2. CASE rbf.prev_txouts[other] > 0
          BY <3>1, <4>1, <4>2, <5>1, <5>2 DEF LargestInputs, Available
        <5>3. CASE ~(rbf.prev_txouts[other] > 0)
          BY <4>1, <4>2, <5>3
        <5> QED
          BY <5>2, <5>3
      <4> QED
        BY <3>1, <4>2, <4>3
    <3>4. \A t \in rbf.txs : \E op \in picked' \cap Inputs[t] :
              \A other \in Inputs[t] : IsUnspent(other) => ValueOf(op) >= ValueOf(other)
      BY <3>3
    <3>5. MustReplacesEveryOriginal'
      BY <1>1, <3>2, <3>4 DEF MustReplacesEveryOriginal, IsUnspent, HasPrevOut
    <3>6. ViewTypeOK'
      BY <1>1, <3>2 DEF ViewTypeOK
    <3> QED
      BY <3>5, <3>6
  <2> QED
    BY <2>1, <2>2
<1> QED
  BY <1>1, <1>2 DEF ViewInv, Canonical, SpendsIndexesView, NothingRestsOnEvicted,
                    OriginalsStayReplaceable, RbfIsEvicted, InputsKeepStatus, StatusOf,
                    IsUnspent, HasPrevOut

LEMMA ViewNextInv == ViewInv /\ [ViewNext]_viewVars => ViewInv'
<1> SUFFICES ASSUME ViewInv, [ViewNext]_viewVars PROVE ViewInv'
  OBVIOUS
<1>1. ASSUME NEW R \in TxidSets, ExtractReplacements(R) PROVE ViewInv'
  <2>1. CASE ExtractOk(R)
    BY <2>1, ExtractInv
  <2>2. CASE ExtractErr(R)
    BY <2>2, ViewUnchangedInv DEF ExtractErr
  <2> QED
    BY <1>1, <2>1, <2>2 DEF ExtractReplacements
<1>2. ASSUME NEW op \in CreatedBy(Txid), TryGetUnspent(op) PROVE ViewInv'
  BY <1>2, TryGetInv
<1>3. ASSUME NEW op \in CreatedBy(Txid), NEW psbt \in ForeignPsbts,
             TryGetForeignUnspent(op, psbt)
      PROVE  ViewInv'
  BY <1>3, TryGetForeignInv
<1>4. CASE MustSelectLargestInputs
  BY <1>4, MustSelectInv
<1>5. CASE UNCHANGED viewVars
  BY <1>5, ViewUnchangedInv DEF viewVars
<1> QED
  BY <1>1, <1>2, <1>3, <1>4, <1>5 DEF ViewNext

(* The invariant holds in every reachable state, for every ledger, any     *)
(* number of transactions per call and any number of calls.                *)
THEOREM ViewInvariance == ViewSpec => []ViewInv
<1>1. ViewInit => ViewInv
  BY ViewInitInv
<1>2. ViewInv /\ [ViewNext]_viewVars => ViewInv'
  BY ViewNextInv
<1> QED
  BY <1>1, <1>2, PTL DEF ViewSpec

(* Types: in particular statuses and spends keep no key or value that      *)
(* extract_replacements removed from txs.                                  *)
THEOREM ViewTypeCorrect == ViewSpec => []ViewTypeOK
<1>1. ViewInv => ViewTypeOK
  BY DEF ViewInv
<1> QED
  BY <1>1, ViewInvariance, PTL

(* The spends index stays exact under every sequence of extractions.       *)
THEOREM IndexStaysExact == ViewSpec => []SpendsIndexesView
<1>1. ViewInv => SpendsIndexesView
  BY DEF ViewInv
<1> QED
  BY <1>1, ViewInvariance, PTL

(* Nothing in the view ever depends on a replaced transaction.             *)
THEOREM EvictionIsClosed == ViewSpec => []NothingRestsOnEvicted
<1>1. ViewInv => NothingRestsOnEvicted
  BY DEF ViewInv
<1> QED
  BY <1>1, ViewInvariance, PTL

(* Every input of an original stays available to its replacement.          *)
THEOREM OriginalsReplaceable == ViewSpec => []OriginalsStayReplaceable
<1>1. ViewInv => OriginalsStayReplaceable
  BY DEF ViewInv
<1> QED
  BY <1>1, ViewInvariance, PTL

(* The inputs picked for a replacement conflict with each original.        *)
THEOREM MustSelectReplaces == ViewSpec => []MustReplacesEveryOriginal
<1>1. ViewInv => MustReplacesEveryOriginal
  BY DEF ViewInv
<1> QED
  BY <1>1, ViewInvariance, PTL

LEMMA MaxOfPair ==
    ASSUME NEW m \in Int, NEW n \in Int
    PROVE  Max({m, n}) \in {m, n} /\ n <= Max({m, n})
<1>1. IsFiniteSet({m} \cup {n})
  BY FS_Singleton, FS_AddElement
<1>2. {m} \cup {n} = {m, n}
  OBVIOUS
<1>3. IsFiniteSet({m, n}) /\ {m, n} \subseteq Int /\ {m, n} # {}
  BY <1>1, <1>2
<1> QED BY <1>3, MaxFacts

(* A confirmation count above 0 means a height the tip has reached. *)
LEMMA ConfirmedByTip ==
    ASSUME NEW i, i.status \in Nat, i.status # Unconfirmed, Confirmations(i) > 0
    PROVE  i.status <= TipHeight
<1> DEFINE below == Max({0, i.status - 1})
           c == Max({0, TipHeight - below})
<1>1. TipHeight \in Nat /\ c > 0
  BY CallerAssumption DEF Confirmations
<1>2. below \in {0, i.status - 1} /\ i.status - 1 <= below
  <2>1. 0 \in Int /\ i.status - 1 \in Int
    OBVIOUS
  <2> QED BY <2>1, MaxOfPair
<1> HIDE DEF below
<1>3. c \in {0, TipHeight - below}
  <2>1. 0 \in Int /\ TipHeight - below \in Int
    BY <1>1, <1>2
  <2> QED BY <2>1, MaxOfPair
<1> HIDE DEF c
<1> QED BY <1>1, <1>2, <1>3

(* Rule 2 for Inputs and RbfSets of any age: what passes was spent by an   *)
(* original and not evicted with it, or was confirmed at TipHeight when    *)
(* the Input was made and is so still, if the view still has it.           *)
THEOREM Rule2Kept == ViewSpec => []FilterKeepsRule2
<1>1. ViewInv => FilterKeepsRule2
  <2> SUFFICES ASSUME ViewInv, rbf # NoRbf, NEW i \in inputs, CandidateFilter(i)
               PROVE  LET op == i.prev_outpoint
                      IN  \/ op \in SpentBy(rbf.txs) /\ op.txid \notin replaced
                          \/ /\ i.status # Unconfirmed
                             /\ i.status <= TipHeight
                             /\ op.txid \in txs => i.status = StatusOf(op.txid)
    BY DEF FilterKeepsRule2
  <2>1. CASE i.prev_outpoint \in SpentBy(rbf.txs)
    <3>1. PICK t \in rbf.txs : i.prev_outpoint \in Inputs[t]
      BY <2>1 DEF SpentBy
    <3> QED
      BY <2>1, <3>1 DEF ViewInv, OriginalsStayReplaceable
  <2>2. CASE Confirmations(i) > 0
    <3>1. i.status # Unconfirmed
      BY <2>2 DEF Confirmations
    <3>2. i.status \in Nat
      BY <3>1, CallerAssumption DEF ViewInv, ViewTypeOK, Input
    <3>3. i.status <= TipHeight
      BY <2>2, <3>1, <3>2, ConfirmedByTip
    <3> QED
      BY <3>1, <3>3 DEF ViewInv, InputsKeepStatus
  <2> QED
    BY <2>1, <2>2 DEF CandidateFilter
<1> QED
  BY <1>1, ViewInvariance, PTL

(* Holding one more genuine Input keeps them all genuine.                  *)
LEMMA HoldGenuine ==
    ASSUME InputsAreGenuine, NEW i, Hold(i),
           i.value = ValueOf(i.prev_outpoint),
           i.is_coinbase = IsCoinbase(i.prev_outpoint.txid)
    PROVE  InputsAreGenuine'
  BY DEF InputsAreGenuine, Hold, ValueOf, IsCoinbase, NullOutPoint

(* A foreign psbt input that passes both sets of checks states the value   *)
(* and the coinbase flag of the output in the view.                        *)
LEMMA ForeignIsGenuine ==
    ASSUME NEW op, NEW psbt \in ForeignPsbts,
           ForeignCheck(op, psbt) = "Ok", FromPsbtInput(op, psbt) = "Ok"
    PROVE  /\ ClaimedValue(op, psbt) = ValueOf(op)
           /\ psbt.is_coinbase = IsCoinbase(op.txid)
<1>1. psbt \in Foreign
  BY CallerAssumption
<1>2. /\ psbt.non_witness_utxo # "other"
      /\ psbt.witness_utxo # "other"
      /\ psbt.is_coinbase = IsCoinbase(op.txid)
  BY DEF ForeignCheck
<1>3. psbt.non_witness_utxo # "none" \/ psbt.witness_utxo # "none"
  BY DEF FromPsbtInput
<1>4. psbt.non_witness_utxo = "prev" \/ psbt.witness_utxo = "prev"
  BY <1>1, <1>2, <1>3 DEF Foreign
<1> QED
  BY <1>2, <1>4 DEF ClaimedValue

(* Every Input the view ever handed out is genuine, whatever was claimed.  *)
THEOREM InputsGenuine == ViewSpec => []InputsAreGenuine
<1>1. ViewInit => InputsAreGenuine
  BY DEF ViewInit, InputsAreGenuine
<1>2. InputsAreGenuine /\ [ViewNext]_viewVars => InputsAreGenuine'
  <2> SUFFICES ASSUME InputsAreGenuine, [ViewNext]_viewVars PROVE InputsAreGenuine'
    OBVIOUS
  <2>1. CASE UNCHANGED inputs
    BY <2>1 DEF InputsAreGenuine, ValueOf, IsCoinbase, NullOutPoint
  <2>2. ASSUME NEW op \in CreatedBy(Txid), TryGetUnspent(op)
        PROVE  InputsAreGenuine'
    <3> DEFINE i == [prev_outpoint |-> op, value |-> ValueOf(op),
                     status |-> StatusOf(op.txid), is_coinbase |-> IsCoinbase(op.txid)]
    <3>1. /\ i.prev_outpoint = op /\ i.value = ValueOf(op)
          /\ i.is_coinbase = IsCoinbase(op.txid)
      OBVIOUS
    <3>2. Hold(i) \/ UNCHANGED inputs
      BY <2>2 DEF TryGetUnspent
    <3> HIDE DEF i
    <3> QED
      BY <2>1, <3>1, <3>2, HoldGenuine
  <2>3. ASSUME NEW op \in CreatedBy(Txid), NEW psbt \in ForeignPsbts,
               TryGetForeignUnspent(op, psbt)
        PROVE  InputsAreGenuine'
    <3> DEFINE i == [prev_outpoint |-> op, value |-> ClaimedValue(op, psbt),
                     status |-> StatusOf(op.txid), is_coinbase |-> psbt.is_coinbase]
    <3>1. /\ i.prev_outpoint = op /\ i.value = ClaimedValue(op, psbt)
          /\ i.is_coinbase = psbt.is_coinbase
      OBVIOUS
    <3>2. \/ UNCHANGED inputs
          \/ /\ ForeignCheck(op, psbt) = "Ok"
             /\ FromPsbtInput(op, psbt) = "Ok"
             /\ Hold(i)
      BY <2>3 DEF TryGetForeignUnspent
    <3> HIDE DEF i
    <3> QED
      BY <2>1, <3>1, <3>2, ForeignIsGenuine, HoldGenuine
  <2> QED
    BY <2>1, <2>2, <2>3
       DEF ViewNext, ExtractReplacements, ExtractOk, ExtractErr, MustSelectLargestInputs, viewVars
<1> QED
  BY <1>1, <1>2, PTL DEF ViewSpec

-----------------------------------------------------------------------------
(* CanonicalUnspents implements CanonicalView *)

(* is_unspent, written out, answers for exactly the unspent outputs of a   *)
(* set S whose spends are the domain of sp.                                *)
LEMMA UnspentsAreUnspent ==
    ASSUME NEW S, S \subseteq Txid, NEW sp, DOMAIN sp = SpentBy(S)
    PROVE  {op \in CreatedBy(S) : /\ op \notin DOMAIN sp
                                  /\ op.txid \in S
                                  /\ op.vout < Len(Outputs[op.txid])} = UnspentOutputs(S)
<1>1. ASSUME NEW op \in CreatedBy(S)
      PROVE  op.txid \in S /\ op.vout < Len(Outputs[op.txid])
  <2>1. PICK t \in S : op \in OutPointsOf(t)
    BY <1>1 DEF CreatedBy
  <2> QED
    BY <2>1, ValueIsNat
<1> QED
  BY <1>1 DEF UnspentOutputs

LEMMA UnspentsUnchanged ==
    ASSUME UNCHANGED <<txs, spends>>
    PROVE  Unspents' = Unspents
<1> QED
  BY DEF Unspents, IsUnspent, HasPrevOut, CreatedBy

(* What an extraction of R takes away *)
Gone(R) == R \cup Descendants(txs, R)

(* The outputs the evicted transactions had spent come back, theirs go. *)
LEMMA ExtractedUnspents ==
    ASSUME ViewInv, ViewInv', NEW R, ExtractOk(R)
    PROVE  /\ EvictedDescendants(R) = Descendants(txs, R)
           /\ Gone(R) \subseteq txs
           /\ txs' = txs \ Gone(R)
           /\ Unspents = UnspentOutputs(txs)
           /\ SpentBy(Gone(R)) \subseteq CreatedBy(txs)
           /\ Unspents' = (Unspents \cup SpentBy(Gone(R))) \ CreatedBy(Gone(R))
<1> DEFINE gone == R \cup Descendants(txs, R)
<1>1. /\ ViewTypeOK
      /\ Canonical(txs)
      /\ SpendsIndexesView
      /\ R \subseteq txs
  BY DEF ViewInv, ExtractOk
<1>2. EvictedDescendants(R) = Descendants(txs, R)
  BY <1>1, SearchFindsDescendants
<1>3. /\ gone \subseteq txs
      /\ \A op \in SpentBy(gone) : HasPrevOut(op)
      /\ txs' = txs \ gone
  BY <1>1, <1>2 DEF ExtractOk, Descendants
<1>4. Unspents = UnspentOutputs(txs) /\ Unspents' = UnspentOutputs(txs')
  <2>1. txs' \subseteq Txid /\ DOMAIN spends' = SpentBy(txs')
    <3>1. ViewTypeOK' /\ SpendsIndexesView'
      BY DEF ViewInv
    <3> QED
      BY <3>1 DEF ViewTypeOK, SpendsIndexesView, SpentBy
  <2>2. Unspents' = UnspentOutputs(txs')
    BY <2>1, UnspentsAreUnspent DEF Unspents, IsUnspent, HasPrevOut, CreatedBy
  <2>3. Unspents = UnspentOutputs(txs)
    BY <1>1, UnspentsAreUnspent
       DEF Unspents, IsUnspent, HasPrevOut, ViewTypeOK, SpendsIndexesView
  <2> QED
    BY <2>2, <2>3
<1> HIDE DEF gone
<1>5. ASSUME NEW op \in SpentBy(gone)
      PROVE  /\ op \in CreatedBy(txs)
             /\ op \notin SpentBy(txs')
  <2>1. PICK t \in gone : op \in Inputs[t]
    BY <1>5 DEF SpentBy
  <2>2. t \in txs /\ HasPrevOut(op) /\ op.txid \in txs
    BY <1>3, <2>1, <1>5 DEF HasPrevOut
  <2>3. op \in OutPointsOf(op.txid) /\ op # NullOutPoint
    BY <1>1, <2>1, <2>2, PrevOutIsOutput
  <2>4. \A u \in txs' : op \notin Inputs[u]
    BY <1>1, <1>3, <2>1, <2>2, <2>3 DEF Canonical
  <2> QED
    BY <2>2, <2>3, <2>4 DEF CreatedBy, SpentBy
<1>6. ASSUME NEW op
      PROVE  op \in CreatedBy(txs') <=> op \in CreatedBy(txs) /\ op \notin CreatedBy(gone)
  <2>1. ASSUME NEW t \in txs, NEW u \in txs, op \in OutPointsOf(t), op \in OutPointsOf(u)
        PROVE  t = u
    BY <1>1, <2>1, ValueIsNat DEF ViewTypeOK
  <2> QED
    BY <1>3, <2>1 DEF CreatedBy
<1>7. ASSUME NEW op
      PROVE  op \in SpentBy(txs) <=> op \in SpentBy(txs') \/ op \in SpentBy(gone)
  BY <1>3 DEF SpentBy
<1>8. Unspents' = (Unspents \cup SpentBy(gone)) \ CreatedBy(gone)
  BY <1>4, <1>5, <1>6, <1>7 DEF UnspentOutputs
<1>9. SpentBy(gone) \subseteq CreatedBy(txs)
  BY <1>5
<1> QED
  BY <1>2, <1>3, <1>4, <1>8, <1>9 DEF Gone, gone

LEMMA ExtractEvicts ==
    ASSUME ViewInv, ViewInv', NEW R, ExtractOk(R)
    PROVE  Abstract!Next
<1> DEFINE gone == R \cup Descendants(txs, R)
<1>1. /\ R \subseteq txs
      /\ txs' = txs \ gone
      /\ Unspents' = (Unspents \cup SpentBy(gone)) \ CreatedBy(gone)
      /\ SpentBy(gone) \subseteq CreatedBy(txs)
  BY ExtractedUnspents DEF ExtractOk, Gone
<1> HIDE DEF gone
<1>2. /\ Abstract!SpentBy(gone) = SpentBy(gone)
      /\ Abstract!CreatedBy(gone) = CreatedBy(gone)
      /\ Abstract!CreatedBy(txs) = CreatedBy(txs)
  BY DEF SpentBy, CreatedBy, OutPointsOf, Abstract!SpentBy, Abstract!CreatedBy,
         Abstract!OutPointsOf
<1>3. Abstract!Descendants(txs, R) = Descendants(txs, R)
  BY DEF Descendants, SpendClosed, Spenders, Abstract!Descendants,
         Abstract!SpendClosed, Abstract!Spenders
<1>4. Abstract!Evict(R)
  BY <1>1, <1>2, <1>3 DEF Abstract!Evict, gone
<1> QED
  BY <1>1, <1>4 DEF Abstract!Next

(* Every extraction is an Evict of the abstract view, every other call a   *)
(* stutter: lookups through the two maps cannot be told from a set of      *)
(* transactions with its unspent outputs.                                  *)
THEOREM Refinement == ViewSpec => ImplementsView
<1>1. ViewInit => Abstract!Init
  <2> SUFFICES ASSUME ViewInit PROVE Abstract!Init
    OBVIOUS
  <2>1. ViewTypeOK /\ SpendsIndexesView
    BY ViewInitInv DEF ViewInv
  <2>2. Unspents = UnspentOutputs(txs)
    BY <2>1, UnspentsAreUnspent
       DEF Unspents, IsUnspent, HasPrevOut, ViewTypeOK, SpendsIndexesView
  <2>3. txs \subseteq Txid /\ Canonical(txs)
    BY DEF ViewInit
  <2> QED
    BY <2>2, <2>3 DEF Abstract!Init, Abstract!Canonical, Canonical, NullOutPoint,
       Abstract!NullOutPoint, UnspentOutputs, Abstract!UnspentOutputs, CreatedBy, SpentBy,
       OutPointsOf, Abstract!CreatedBy, Abstract!SpentBy, Abstract!OutPointsOf
<1>2. ViewInv /\ ViewInv' /\ [ViewNext]_viewVars => [Abstract!Next]_(Abstract!vars)
  <2> SUFFICES ASSUME ViewInv, ViewInv', [ViewNext]_viewVars PROVE [Abstract!Next]_(Abstract!vars)
    OBVIOUS
  <2>1. ASSUME NEW R \in TxidSets, ExtractOk(R) PROVE Abstract!Next
    BY <2>1, ExtractEvicts
  <2>2. CASE UNCHANGED <<txs, spends>>
    BY <2>2, UnspentsUnchanged DEF Abstract!vars
  <2>3. ASSUME NEW R \in TxidSets, ExtractErr(R) PROVE UNCHANGED <<txs, spends>>
    BY <2>3 DEF ExtractErr
  <2>4. ASSUME NEW op \in CreatedBy(Txid), TryGetUnspent(op) PROVE UNCHANGED <<txs, spends>>
    BY <2>4 DEF TryGetUnspent
  <2>5. ASSUME NEW op \in CreatedBy(Txid), NEW psbt \in ForeignPsbts,
               TryGetForeignUnspent(op, psbt)
        PROVE  UNCHANGED <<txs, spends>>
    BY <2>5 DEF TryGetForeignUnspent
  <2>6. MustSelectLargestInputs => UNCHANGED <<txs, spends>>
    BY DEF MustSelectLargestInputs
  <2>7. UNCHANGED viewVars => UNCHANGED <<txs, spends>>
    BY DEF viewVars
  <2> QED
    BY <2>1, <2>2, <2>3, <2>4, <2>5, <2>6, <2>7 DEF ViewNext, ExtractReplacements
<1> QED
  BY <1>1, <1>2, ViewInvariance, PTL DEF ViewSpec, ImplementsView, Abstract!Spec
-----------------------------------------------------------------------------
(* Fees *)

Values == [op \in CreatedBy(Txid) |-> ValueOf(op)]

LEMMA OutputsAreFinite ==
    ASSUME NEW t \in Txid
    PROVE  IsFiniteSet(OutPointsOf(t))
<1> DEFINE I == 0 .. Len(Outputs[t]) - 1
           Out(v) == [txid |-> t, vout |-> v]
<1>1. 0 \in Int /\ Len(Outputs[t]) - 1 \in Int
  BY LedgerAssumption
<1>2. IsFiniteSet(I)
  BY <1>1, FS_Interval
<1>3. OutPointsOf(t) = {Out(v) : v \in I}
  BY DEF OutPointsOf
<1> HIDE DEF I
<1>4. IsFiniteSet({Out(v) : v \in I})
  <2> DEFINE f == [v \in I |-> Out(v)]
  <2>1. f \in Surjection(I, {Out(v) : v \in I})
    BY DEF Surjection
  <2> QED BY <1>2, <2>1, FS_Surjection
<1> QED BY <1>3, <1>4

LEMMA ValuesAreNat == \A op \in CreatedBy(Txid) : ValueOf(op) \in Nat /\ Values[op] = ValueOf(op)
BY ValueIsNat DEF CreatedBy, Values

LEMMA OutputsAreCreated ==
    ASSUME NEW S, S \subseteq Txid
    PROVE  CreatedBy(S) \subseteq CreatedBy(Txid) /\ \A t \in S : OutPointsOf(t) \subseteq CreatedBy(S)
BY DEF CreatedBy

LEMMA CreatedIsFinite == IsFiniteSet(CreatedBy(Txid))
<1> DEFINE g == [t \in Txid |-> SumFunctionOnSet(Values, OutPointsOf(t))]
           A == [t \in Txid |-> OutPointsOf(t)]
<1>1. \A t \in Txid : /\ IsFiniteSet(A[t])
                      /\ \A op \in A[t] : Values[op] \in Nat
                      /\ g[t] = SumFunctionOnSet(Values, A[t])
  BY OutputsAreFinite, OutputsAreCreated, ValuesAreNat
<1>2. \A t, u \in Txid : t # u => A[t] \cap A[u] = {}
  BY ValueIsNat
<1>3. UNION {A[t] : t \in Txid} = CreatedBy(Txid)
  BY DEF CreatedBy
<1> HIDE DEF A, g
<1>4. IsFiniteSet(Txid)
  BY LedgerAssumption
<1>5. /\ IsFiniteSet(UNION {A[t] : t \in Txid})
      /\ SumFunctionOnSet(Values, UNION {A[t] : t \in Txid}) = SumFunctionOnSet(g, Txid)
  BY <1>1, <1>2, <1>4, SumOfUnion
<1> QED BY <1>3, <1>5

(* What a set of outputs is worth *)
LEMMA SumOfValues ==
    ASSUME NEW ops, ops \subseteq CreatedBy(Txid)
    PROVE  /\ IsFiniteSet(ops) /\ \A op \in ops : Values[op] \in Nat
           /\ SumValues(ops) = SumFunctionOnSet(Values, ops)
           /\ SumValues(ops) \in Nat
<1>1. IsFiniteSet(ops) /\ \A op \in ops : Values[op] \in Nat /\ Values[op] = ValueOf(op)
  BY CreatedIsFinite, ValuesAreNat, FS_Subset
<1> DEFINE f == [op \in ops |-> ValueOf(op)]
<1>2. \A op \in ops : Values[op] \in Nat /\ f[op] = Values[op]
  BY <1>1
<1>3. SumValues(ops) = SumFunctionOnSet(f, ops)
  BY DEF SumValues, SumFunction
<1> HIDE DEF f
<1>4. SumFunctionOnSet(f, ops) = SumFunctionOnSet(Values, ops)
  BY <1>1, <1>2, SumEqual
<1>5. SumFunctionOnSet(Values, ops) \in Nat
  BY <1>1, SumRecursion
<1> QED BY <1>1, <1>3, <1>4, <1>5

(* Transactions whose inputs are all known *)
Valued(S) ==
    /\ S \subseteq Txid
    /\ \A t \in S : ~IsCoinbase(t) /\ Inputs[t] \subseteq CreatedBy(Txid)

LEMMA FeeIsNat ==
    ASSUME NEW S, Valued(S), NEW t \in S
    PROVE  /\ FeeOf(t) \in Nat
           /\ SumValues(Inputs[t]) = FeeOf(t) + SumValues(OutPointsOf(t))
           /\ SumValues(OutPointsOf(t)) \in Nat
<1>1. t \in Txid /\ ~IsCoinbase(t) /\ Inputs[t] \subseteq CreatedBy(Txid)
      /\ OutPointsOf(t) \subseteq CreatedBy(Txid)
  BY DEF Valued, CreatedBy
<1>2. SumValues(Inputs[t]) \in Nat /\ SumValues(OutPointsOf(t)) \in Nat
  BY <1>1, SumOfValues
<1>3. SumValues(Inputs[t]) >= SumValues(OutPointsOf(t))
  BY <1>1, ConsensusAssumption
<1> QED BY <1>2, <1>3 DEF FeeOf

TotalFee(S) == SumFunction([t \in S |-> FeeOf(t)])

LEMMA TotalFeeFacts ==
    ASSUME NEW S, Valued(S)
    PROVE  /\ IsFiniteSet(S) /\ TotalFee(S) \in Nat
           /\ TotalFee(S) = SumFunctionOnSet([t \in S |-> FeeOf(t)], S)
           /\ \A T \in SUBSET S : TotalFee(S) = TotalFee(T) + TotalFee(S \ T) /\ TotalFee(T) \in Nat
<1> DEFINE f == [t \in S |-> FeeOf(t)]
<1>1. IsFiniteSet(S) /\ \A t \in S : f[t] \in Nat
  BY LedgerAssumption, FS_Subset, FeeIsNat DEF Valued
<1>2. TotalFee(S) = SumFunctionOnSet(f, S)
  BY DEF TotalFee, SumFunction
<1>3. ASSUME NEW T \in SUBSET S
      PROVE  TotalFee(T) = SumFunctionOnSet(f, T) /\ TotalFee(T) \in Nat /\ IsFiniteSet(T)
  <2> DEFINE h == [t \in T |-> FeeOf(t)]
  <2>1. TotalFee(T) = SumFunctionOnSet(h, T)
    BY DEF TotalFee, SumFunction
  <2>2. IsFiniteSet(T) /\ \A t \in T : f[t] \in Nat /\ h[t] = f[t]
    BY <1>1, FS_Subset
  <2> HIDE DEF f, h
  <2>3. SumFunctionOnSet(h, T) = SumFunctionOnSet(f, T) /\ SumFunctionOnSet(f, T) \in Nat
    BY <2>2, SumEqual, SumRecursion
  <2> QED BY <2>1, <2>2, <2>3
<1>4. ASSUME NEW T \in SUBSET S
      PROVE  TotalFee(S) = TotalFee(T) + TotalFee(S \ T)
  <2> HIDE DEF f
  <2>1. S = T \cup (S \ T) /\ T \cap (S \ T) = {} /\ S \ T \in SUBSET S
    OBVIOUS
  <2>2. SumFunctionOnSet(f, T \cup (S \ T)) = SumFunctionOnSet(f, T) + SumFunctionOnSet(f, S \ T)
    BY <1>1, <1>3, <2>1, SumUnion
  <2> QED BY <1>2, <1>3, <2>1, <2>2
<1> QED BY <1>1, <1>2, <1>3, <1>4

(* Transactions without a common input pay what they take less what they make. *)
LEMMA FeesAreDifference ==
    ASSUME NEW S, Valued(S), \A t, u \in S : t # u => Inputs[t] \cap Inputs[u] = {}
    PROVE  /\ SumValues(SpentBy(S)) = TotalFee(S) + SumValues(CreatedBy(S))
           /\ SpentBy(S) \subseteq CreatedBy(Txid) /\ CreatedBy(S) \subseteq CreatedBy(Txid)
<1> DEFINE In == [t \in S |-> Inputs[t]]
           Out == [t \in S |-> OutPointsOf(t)]
           taken == [t \in S |-> SumValues(Inputs[t])]
           made == [t \in S |-> SumValues(OutPointsOf(t))]
           fee == [t \in S |-> FeeOf(t)]
<1>1. IsFiniteSet(S) /\ S \subseteq Txid /\ TotalFee(S) = SumFunctionOnSet(fee, S)
  BY TotalFeeFacts DEF Valued
<1>2. \A t \in S : Inputs[t] \subseteq CreatedBy(Txid) /\ OutPointsOf(t) \subseteq CreatedBy(Txid)
  BY DEF Valued, CreatedBy
<1>3. SpentBy(S) = UNION {In[t] : t \in S} /\ CreatedBy(S) = UNION {Out[t] : t \in S}
  BY DEF SpentBy, CreatedBy
<1>4. SpentBy(S) \subseteq CreatedBy(Txid) /\ CreatedBy(S) \subseteq CreatedBy(Txid)
  BY <1>2 DEF SpentBy, CreatedBy
<1>5. \A t \in S : /\ IsFiniteSet(In[t])
                   /\ \A op \in In[t] : Values[op] \in Nat
                   /\ taken[t] = SumFunctionOnSet(Values, In[t])
  BY <1>2, SumOfValues
<1>6. \A t \in S : /\ IsFiniteSet(Out[t])
                   /\ \A op \in Out[t] : Values[op] \in Nat
                   /\ made[t] = SumFunctionOnSet(Values, Out[t])
  BY <1>2, SumOfValues
<1>7. /\ \A t, u \in S : t # u => In[t] \cap In[u] = {}
      /\ \A t, u \in S : t # u => Out[t] \cap Out[u] = {}
  BY <1>1, ValueIsNat
<1>8. \A t \in S : fee[t] \in Nat /\ made[t] \in Nat /\ taken[t] = fee[t] + made[t]
  BY FeeIsNat
<1> HIDE DEF In, Out, taken, made, fee
<1>9. SumFunctionOnSet(Values, UNION {In[t] : t \in S}) = SumFunctionOnSet(taken, S)
  BY <1>1, <1>5, <1>7, SumOfUnion
<1>10. SumFunctionOnSet(Values, UNION {Out[t] : t \in S}) = SumFunctionOnSet(made, S)
  BY <1>1, <1>6, <1>7, SumOfUnion
<1>11. SumFunctionOnSet(taken, S) = SumFunctionOnSet(fee, S) + SumFunctionOnSet(made, S)
  BY <1>1, <1>8, SumAdd
<1>12. SumValues(SpentBy(S)) = SumFunctionOnSet(Values, SpentBy(S))
       /\ SumValues(CreatedBy(S)) = SumFunctionOnSet(Values, CreatedBy(S))
  BY <1>4, SumOfValues
<1> QED BY <1>1, <1>3, <1>4, <1>9, <1>10, <1>11, <1>12

LEMMA GoneIsValued ==
    ASSUME ViewInv, NEW R, ExtractOk(R), EvictedDescendants(R) = Descendants(txs, R)
    PROVE  /\ Valued(Gone(R))
           /\ \A t, u \in Gone(R) : t # u => Inputs[t] \cap Inputs[u] = {}
<1>1. /\ ViewTypeOK /\ Canonical(txs)
      /\ Gone(R) \subseteq txs
      /\ \A op \in SpentBy(Gone(R)) : HasPrevOut(op)
  BY DEF ViewInv, ExtractOk, Gone, Descendants
<1>2. ASSUME NEW t \in Gone(R), NEW op \in Inputs[t]
      PROVE  op # NullOutPoint /\ op \in CreatedBy(Txid)
  <2>1. HasPrevOut(op) /\ t \in txs /\ op.txid \in Txid
    BY <1>1, <1>2 DEF SpentBy, HasPrevOut, ViewTypeOK
  <2>2. op \in OutPointsOf(op.txid) /\ op # NullOutPoint
    BY <1>1, <1>2, <2>1, PrevOutIsOutput
  <2> QED BY <2>1, <2>2 DEF CreatedBy
<1>3. \A t \in Gone(R) : ~IsCoinbase(t)
  BY <1>2 DEF IsCoinbase
<1>4. Gone(R) \subseteq Txid
  BY <1>1 DEF ViewTypeOK
<1>5. \A t, u \in Gone(R) : t # u => Inputs[t] \cap Inputs[u] = {}
  BY <1>1, <1>2 DEF Canonical
<1> QED BY <1>2, <1>3, <1>4, <1>5 DEF Valued

(* What the replacement has to beat: the fees of the originals, from the    *)
(* outputs the RbfSet keeps, and of their descendants.                      *)
LEMMA BeatsGone ==
    ASSUME ViewInv, NEW R, ExtractOk(R), rbf' # rbf,
           EvictedDescendants(R) = Descendants(txs, R)
    PROVE  /\ FeeToBeat' = TotalFee(Gone(R))
           /\ \A t \in rbf'.txs : OriginalFee(t)' >= 0
           /\ \A t \in replaced' \ rbf'.txs : FeeOf(t) >= 0
<1> DEFINE desc == Descendants(txs, R)
           originals == R \ desc
           set == [txs |-> originals,
                   descendant_fee |-> TotalFee(desc),
                   prev_txouts |-> [op \in SpentBy(originals) |-> ValueOf(op)]]
<1>1. /\ rbf'.txs = originals
      /\ rbf'.descendant_fee = TotalFee(desc)
      /\ rbf'.prev_txouts = [op \in SpentBy(originals) |-> ValueOf(op)]
      /\ replaced' = Gone(R)
  <2>1. \/ rbf' = set /\ replaced' = Gone(R)
        \/ rbf' = rbf
    BY DEF ExtractOk, TotalFee, Gone
  <2>2. rbf' = set /\ replaced' = Gone(R)
    BY <2>1
  <2> QED BY <2>2
<1>2. originals = Gone(R) \ desc /\ desc \in SUBSET Gone(R)
  BY DEF Gone
<1> HIDE DEF desc, originals
<1>3. ASSUME NEW t \in originals
      PROVE  OriginalFee(t)' = FeeOf(t)
  <2>1. [op \in Inputs[t] |-> rbf'.prev_txouts[op]] = [op \in Inputs[t] |-> ValueOf(op)]
    BY <1>1 DEF SpentBy
  <2>2. OriginalFee(t)' = SumFunction([op \in Inputs[t] |-> rbf'.prev_txouts[op]]) - SumValues(OutPointsOf(t))
    BY DEF OriginalFee
  <2>3. SumValues(Inputs[t]) = SumFunction([op \in Inputs[t] |-> ValueOf(op)])
    BY DEF SumValues
  <2> QED BY <2>1, <2>2, <2>3 DEF FeeOf
<1>4. [t \in originals |-> OriginalFee(t)'] = [t \in originals |-> FeeOf(t)]
  BY <1>3
<1>5. FeeToBeat' = SumFunction([t \in originals |-> OriginalFee(t)']) + TotalFee(desc)
  BY <1>1 DEF FeeToBeat
<1>6. FeeToBeat' = TotalFee(originals) + TotalFee(desc)
  BY <1>4, <1>5 DEF TotalFee
<1>7. Valued(Gone(R))
  BY GoneIsValued
<1>8. TotalFee(Gone(R)) = TotalFee(desc) + TotalFee(originals)
      /\ TotalFee(desc) \in Nat /\ TotalFee(originals) \in Nat
  BY <1>2, <1>7, TotalFeeFacts
<1>9. \A t \in Gone(R) : FeeOf(t) >= 0
  <2> TAKE t \in Gone(R)
  <2>1. FeeOf(t) \in Nat
    BY <1>7, FeeIsNat
  <2> QED BY <2>1
<1> QED BY <1>1, <1>2, <1>3, <1>6, <1>8, <1>9

LEMMA ExtractFees ==
    ASSUME ViewInv, ViewInv', NEW R, ExtractOk(R), rbf' # rbf
    PROVE  /\ UnspentValue' - UnspentValue = FeeToBeat'
           /\ \A t \in rbf'.txs : OriginalFee(t)' >= 0
           /\ \A t \in replaced' \ rbf'.txs : FeeOf(t) >= 0
<1> DEFINE gone == Gone(R)
           taken == SpentBy(gone)
           made == CreatedBy(gone)
           after == (Unspents \cup taken) \ made
<1>1. /\ ViewTypeOK /\ Canonical(txs)
      /\ EvictedDescendants(R) = Descendants(txs, R)
      /\ gone \subseteq txs
      /\ Unspents = UnspentOutputs(txs)
      /\ taken \subseteq CreatedBy(txs)
      /\ Unspents' = after
  BY ExtractedUnspents DEF ViewInv
<1>2. Valued(gone) /\ \A t, u \in gone : t # u => Inputs[t] \cap Inputs[u] = {}
  BY <1>1, GoneIsValued
<1>3. /\ SumValues(taken) = TotalFee(gone) + SumValues(made)
      /\ taken \subseteq CreatedBy(Txid) /\ made \subseteq CreatedBy(Txid)
  <2> HIDE DEF gone
  <2> QED BY <1>2, FeesAreDifference
<1>4. TotalFee(gone) \in Nat
  <2> HIDE DEF gone
  <2> QED BY <1>2, TotalFeeFacts
<1>5. Unspents \subseteq CreatedBy(Txid) /\ Unspents \cap taken = {}
  BY <1>1 DEF UnspentOutputs, SpentBy, CreatedBy, ViewTypeOK
<1>6. made \subseteq Unspents \cup taken
  <2> SUFFICES ASSUME NEW t \in gone, NEW op \in OutPointsOf(t), op \notin Unspents
               PROVE  op \in taken
    BY DEF CreatedBy
  <2>1. t \in txs /\ t \in Txid /\ op.txid = t /\ op \in CreatedBy(txs)
    BY <1>1, ValueIsNat DEF CreatedBy, ViewTypeOK
  <2>2. PICK c \in txs : op \in Inputs[c]
    BY <1>1, <2>1 DEF UnspentOutputs, SpentBy
  <2>3. c \in Spenders(txs, t)
    BY <2>1, <2>2 DEF Spenders
  <2>4. c \in gone
    BY <2>3, DescendantsClosed DEF SpendClosed, Gone
  <2> QED BY <2>2, <2>4 DEF SpentBy
<1> HIDE DEF gone, taken, made
<1>7. SumFunctionOnSet(Values, Unspents \cup taken)
          = SumFunctionOnSet(Values, Unspents) + SumFunctionOnSet(Values, taken)
  <2>1. IsFiniteSet(Unspents) /\ IsFiniteSet(taken) /\ \A op \in Unspents \cup taken : Values[op] \in Nat
    BY <1>3, <1>5, SumOfValues
  <2> QED BY <1>5, <2>1, SumUnion
<1>8. SumFunctionOnSet(Values, after \cup made)
          = SumFunctionOnSet(Values, after) + SumFunctionOnSet(Values, made)
  <2>1. after \subseteq CreatedBy(Txid) /\ after \cap made = {}
    BY <1>3, <1>5
  <2> HIDE DEF after
  <2>2. IsFiniteSet(after) /\ IsFiniteSet(made) /\ \A op \in after \cup made : Values[op] \in Nat
    BY <1>3, <2>1, SumOfValues
  <2> QED BY <2>1, <2>2, SumUnion
<1>9. after \cup made = Unspents \cup taken /\ after \subseteq CreatedBy(Txid)
  BY <1>3, <1>5, <1>6
<1> HIDE DEF after
<1>10. /\ SumValues(Unspents) = SumFunctionOnSet(Values, Unspents) /\ SumValues(Unspents) \in Nat
       /\ SumValues(taken) = SumFunctionOnSet(Values, taken) /\ SumValues(taken) \in Nat
       /\ SumValues(made) = SumFunctionOnSet(Values, made) /\ SumValues(made) \in Nat
       /\ SumValues(after) = SumFunctionOnSet(Values, after) /\ SumValues(after) \in Nat
  BY <1>3, <1>5, <1>9, SumOfValues
<1>11. SumValues(Unspents) + SumValues(taken) = SumValues(after) + SumValues(made)
  BY <1>7, <1>8, <1>9, <1>10
<1>12. SumValues(after) - SumValues(Unspents) = TotalFee(gone)
  BY <1>3, <1>4, <1>10, <1>11
<1>13. UnspentValue = SumValues(Unspents)
  BY DEF UnspentValue
<1>14. UnspentValue' = SumValues(after)
  <2>1. UnspentValue' = SumValues(Unspents')
    BY DEF UnspentValue, SumValues, ValueOf
  <2> QED BY <1>1, <2>1
<1>15. /\ FeeToBeat' = TotalFee(gone)
       /\ \A t \in rbf'.txs : OriginalFee(t)' >= 0
       /\ \A t \in replaced' \ rbf'.txs : FeeOf(t) >= 0
  BY <1>1, BeatsGone DEF gone
<1> QED BY <1>12, <1>13, <1>14, <1>15

(* Every extraction whose RbfSet is used gives back exactly the fees the   *)
(* replacement has to beat, whatever was requested, transactions and their *)
(* descendants together included; and no unsigned subtraction of an        *)
(* original's or a descendant's fee is negative (extract_replacements,     *)
(* RbfSet::_fee).                                                          *)
THEOREM ExtractionReturnsFees == ViewSpec => FeesComeBack
<1> DEFINE Back == /\ UnspentValue' - UnspentValue = FeeToBeat'
                   /\ \A t \in rbf'.txs : OriginalFee(t)' >= 0
                   /\ \A t \in replaced' \ rbf'.txs : FeeOf(t) >= 0
<1>1. ViewInv /\ ViewInv' /\ [ViewNext]_viewVars => [rbf' # rbf => Back]_viewVars
  <2> SUFFICES ASSUME ViewInv, ViewInv', ViewNext, rbf' # rbf
               PROVE  Back
    OBVIOUS
  <2>1. ASSUME NEW op \in CreatedBy(Txid), TryGetUnspent(op) PROVE FALSE
    BY <2>1 DEF TryGetUnspent
  <2>2. ASSUME NEW op \in CreatedBy(Txid), NEW psbt \in ForeignPsbts, TryGetForeignUnspent(op, psbt)
        PROVE  FALSE
    BY <2>2 DEF TryGetForeignUnspent
  <2>3. PICK R \in TxidSets : ExtractOk(R)
    BY <2>1, <2>2 DEF ViewNext, MustSelectLargestInputs, ExtractReplacements, ExtractErr
  <2> QED BY <2>3, ExtractFees
<1> QED BY <1>1, ViewInvariance, PTL DEF ViewSpec, FeesComeBack
=============================================================================
