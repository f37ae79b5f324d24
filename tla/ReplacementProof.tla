-------------------------- MODULE ReplacementProof --------------------------
(***************************************************************************)
(* A replacement conflicts with exactly what it was told to pay for, pays  *)
(* for it, and spends no new unconfirmed output, for every ledger, wallet  *)
(* and payment.                                                            *)
(***************************************************************************)
EXTENDS Replacement, CanonicalUnspentsProof, SelectorProof

-----------------------------------------------------------------------------
(* Originals and their descendants *)

LEMMA DescendantsMonotone ==
    ASSUME NEW S, NEW Q, NEW R, Q \subseteq R
    PROVE  Descendants(S, Q) \subseteq Descendants(S, R)
<1>1. \A D : SpendClosed(S, R, D) => SpendClosed(S, Q, D)
  BY DEF SpendClosed
<1> QED BY <1>1 DEF Descendants

LEMMA DescendantHasParent ==
    ASSUME NEW S, NEW R, NEW t \in Descendants(S, R)
    PROVE  \E p \in R \cup Descendants(S, R) : t \in Spenders(S, p)
<1> DEFINE D == Descendants(S, R)
<1> SUFFICES ASSUME \A p \in R \cup D : t \notin Spenders(S, p) PROVE FALSE
  OBVIOUS
<1>1. SpendClosed(S, R, D) /\ D \subseteq S /\ t \in D
  BY DescendantsClosed DEF Descendants
<1>2. SpendClosed(S, R, D \ {t})
  BY <1>1 DEF SpendClosed
<1>3. D \ {t} \in SUBSET S
  BY <1>1
<1> QED BY <1>2, <1>3 DEF Descendants

(* A requested transaction that descends from another one is reached from  *)
(* those that do not, since nothing descends from itself.                  *)
LEMMA OriginalsReachAll ==
    ASSUME NEW S \in SUBSET Txid, NEW R \in SUBSET S
    PROVE  LET originals == R \ Descendants(S, R)
           IN  R \cup Descendants(S, R) = originals \cup Descendants(S, originals)
<1> DEFINE D == Descendants(S, R)
           originals == R \ D
           reached == originals \cup Descendants(S, originals)
           lost == (R \cup D) \ reached
<1>1. reached \subseteq R \cup D
  BY DescendantsMonotone
<1>2. \A p \in reached : Spenders(S, p) \subseteq reached
  BY DescendantsClosed DEF SpendClosed
<1>3. lost = {}
  <2> SUFFICES ASSUME lost # {} PROVE FALSE
    OBVIOUS
  <2>1. lost \in SUBSET Txid
    BY DEF Descendants
  <2> HIDE DEF lost
  <2>2. PICK t \in lost : \A op \in Inputs[t] : op.txid \notin lost
    BY <2>1, ConsensusAssumption
  <2> USE DEF lost
  <2>3. t \in D /\ t \notin reached
    BY <2>2
  <2>4. PICK p \in R \cup D : t \in Spenders(S, p)
    BY <2>3, DescendantHasParent
  <2>5. p \notin lost
    BY <2>2, <2>4 DEF Spenders
  <2>6. p \in reached
    BY <2>4, <2>5
  <2> QED BY <1>2, <2>3, <2>4, <2>6
<1> QED BY <1>1, <1>3

-----------------------------------------------------------------------------
(* The invariant *)

(* What was extracted: nothing yet, or originals with their descendants. *)
HistoryInv ==
    /\ ret = "none" => evicted = {} /\ rbf = NoRbf /\ picked = {}
    /\ rbf # NoRbf => /\ Valued(evicted)
                      /\ rbf.descendant_fee = TotalFee(evicted \ rbf.txs)
                      /\ evicted = rbf.txs \cup Descendants(Before, rbf.txs)
    /\ picked # {} => rbf # NoRbf /\ picked \subseteq SpentBy(rbf.txs)

(* What rule 2 lets through *)
Confirmed == {op \in InputId : CandidateFilter(InputOf(op))}

(* What the caller has offered: unspent outputs, first what it must spend *)
OfferInv ==
    /\ picked # {} /\ ToSet(must) = picked
    /\ \A op \in ToSet(AllInputs(must, can)) : IsUnspent(op)
    /\ request \in SelectorParams /\ request.replace = SelectorRbfParams

StageInv ==
    /\ stage = "view" => request \in Requests /\ policy = NoPolicy /\ kept = InputId
    /\ stage \in {"view", "offered"} => chosen = {} /\ selection = NoSelection /\ error = "none"
    /\ stage # "view" => CandidatesInv /\ OfferInv
    /\ stage \notin {"view", "offered"} => SelectingInv /\ kept \subseteq Confirmed

ReplacementInv == ViewInv /\ HistoryInv /\ StageInv

LEMMA ReplacementInitInv == ReplacementInit => ReplacementInv
<1> SUFFICES ASSUME ReplacementInit PROVE ReplacementInv
  OBVIOUS
<1>1. ViewInv
  BY ViewInitInv DEF ReplacementInit
<1>2. HistoryInv
  BY DEF ReplacementInit, ViewInit, HistoryInv
<1>3. StageInv
  BY DEF ReplacementInit, StageInv
<1> QED BY <1>1, <1>2, <1>3 DEF ReplacementInv

(* Steps that leave the view alone *)
LEMMA ViewStays ==
    ASSUME ViewInv, HistoryInv, UNCHANGED viewVars
    PROVE  /\ ViewInv' /\ HistoryInv'
           /\ Confirmed' = Confirmed
           /\ SelectorRbfParams' = SelectorRbfParams
           /\ \A op : IsUnspent(op)' = IsUnspent(op)
<1>1. UNCHANGED <<txs, statuses, spends, rbf, picked, inputs, ret, evicted, replaced>>
  BY DEF viewVars
<1>2. ViewInv'
  BY <1>1, ViewUnchangedInv
<1>3. HistoryInv'
  BY <1>1 DEF HistoryInv, Before
<1>4. \A op : CandidateFilter(InputOf(op))' = CandidateFilter(InputOf(op))
  BY <1>1 DEF CandidateFilter, InputOf, StatusOf, Confirmations
<1>5. Confirmed' = Confirmed
  BY <1>4 DEF Confirmed
<1>6. SelectorRbfParams' = SelectorRbfParams
  BY <1>1 DEF SelectorRbfParams, OriginalStats, OriginalFee
<1>7. \A op : IsUnspent(op)' = IsUnspent(op)
  BY <1>1 DEF IsUnspent, HasPrevOut
<1> QED BY <1>2, <1>3, <1>5, <1>6, <1>7

-----------------------------------------------------------------------------
(* The extraction *)

LEMMA FirstExtraction ==
    ASSUME ViewInv, HistoryInv, ret = "none", NEW R, ExtractOk(R)
    PROVE  HistoryInv'
<1> DEFINE desc == Descendants(txs, R)
           originals == R \ desc
           gone == Gone(R)
<1>1. evicted = {} /\ rbf = NoRbf /\ ViewTypeOK /\ Canonical(txs) /\ SpendsIndexesView /\ R \subseteq txs
  BY DEF HistoryInv, ViewInv, ExtractOk
<1>2. EvictedDescendants(R) = desc
  BY <1>1, SearchFindsDescendants
<1>3. Valued(gone)
  BY <1>2, GoneIsValued
<1>4. /\ rbf'.txs = originals
      /\ rbf'.descendant_fee = TotalFee(desc)
      /\ txs' = txs \ gone /\ evicted' = gone /\ picked' = {} /\ ret' = "Ok"
  BY <1>1, <1>2 DEF ExtractOk, TotalFee, Gone
<1>5. gone \subseteq txs /\ gone = R \cup desc
  BY <1>1 DEF Gone, Descendants
<1>6. Before' = txs
  BY <1>4, <1>5 DEF Before
<1>7. gone \ originals = desc
  BY <1>5
<1>8. gone = originals \cup Descendants(txs, originals)
  <2>1. txs \in SUBSET Txid /\ R \in SUBSET txs
    BY <1>1 DEF ViewTypeOK
  <2> QED BY <1>5, <2>1, OriginalsReachAll
<1> HIDE DEF gone, originals, desc
<1> QED BY <1>3, <1>4, <1>6, <1>7, <1>8 DEF HistoryInv

LEMMA ExtractKeepsInv ==
    ASSUME ReplacementInv, NEW R, Extract(R)
    PROVE  ReplacementInv'
<1>1. ViewInv /\ HistoryInv /\ StageInv /\ stage = "view" /\ ret = "none" /\ UNCHANGED vars
  BY DEF ReplacementInv, Extract
<1>2. ViewInv' /\ HistoryInv'
  <2>1. CASE ExtractOk(R)
    BY <1>1, <2>1, ExtractInv, FirstExtraction
  <2>2. CASE ExtractErr(R)
    <3>1. UNCHANGED <<txs, statuses, spends, rbf, picked, inputs, evicted, replaced>>
          /\ ret' # "none"
      BY <2>2 DEF ExtractErr
    <3>2. ViewInv'
      BY <1>1, <3>1, ViewUnchangedInv
    <3>3. HistoryInv'
      BY <1>1, <3>1 DEF HistoryInv, Before
    <3> QED BY <3>2, <3>3
  <2> QED BY <2>1, <2>2 DEF Extract, ExtractReplacements
<1>3. StageInv'
  BY <1>1 DEF StageInv, vars, candidates, selecting
<1> QED BY <1>2, <1>3 DEF ReplacementInv

LEMMA PickKeepsInv ==
    ASSUME ReplacementInv, PickInputs
    PROVE  ReplacementInv'
<1>1. ViewInv /\ HistoryInv /\ StageInv /\ stage = "view" /\ rbf # NoRbf
      /\ MustSelectLargestInputs /\ UNCHANGED vars
  BY DEF ReplacementInv, PickInputs
<1>2. ViewInv'
  BY <1>1, MustSelectInv
<1>3. HistoryInv'
  <2>1. UNCHANGED <<txs, rbf, evicted>> /\ ret' # "none" /\ picked' \subseteq SpentBy(rbf.txs)
    BY <1>1 DEF MustSelectLargestInputs
  <2> QED BY <1>1, <2>1 DEF HistoryInv, Before
<1>4. StageInv'
  BY <1>1 DEF StageInv, vars, candidates, selecting
<1> QED BY <1>2, <1>3, <1>4 DEF ReplacementInv

-----------------------------------------------------------------------------
(* The offer *)

(* The RbfSet of an extraction is about finitely many transactions that    *)
(* pay fees.                                                               *)
LEMMA OriginalFacts ==
    ASSUME ViewInv, HistoryInv, rbf # NoRbf
    PROVE  /\ rbf.txs \subseteq Txid /\ IsFiniteSet(rbf.txs) /\ rbf.txs \subseteq evicted
           /\ \A t \in rbf.txs : OriginalFee(t) = FeeOf(t) /\ FeeOf(t) \in Nat
           /\ rbf.descendant_fee \in Nat
           /\ TotalFee(evicted) = TotalFee(rbf.txs) + rbf.descendant_fee
           /\ TotalFee(rbf.txs) \in Nat /\ Valued(evicted)
<1>1. /\ Valued(evicted)
      /\ rbf.descendant_fee = TotalFee(evicted \ rbf.txs)
      /\ rbf.txs \in SUBSET evicted
      /\ rbf.txs \subseteq Txid
      /\ DOMAIN rbf.prev_txouts = SpentBy(rbf.txs)
      /\ \A op \in SpentBy(rbf.txs) : rbf.prev_txouts[op] = ValueOf(op)
  BY DEF HistoryInv, ViewInv, RbfIsEvicted, ViewTypeOK
<1>2. TotalFee(evicted) = TotalFee(rbf.txs) + TotalFee(evicted \ rbf.txs)
      /\ TotalFee(rbf.txs) \in Nat
  BY <1>1, TotalFeeFacts
<1>3. TotalFee(evicted \ rbf.txs) \in Nat
  <2>1. evicted \ rbf.txs \in SUBSET evicted
    OBVIOUS
  <2> QED BY <1>1, <2>1, TotalFeeFacts
<1>4. IsFiniteSet(rbf.txs)
  BY <1>1, LedgerAssumption, FS_Subset
<1>5. ASSUME NEW t \in rbf.txs
      PROVE  OriginalFee(t) = FeeOf(t) /\ FeeOf(t) \in Nat
  <2>1. [op \in Inputs[t] |-> rbf.prev_txouts[op]] = [op \in Inputs[t] |-> ValueOf(op)]
    BY <1>1 DEF SpentBy
  <2>2. FeeOf(t) \in Nat
    BY <1>1, FeeIsNat
  <2> QED BY <2>1, <2>2 DEF OriginalFee, FeeOf, SumValues
<1> QED BY <1>1, <1>2, <1>3, <1>4, <1>5

(* selector_rbf_params has the fees of all that is evicted. *)
LEMMA RbfParamsFacts ==
    ASSUME ViewInv, HistoryInv, rbf # NoRbf
    PROVE  /\ SelectorRbfParams \in RbfParams
           /\ \A r : r.replace = SelectorRbfParams => ReplacedFee(r) = TotalFee(evicted)
<1> DEFINE order == SetToSeq(rbf.txs)
           N == Cardinality(rbf.txs)
           I == 1 .. N
           stats == OriginalStats
           Stats == [fee : Nat, weight : Nat \ {0}]
           fees == [n \in DOMAIN stats |-> stats[n].fee]
           fee == [t \in rbf.txs |-> FeeOf(t)]
<1>1. /\ rbf.txs \subseteq Txid /\ IsFiniteSet(rbf.txs)
      /\ \A t \in rbf.txs : OriginalFee(t) = FeeOf(t) /\ FeeOf(t) \in Nat
      /\ rbf.descendant_fee \in Nat
      /\ TotalFee(evicted) = TotalFee(rbf.txs) + rbf.descendant_fee
  BY OriginalFacts
<1>2. /\ ToSet(order) = rbf.txs /\ IsInjective(order) /\ DOMAIN order = I
      /\ N \in Nat /\ IsFiniteSet(I)
  BY <1>1, SetToSeqFacts
<1>3. \A n \in I : order[n] \in rbf.txs
  BY <1>2 DEF ToSet
<1>4. stats = [n \in I |-> [weight |-> TxWeight[order[n]], fee |-> OriginalFee(order[n])]]
  BY <1>2 DEF OriginalStats
<1> HIDE DEF order, N, I, stats
<1>5. \A n \in I : stats[n] \in Stats /\ stats[n].fee = fee[order[n]]
  BY <1>1, <1>3, <1>4, ReplacementAssumption
<1>6. stats \in Seq(Stats)
  <2> HIDE DEF Stats
  <2>1. stats \in [1 .. N -> Stats]
    BY <1>4, <1>5 DEF I
  <2> QED BY <1>2, <2>1
<1>7. SelectorRbfParams \in RbfParams
  BY <1>1, <1>6, ReplacementAssumption DEF SelectorRbfParams, RbfParams, stats
<1>8. SumFunction(fees) = TotalFee(rbf.txs)
  <2>1. DOMAIN fees = I /\ \A n \in I : fees[n] = fee[order[n]] /\ fees[n] \in Nat
    BY <1>1, <1>3, <1>4, <1>5
  <2>2. SumFunction(fees) = SumFunctionOnSet(fees, I)
    BY <2>1 DEF SumFunction
  <2>3. TotalFee(rbf.txs) = SumFunctionOnSet(fee, rbf.txs)
    BY DEF TotalFee, SumFunction
  <2>4. \A n, m \in I : order[n] = order[m] => n = m
    BY <1>2 DEF IsInjective
  <2>5. {order[n] : n \in I} = rbf.txs
    BY <1>2 DEF ToSet
  <2> HIDE DEF fees, fee
  <2>6. SumFunctionOnSet(fee, {order[n] : n \in I}) = SumFunctionOnSet(fees, I)
    BY <1>2, <2>1, <2>4, SumReindex
  <2> QED BY <2>2, <2>3, <2>5, <2>6
<1>9. ASSUME NEW r, r.replace = SelectorRbfParams
      PROVE  ReplacedFee(r) = TotalFee(evicted)
  <2>1. r.replace.original_txs = stats /\ r.replace.descendant_fee = rbf.descendant_fee
    BY <1>9 DEF SelectorRbfParams, stats
  <2>2. ReplacedFee(r) = SumFunction(fees) + rbf.descendant_fee
    BY <2>1 DEF ReplacedFee
  <2> QED BY <1>1, <1>8, <2>2
<1> QED BY <1>7, <1>9

(* An input is its own outpoint. *)
LEMMA OutpointsAreInputs ==
    ASSUME NEW s \in Seq(InputId)
    PROVE  OutpointsOf(s) = ToSet(s) /\ Keys(PrevOutpoint, s) = ToSet(s) /\ ToSet(s) \subseteq InputId
<1>1. ToSet(s) \subseteq InputId
  BY LenProperties, ElementOfSeq DEF ToSet
<1>2. \A i \in InputId : PrevOutpoint[i] = i
  BY ReplacementAssumption
<1> QED BY <1>1, <1>2 DEF OutpointsOf, Keys

LEMMA NewInNextState == AreNew' => CandidatesInv'
BY NewCandidatesInv, PTL

LEMMA OfferKeepsInv ==
    ASSUME ReplacementInv, Offer
    PROVE  ReplacementInv'
<1> DEFINE mine == {op \in Mine : IsUnspent(op)}
           offer == [must |-> SetToSeq(Required), can |-> SetToSeq(mine)]
           first == FirstBy(PrevOutpoint, offer.must, {})
           rest == FirstBy(PrevOutpoint, offer.can, OutpointsOf(first))
<1>1. /\ ViewInv /\ HistoryInv /\ StageInv
      /\ stage = "view" /\ picked # {}
      /\ \A op \in picked : op \in Mine /\ IsUnspent(op)
      /\ UNCHANGED <<viewVars, policy, kept, steps, chosen, selection, error>>
      /\ stage' = "offered"
      /\ request' = [request EXCEPT !.replace = SelectorRbfParams]
  BY DEF ReplacementInv, Offer
<1>2. /\ must' = NewFrom(offer).must /\ can' = NewFrom(offer).can
      /\ cs' = BuildCs(must', can') /\ contains' = NewFrom(offer).contains
  BY DEF Offer
<1>3. ViewInv' /\ HistoryInv' /\ SelectorRbfParams' = SelectorRbfParams
      /\ \A op : IsUnspent(op)' = IsUnspent(op)
  BY <1>1, ViewStays
<1>4. rbf # NoRbf
  BY <1>1 DEF HistoryInv
<1>5. IsFiniteSet(InputId) /\ Mine \subseteq InputId
  BY CreatedIsFinite, ReplacementAssumption
<1>6. IsFiniteSet(picked) /\ IsFiniteSet(mine) /\ picked \subseteq InputId /\ mine \subseteq InputId
  <2>1. picked \subseteq InputId /\ mine \subseteq InputId
    BY <1>1, <1>5
  <2> HIDE DEF mine
  <2> QED BY <1>5, <2>1, FS_Subset
<1>7. /\ offer.must \in Seq(InputId) /\ ToSet(offer.must) = picked
      /\ offer.can \in Seq(InputId) /\ ToSet(offer.can) = mine
  <2>1. SetToSeq(picked) \in Seq(picked) /\ ToSet(SetToSeq(picked)) = picked
    BY <1>6, SetToSeqFacts
  <2>2. SetToSeq(mine) \in Seq(mine) /\ ToSet(SetToSeq(mine)) = mine
    <3> HIDE DEF mine
    <3> QED BY <1>6, SetToSeqFacts
  <2>3. \A S : S \subseteq InputId => Seq(S) \subseteq Seq(InputId)
    OBVIOUS
  <2> HIDE DEF mine
  <2> QED BY <1>6, <2>1, <2>2, <2>3 DEF Required
<1>8. AreNew'
  <2>1. policy' = NoPolicy /\ kept' = InputId
    BY <1>1 DEF StageInv
  <2>2. offer \in [must : Seq(InputId), can : Seq(InputId)]
    BY <1>7
  <2> HIDE DEF offer
  <2> QED BY <1>2, <2>1, <2>2 DEF AreNew, NewFrom
<1>9. CandidatesInv'
  BY <1>8, NewInNextState
<1>10. must' = first /\ contains' = OutpointsOf(first \o rest)
  BY <1>2 DEF NewFrom
<1> HIDE DEF offer, mine
<1>11. first \in Seq(InputId) /\ ToSet(first) = picked
  <2>1. offer.must \in Seq(InputId)
    BY <1>7
  <2>2. \A taken : /\ FirstBy(PrevOutpoint, offer.must, taken) \in Seq(InputId)
                   /\ Keys(PrevOutpoint, FirstBy(PrevOutpoint, offer.must, taken))
                          = Keys(PrevOutpoint, offer.must) \ taken
    BY <2>1, FirstByFacts
  <2>3. first \in Seq(InputId) /\ Keys(PrevOutpoint, first) = Keys(PrevOutpoint, offer.must) \ {}
    BY <2>2, Zenon
  <2> HIDE DEF first
  <2> QED BY <1>7, <2>3, OutpointsAreInputs
<1>12. rest \in Seq(InputId) /\ ToSet(rest) \subseteq mine
  BY <1>7, FirstByFacts
<1> HIDE DEF first, rest
<1>13. \A op \in ToSet(AllInputs(must', can')) : IsUnspent(op)
  <2>1. must' \in Seq(InputId) /\ can' \in Seq(Seq(InputId)) /\ contains' = OutpointsOf(AllInputs(must', can'))
    BY <1>9 DEF CandidatesInv, GroupsInv, CacheInv
  <2>2. AllInputs(must', can') \in Seq(InputId)
    BY <2>1, GroupsOfRange
  <2>3. ToSet(AllInputs(must', can')) = contains'
    BY <2>1, <2>2, OutpointsAreInputs
  <2>4. first \o rest \in Seq(InputId) /\ ToSet(first \o rest) = ToSet(first) \cup ToSet(rest)
    BY <1>11, <1>12, ToSetConcat, ConcatProperties
  <2>5. contains' = ToSet(first) \cup ToSet(rest)
    BY <1>10, <2>4, OutpointsAreInputs
  <2> QED BY <1>1, <1>11, <1>12, <2>3, <2>5 DEF mine
<1>14. request' \in SelectorParams /\ request'.replace = SelectorRbfParams
  <2>1. request \in SelectorParams
    BY <1>1, SelectorAssumption DEF StageInv
  <2>2. SelectorRbfParams \in RbfParams
    BY <1>1, <1>4, RbfParamsFacts
  <2> QED BY <1>1, <2>1, <2>2 DEF SelectorParams
<1>15. OfferInv'
  <2>1. picked' = picked
    BY <1>1 DEF viewVars
  <2> QED BY <1>1, <1>3, <1>10, <1>11, <1>13, <1>14, <2>1 DEF OfferInv
<1>16. StageInv'
  BY <1>1, <1>9, <1>15 DEF StageInv
<1> QED BY <1>3, <1>16 DEF ReplacementInv

-----------------------------------------------------------------------------
(* Coin selection *)

LEMMA FilterKeepsInv ==
    ASSUME ReplacementInv, FilterCandidates
    PROVE  ReplacementInv'
<1>1. /\ ViewInv /\ HistoryInv /\ StageInv
      /\ stage = "offered" /\ stage' = "candidates"
      /\ FilterInputs(Confirmed)
      /\ UNCHANGED <<viewVars, request, chosen, selection, error>>
  BY DEF ReplacementInv, FilterCandidates, Confirmed
<1>2. CandidatesInv /\ OfferInv /\ chosen = {} /\ selection = NoSelection /\ error = "none"
  BY <1>1 DEF StageInv
<1>3. /\ ViewInv' /\ HistoryInv' /\ SelectorRbfParams' = SelectorRbfParams
      /\ Confirmed' = Confirmed
      /\ \A op : IsUnspent(op)' = IsUnspent(op)
  BY <1>1, ViewStays
<1>4. /\ CandidatesInv' /\ must' = must
      /\ ToSet(AllInputs(must', can')) \subseteq ToSet(AllInputs(must, can))
  BY <1>1, <1>2, FilterInv
<1>5. kept' \subseteq Confirmed'
  BY <1>1, <1>3 DEF FilterInputs
<1>6. OfferInv'
  <2>1. picked' = picked /\ request' = request
    BY <1>1 DEF viewVars
  <2> QED BY <1>2, <1>3, <1>4, <2>1 DEF OfferInv
<1>7. SelectingInv'
  <2>1. request' \in SelectorParams
    BY <1>6 DEF OfferInv
  <2> QED BY <1>1, <1>2, <2>1 DEF SelectingInv
<1>8. StageInv'
  BY <1>1, <1>4, <1>5, <1>6, <1>7 DEF StageInv
<1> QED BY <1>3, <1>8 DEF ReplacementInv

LEMMA SelectorKeepsInv ==
    ASSUME ReplacementInv, stage \notin {"view", "offered"}, UNCHANGED viewVars,
           NewSelector \/ (\E k \in DOMAIN cs : Select(k)) \/ TryFinalize
    PROVE  ReplacementInv'
<1>1. ViewInv /\ HistoryInv /\ StageInv
  BY DEF ReplacementInv
<1>2. CandidatesInv /\ OfferInv /\ SelectingInv /\ kept \subseteq Confirmed
  BY <1>1 DEF StageInv
<1>3. /\ ViewInv' /\ HistoryInv' /\ SelectorRbfParams' = SelectorRbfParams
      /\ Confirmed' = Confirmed
      /\ \A op : IsUnspent(op)' = IsUnspent(op)
  BY <1>1, ViewStays
<1>4. CandidatesInv' /\ SelectingInv'
  <2>1. Next
    BY DEF Next
  <2>2. IInv
    BY <1>2 DEF IInv
  <2>3. IInv'
    BY <2>1, <2>2, NextInv
  <2> QED BY <2>3 DEF IInv
<1>5. must' = must /\ can' = can /\ kept' = kept /\ request' = request /\ picked' = picked
  BY DEF NewSelector, Select, TryFinalize, candidates, viewVars
<1>6. OfferInv'
  BY <1>2, <1>3, <1>5 DEF OfferInv
<1>7. stage' \notin {"view", "offered"}
  BY <1>4 DEF SelectingInv
<1>8. StageInv'
  BY <1>2, <1>3, <1>4, <1>5, <1>6, <1>7 DEF StageInv
<1> QED BY <1>3, <1>8 DEF ReplacementInv

LEMMA ReplacementNextInv ==
    ReplacementInv /\ [ReplacementNext]_replacementVars => ReplacementInv'
<1> SUFFICES ASSUME ReplacementInv, [ReplacementNext]_replacementVars PROVE ReplacementInv'
  OBVIOUS
<1>1. CASE \E R \in TxidSets : Extract(R)
  BY <1>1, ExtractKeepsInv
<1>2. CASE PickInputs
  BY <1>2, PickKeepsInv
<1>3. CASE Offer
  BY <1>3, OfferKeepsInv
<1>4. CASE FilterCandidates
  BY <1>4, FilterKeepsInv
<1>5. CASE (NewSelector \/ (\E k \in DOMAIN cs : Select(k)) \/ TryFinalize) /\ UNCHANGED viewVars
  <2>1. stage \notin {"view", "offered"}
    BY <1>5 DEF NewSelector, Select, TryFinalize
  <2> QED BY <1>5, <2>1, SelectorKeepsInv
<1>6. CASE UNCHANGED replacementVars
  <2>1. UNCHANGED viewVars /\ UNCHANGED vars
    BY <1>6 DEF replacementVars
  <2>2. ViewInv /\ HistoryInv /\ StageInv
    BY DEF ReplacementInv
  <2>3. /\ ViewInv' /\ HistoryInv' /\ SelectorRbfParams' = SelectorRbfParams
        /\ Confirmed' = Confirmed
        /\ \A op : IsUnspent(op)' = IsUnspent(op)
    BY <2>1, <2>2, ViewStays
  <2>4. CASE stage \in {"view", "offered"}
    <3>1. stage # "view" => CandidatesInv' /\ OfferInv'
      <4>1. picked' = picked
        BY <2>1 DEF viewVars
      <4> QED BY <2>1, <2>2, <2>3, <4>1
              DEF vars, candidates, selecting, StageInv, OfferInv, CandidatesInv, GroupsInv, CacheInv, PolicyInv
    <3> QED BY <2>1, <2>2, <2>3, <2>4, <3>1 DEF ReplacementInv, StageInv, vars, candidates, selecting
  <2>5. CASE stage \notin {"view", "offered"}
    <3>1. IInv /\ OfferInv /\ kept \subseteq Confirmed
      BY <2>2, <2>5 DEF StageInv, IInv
    <3>2. IInv'
      BY <2>1, <3>1, NextInv
    <3>3. OfferInv'
      <4>1. picked' = picked
        BY <2>1 DEF viewVars
      <4> QED BY <2>1, <2>3, <3>1, <4>1 DEF vars, candidates, selecting, OfferInv
    <3>4. stage' = stage /\ kept' = kept
      BY <2>1 DEF vars, candidates, selecting
    <3>5. StageInv'
      BY <2>3, <2>5, <3>1, <3>2, <3>3, <3>4 DEF StageInv, IInv
    <3> QED BY <2>3, <3>5 DEF ReplacementInv
  <2> QED BY <2>4, <2>5
<1> QED BY <1>1, <1>2, <1>3, <1>4, <1>5, <1>6 DEF ReplacementNext

(* The view, the RbfSet, the inputs picked from it and the candidates made *)
(* of them stay tied together through every step of rbf_candidates and of  *)
(* the selection, for every ledger, wallet and payment.                    *)
THEOREM ReplacementInvariance == ReplacementSpec => []ReplacementInv
BY ReplacementInitInv, ReplacementNextInv, PTL DEF ReplacementSpec

-----------------------------------------------------------------------------
(* What a replacement is *)

(* A replacement has been selected among what was offered. *)
LEMMA MadeFacts ==
    ASSUME ReplacementInv, Selected
    PROVE  /\ ViewInv /\ HistoryInv /\ IInv /\ OfferInv
           /\ kept \subseteq Confirmed
           /\ rbf # NoRbf /\ picked \subseteq SpentBy(rbf.txs)
           /\ selection.inputs \in Seq(InputId) /\ Spent \subseteq InputId
           /\ picked \subseteq Spent
           /\ Spent \subseteq kept \cup picked
           /\ \A op \in Spent : IsUnspent(op)
<1>1. ViewInv /\ HistoryInv /\ IInv /\ OfferInv /\ kept \subseteq Confirmed
  BY DEF ReplacementInv, StageInv, Selected, IInv
<1>2. rbf # NoRbf /\ picked \subseteq SpentBy(rbf.txs) /\ ToSet(must) = picked
  BY <1>1 DEF HistoryInv, OfferInv
<1>3. picked \subseteq Spent /\ Spent \subseteq kept \cup picked
  <2>1. SelectionRespectsGroups
    BY <1>1, InvRespectsGroups
  <2> QED BY <1>2, <2>1 DEF SelectionRespectsGroups, Spent
<1>4. /\ selection.inputs \in Seq(InputId)
      /\ Spent = UNION {ToSet(GroupsOf(must, can)[k]) : k \in chosen}
      /\ chosen \subseteq DOMAIN GroupsOf(must, can)
  BY <1>1, SelectionFacts DEF Spent
<1>5. Spent \subseteq InputId
  BY <1>4, OutpointsAreInputs DEF Spent
<1>6. Spent \subseteq ToSet(AllInputs(must, can))
  <2>1. must \in Seq(InputId) /\ can \in Seq(Seq(InputId))
    BY <1>1 DEF IInv, CandidatesInv, GroupsInv
  <2>2. ToSet(AllInputs(must, can)) = ToSet(must) \cup UNION {ToSet(can[k]) : k \in DOMAIN can}
    BY <2>1, GroupsOfRange
  <2>3. \A k \in DOMAIN GroupsOf(must, can) :
           \/ GroupsOf(must, can)[k] = must /\ k = 1 /\ must # <<>>
           \/ \E l \in DOMAIN can : /\ GroupsOf(must, can)[k] = can[l]
                                    /\ k = IF must = <<>> THEN l ELSE l + 1
    BY <2>1, GroupsOfRange
  <2> QED BY <1>4, <2>2, <2>3
<1> QED BY <1>1, <1>2, <1>3, <1>4, <1>5, <1>6 DEF OfferInv

(* The replacement conflicts with every original, and its conflicts and    *)
(* their descendants are what was extracted (extract_replacements,         *)
(* must_select_largest_input_of_each_original_tx, Selector).               *)
THEOREM EvictsWhatItReplaces == ReplacementSpec => []ReplacesWhatItEvicts
<1>1. ASSUME ReplacementInv PROVE ReplacesWhatItEvicts
  <2> SUFFICES ASSUME Selected
               PROVE  /\ rbf.txs \subseteq Conflicts
                      /\ Conflicts \cup Descendants(Before, Conflicts) = evicted
    BY DEF ReplacesWhatItEvicts
  <2>1. /\ ViewInv /\ HistoryInv /\ rbf # NoRbf
        /\ picked # {} /\ picked \subseteq Spent /\ \A op \in Spent : IsUnspent(op)
    BY <1>1, MadeFacts DEF OfferInv
  <2>2. /\ rbf.txs \subseteq evicted
        /\ evicted = rbf.txs \cup Descendants(Before, rbf.txs)
        /\ SpendsIndexesView /\ NothingRestsOnEvicted
        /\ \A t \in rbf.txs : \E op \in picked : op \in Inputs[t]
    BY <2>1 DEF HistoryInv, ViewInv, RbfIsEvicted, MustReplacesEveryOriginal
  <2>3. rbf.txs \subseteq Conflicts
    BY <2>1, <2>2 DEF Conflicts, Before
  <2>4. Conflicts \subseteq evicted
    BY <2>1, <2>2 DEF Conflicts, Before, IsUnspent, SpendsIndexesView, SpentBy
  <2>5. Descendants(Before, Conflicts) \subseteq evicted
    <3>1. SpendClosed(Before, Conflicts, evicted)
      BY <2>2, <2>4 DEF SpendClosed, Spenders, Before, NothingRestsOnEvicted
    <3>2. evicted \in SUBSET Before
      BY DEF Before
    <3> QED BY <3>1, <3>2 DEF Descendants
  <2>6. Descendants(Before, rbf.txs) \subseteq Descendants(Before, Conflicts)
    BY <2>3, DescendantsMonotone
  <2> QED BY <2>2, <2>3, <2>4, <2>5, <2>6
<1> QED BY <1>1, ReplacementInvariance, PTL

(* Rule 2: a replacement spends nothing unconfirmed that the originals did *)
(* not spend (candidate_filter, InputCandidates::filter).                  *)
THEOREM SpendsNothingNewUnconfirmed == ReplacementSpec => []NoNewUnconfirmedInput
<1>1. ASSUME ReplacementInv PROVE NoNewUnconfirmedInput
  <2> SUFFICES ASSUME Selected, NEW op \in Spent, op \notin SpentBy(rbf.txs)
               PROVE  op.txid \in DOMAIN statuses
    BY DEF NoNewUnconfirmedInput
  <2>1. op \in Confirmed
    BY <1>1, MadeFacts
  <2>2. InputOf(op).prev_outpoint = op /\ InputOf(op).status = StatusOf(op.txid)
    BY DEF InputOf
  <2>3. Confirmations(InputOf(op)) > 0
    BY <2>1, <2>2 DEF Confirmed, CandidateFilter
  <2>4. StatusOf(op.txid) # Unconfirmed
    BY <2>2, <2>3 DEF Confirmations
  <2> QED BY <2>4 DEF StatusOf
<1> QED BY <1>1, ReplacementInvariance, PTL

(* The fee required of a replacement *)
LEMMA RequiredOfReplacement ==
    ASSUME NEW r \in SelectorParams, r.replace # NoReplace, NEW w \in Int
    PROVE  RequiredFee(r, w) \in Int
           /\ RequiredFee(r, w) >= ReplacedFee(r) + FeeAt(r.replace.incremental, w)
           /\ FeeAt(r.replace.incremental, w) \in Int
<1> DEFINE a == FeeAt(TargetRate(r), w)
           b == ReplacedFee(r) + FeeAt(r.replace.incremental, w)
<1>1. TargetRate(r) \in Nat /\ ReplacedFee(r) \in Nat /\ r.replace.incremental \in Nat
  BY RatesAreNatural
<1>2. w \in Int /\ w <= w
  OBVIOUS
<1>3. a \in Int
  BY <1>1, <1>2, FeeMonotone
<1>4. FeeAt(r.replace.incremental, w) \in Int
  BY <1>1, <1>2, FeeMonotone
<1>5. b \in Int
  BY <1>1, <1>4
<1>6. {a} \cup {b} = {a, b}
  OBVIOUS
<1>7. RequiredFee(r, w) = MaxOf({a, b})
  BY <1>6 DEF RequiredFee
<1> HIDE DEF a, b
<1>8. MaxOf({a, b}) \in {a, b} /\ b <= MaxOf({a, b})
  BY <1>3, <1>5, MaxOfTwo
<1> QED BY <1>3, <1>4, <1>5, <1>7, <1>8 DEF b

(* Rules 3 and 4: a replacement pays the fees of everything it evicts and  *)
(* the incremental relay fee of its weight (selector_rbf_params,           *)
(* to_cs_replace, try_finalize).                                           *)
THEOREM ReplacementsPay == ReplacementSpec => []PaysForEvicted
<1>1. ASSUME ReplacementInv PROVE PaysForEvicted
  <2> SUFFICES ASSUME Selected
               PROVE  PaidFee >= SumFunction([t \in evicted |-> TrueFee(t)])
                                     + FeeAt(Incremental, ActualWeight)
    BY DEF PaysForEvicted
  <2>1. /\ ViewInv /\ HistoryInv /\ IInv /\ rbf # NoRbf
        /\ request \in SelectorParams /\ request.replace = SelectorRbfParams
        /\ Spent \subseteq InputId
    BY <1>1, MadeFacts DEF OfferInv
  <2>2. /\ SelectorRbfParams \in RbfParams
        /\ ReplacedFee(request) = TotalFee(evicted)
    BY <2>1, RbfParamsFacts
  <2>3. request.replace # NoReplace /\ request.replace.incremental = Incremental
    BY <2>1, <2>2, SelectorAssumption DEF SelectorRbfParams
  <2>4. LegacyInputs = {}
    BY <2>1, ReplacementAssumption DEF LegacyInputs, Spent
  <2> DEFINE uncounted == IF \A group \in ChosenGroups : Len(group) = 1
                          THEN 0 ELSE Cardinality(LegacyInputs)
  <2>5. uncounted = 0
    BY <2>4, FS_EmptySet
  <2>6. ActualWeight \in Int
    BY <2>1, WeightIsCounted
  <2>7. SelectionPaysItsFee
    BY <2>1, InvPaysFee
  <2>8. PaidFee >= RequiredFee(request, ActualWeight - uncounted)
    BY <2>7 DEF SelectionPaysItsFee
  <2> HIDE DEF uncounted
  <2>9. ActualWeight - uncounted = ActualWeight
    BY <2>5, <2>6
  <2>10. RequiredFee(request, ActualWeight) \in Int
         /\ RequiredFee(request, ActualWeight) >= ReplacedFee(request) + FeeAt(Incremental, ActualWeight)
         /\ FeeAt(Incremental, ActualWeight) \in Int
    BY <2>1, <2>3, <2>6, RequiredOfReplacement
  <2>11. ReplacedFee(request) = SumFunction([t \in evicted |-> TrueFee(t)])
    BY <2>2 DEF TotalFee, FeeOf, TrueFee
  <2>12. ReplacedFee(request) \in Nat /\ PaidFee \in Int
    <3>1. /\ ChosenValue = SumOver(InputValue, selection.inputs) /\ ChosenValue \in Nat
      BY <2>1, ChosenTotals
    <3>2. selection.change \in Nat
      BY <2>1, InvTypeOK DEF TypeOK
    <3>3. ReplacedFee(request) \in Nat
      BY <2>1, <2>3, RatesAreNatural
    <3> QED BY <2>1, <3>1, <3>2, <3>3 DEF PaidFee, SelectorParams
  <2> DEFINE due == RequiredFee(request, ActualWeight)
             extra == FeeAt(Incremental, ActualWeight)
             owed == ReplacedFee(request)
  <2>13. PaidFee >= due /\ due >= owed + extra
         /\ PaidFee \in Int /\ due \in Int /\ owed \in Int /\ extra \in Int
    BY <2>8, <2>9, <2>10, <2>12
  <2> HIDE DEF due, extra, owed
  <2>14. PaidFee >= owed + extra
    BY <2>13
  <2> QED BY <2>11, <2>14 DEF owed, extra
<1> QED BY <1>1, ReplacementInvariance, PTL
=============================================================================
