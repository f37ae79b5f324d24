------------------------ MODULE DescendantSearchProof ------------------------
(***************************************************************************)
(* Proofs about DescendantSearch for every ledger, view and request: the   *)
(* loop finds the descendants, all of them and nothing else.               *)
(***************************************************************************)
EXTENDS DescendantSearch, FiniteSetTheorems, TLAPS

LEMMA ElemsOfAppend ==
    ASSUME NEW S, NEW s \in Seq(S), NEW e \in S
    PROVE  Append(s, e) \in Seq(S) /\ Elems(Append(s, e)) = Elems(s) \cup {e}
<1>1. /\ Append(s, e) \in Seq(S)
      /\ DOMAIN Append(s, e) = DOMAIN s \cup {Len(s) + 1}
      /\ \A i \in DOMAIN s : Append(s, e)[i] = s[i]
      /\ Append(s, e)[Len(s) + 1] = e
  OBVIOUS
<1> QED
  BY <1>1 DEF Elems

LEMMA ElemsOfFront ==
    ASSUME NEW S, NEW s \in Seq(S), s # <<>>
    PROVE  LET front == SubSeq(s, 1, Len(s) - 1)
           IN  /\ front \in Seq(S)
               /\ s[Len(s)] \in S
               /\ Elems(s) = Elems(front) \cup {s[Len(s)]}
<1> DEFINE front == SubSeq(s, 1, Len(s) - 1)
<1>1. Len(s) \in Nat \ {0} /\ DOMAIN s = 1 .. Len(s) /\ \A i \in 1 .. Len(s) : s[i] \in S
  OBVIOUS
<1>2. /\ front \in Seq(S)
      /\ DOMAIN front = 1 .. Len(s) - 1
      /\ \A i \in 1 .. Len(s) - 1 : front[i] = s[i]
  BY <1>1
<1> HIDE DEF front
<1>3. Elems(s) = Elems(front) \cup {s[Len(s)]}
  BY <1>1, <1>2 DEF Elems
<1> QED
  BY <1>1, <1>2, <1>3 DEF front

(* Whoever spends a member of a set that is at least the requested         *)
(* transactions and their descendants is a descendant.                     *)
LEMMA ChildOfDescendant ==
    ASSUME NEW S, NEW R, NEW p \in R \cup Descendants(S, R), NEW c \in Spenders(S, p)
    PROVE  c \in Descendants(S, R)
  BY DEF Descendants, SpendClosed, Spenders

LEMMA ClosedSetHasDescendants ==
    ASSUME NEW S, NEW R, NEW D \in SUBSET S, SpendClosed(S, R, D)
    PROVE  Descendants(S, R) \subseteq D
  BY DEF Descendants

-----------------------------------------------------------------------------

LEMMA InitInv == Init => SearchInv
<1> SUFFICES ASSUME Init PROVE SearchInv
  OBVIOUS
<1>1. view \subseteq Txid /\ requested \subseteq view
  BY DEF Init
<1>2. toVisit \in Seq(requested) /\ Elems(toVisit) = requested
  <2>1. Cardinality(requested) \in Nat
    BY <1>1, LedgerAssumption, FS_Subset, FS_CardinalityType
  <2> QED
    BY <2>1 DEF Init, Orders
<1> QED
  BY <1>1, <1>2 DEF Init, SearchInv, TypeOK, Sound, NothingSkipped

LEMMA PopInv ==
    ASSUME SearchInv, Pop
    PROVE  SearchInv'
<1> DEFINE top == toVisit[Len(toVisit)]
           front == SubSeq(toVisit, 1, Len(toVisit) - 1)
<1>1. TypeOK /\ Sound /\ NothingSkipped
  BY DEF SearchInv
<1>2. /\ current = NoTxid
      /\ toVisit' = front
      /\ UNCHANGED <<view, requested, descendants>>
  BY DEF Pop, input
<1>3. front \in Seq(view) /\ top \in view /\ Elems(toVisit) = Elems(front) \cup {top}
  BY <1>1, ElemsOfFront DEF Pop, TypeOK
<1>4. top \in Txid /\ top # NoTxid /\ \A p \in visited : p # NoTxid
  BY <1>1, <1>3, LedgerAssumption DEF TypeOK
<1> HIDE DEF front
<1>5. CASE top \in visited
  <2>1. UNCHANGED <<visited, current, vout>>
    BY <1>5 DEF Pop
  <2> HIDE DEF top
  <2>2. TypeOK'
    BY <1>1, <1>2, <1>3, <2>1 DEF TypeOK
  <2>3. Sound'
    BY <1>1, <1>2, <1>3, <2>1 DEF Sound
  <2>4. NothingSkipped'
    BY <1>1, <1>2, <1>3, <1>5, <2>1 DEF NothingSkipped
  <2> QED
    BY <2>2, <2>3, <2>4 DEF SearchInv
<1>6. CASE top \notin visited
  <2>1. visited' = visited \cup {top} /\ current' = top /\ vout' = 0
    BY <1>6 DEF Pop
  <2> HIDE DEF top
  <2>2. TypeOK'
    BY <1>1, <1>2, <1>3, <2>1 DEF TypeOK
  <2>3. Sound'
    BY <1>1, <1>2, <1>3, <2>1 DEF Sound
  <2>4. \A c \in view : \A op \in Inputs[c] :
           ~(op.txid = top /\ op.vout < 0)
    <3> TAKE c \in view
    <3> TAKE op \in Inputs[c]
    <3>1. op \in OutPoint
      BY <1>1, LedgerAssumption DEF TypeOK
    <3> QED
      BY <3>1 DEF OutPoint
  <2>5. NothingSkipped'
    BY <1>1, <1>2, <1>3, <1>4, <2>1, <2>4 DEF NothingSkipped
  <2> QED
    BY <2>2, <2>3, <2>5 DEF SearchInv
<1> QED
  BY <1>5, <1>6

LEMMA LookUpInv ==
    ASSUME SearchInv, view \subseteq Txid, Canonical(view), LookUp
    PROVE  SearchInv'
<1> DEFINE here == [txid |-> current, vout |-> vout]
<1>1. TypeOK /\ Sound /\ NothingSkipped
  BY DEF SearchInv
<1>2. /\ current # NoTxid
      /\ vout' = vout + 1
      /\ UNCHANGED <<view, requested, visited, current>>
  BY DEF LookUp, input
<1>3. current \in visited /\ current \in Txid /\ vout \in Nat
  BY <1>1, <1>2 DEF TypeOK
<1>4. ASSUME NEW c \in view, NEW op \in Inputs[c], op.txid = current, op.vout < vout'
      PROVE  op.vout < vout \/ op = here
  <2>1. op \in OutPoint
    BY <1>1, <1>4, LedgerAssumption DEF TypeOK
  <2>2. op.vout \in Nat /\ op = [txid |-> op.txid, vout |-> op.vout]
    BY <2>1 DEF OutPoint
  <2> QED
    BY <1>2, <1>3, <1>4, <2>2
<1>5. CASE SpendersOf(here) = {} /\ UNCHANGED <<descendants, toVisit>>
  <2>1. TypeOK'
    BY <1>1, <1>2, <1>3, <1>5 DEF TypeOK
  <2>2. Sound'
    BY <1>1, <1>2, <1>5 DEF Sound
  <2>3. \A c \in view : here \notin Inputs[c]
    BY <1>5 DEF SpendersOf
  <2> HIDE DEF here
  <2>4. NothingSkipped'
    BY <1>1, <1>2, <1>4, <1>5, <2>3 DEF NothingSkipped
  <2> QED
    BY <2>1, <2>2, <2>4 DEF SearchInv
<1>6. ASSUME NEW child \in SpendersOf(here),
             descendants' = descendants \cup {child},
             toVisit' = Append(toVisit, child)
      PROVE  SearchInv'
  <2>1. child \in view /\ here \in Inputs[child]
    BY <1>6 DEF SpendersOf
  <2>2. toVisit' \in Seq(view) /\ Elems(toVisit)' = Elems(toVisit) \cup {child}
    <3>1. Elems(toVisit') = Elems(toVisit) \cup {child} /\ toVisit' \in Seq(view)
      BY <1>1, <1>6, <2>1, ElemsOfAppend DEF TypeOK
    <3> QED
      BY <3>1 DEF Elems
  <2>3. child \in Descendants(view, requested)
    <3>1. child \in Spenders(view, current)
      BY <2>1 DEF Spenders
    <3>2. current \in requested \cup Descendants(view, requested)
      BY <1>1, <1>3 DEF Sound
    <3> QED
      BY <3>1, <3>2, ChildOfDescendant
  <2>4. here # NullOutPoint
    BY <1>2 DEF NullOutPoint
  <2>5. \A c \in view : here \in Inputs[c] => c = child
    BY <2>1, <2>4 DEF Canonical
  <2> HIDE DEF here
  <2>6. TypeOK'
    BY <1>1, <1>2, <1>3, <1>6, <2>1, <2>2 DEF TypeOK
  <2>7. Sound'
    BY <1>1, <1>2, <1>6, <2>2, <2>3 DEF Sound
  <2>8. NothingSkipped'
    BY <1>1, <1>2, <1>4, <1>6, <2>2, <2>5 DEF NothingSkipped
  <2> QED
    BY <2>6, <2>7, <2>8 DEF SearchInv
<1> QED
  BY <1>5, <1>6 DEF LookUp

LEMMA EndOutputsInv ==
    ASSUME SearchInv, EndOutputs
    PROVE  SearchInv'
<1>1. /\ TypeOK
      /\ Sound
      /\ NothingSkipped
      /\ current # NoTxid
      /\ vout = Len(Outputs[current])
      /\ current' = NoTxid
      /\ UNCHANGED <<view, requested, toVisit, visited, descendants, vout>>
  BY DEF SearchInv, EndOutputs, input
<1>2. ASSUME NEW c \in view, NEW op \in Inputs[c], op.txid = current
      PROVE  op.vout < vout
  <2>1. current \in Txid /\ c \in Txid /\ Len(Outputs[current]) \in Nat
    BY <1>1, LedgerAssumption DEF TypeOK
  <2>2. op \in OutPointsOf(current)
    BY <1>2, <2>1, LedgerAssumption DEF NullOutPoint
  <2> QED
    BY <1>1, <2>1, <2>2 DEF OutPointsOf
<1>3. TypeOK'
  BY <1>1 DEF TypeOK
<1>4. Sound'
  BY <1>1 DEF Sound
<1>5. NothingSkipped'
  BY <1>1, <1>2 DEF NothingSkipped
<1> QED
  BY <1>3, <1>4, <1>5 DEF SearchInv

(* The view is a canonical set of transactions and does not change. *)
ViewInv == view \subseteq Txid /\ Canonical(view)

LEMMA NextInv == SearchInv /\ ViewInv /\ [Next]_vars => SearchInv' /\ ViewInv'
<1> SUFFICES ASSUME SearchInv, ViewInv, [Next]_vars PROVE SearchInv' /\ ViewInv'
  OBVIOUS
<1>1. ViewInv'
  BY DEF ViewInv, Canonical, Next, Pop, LookUp, EndOutputs, input, vars
<1>2. SearchInv'
  <2>1. CASE Pop
    BY <2>1, PopInv
  <2>2. CASE LookUp
    BY <2>2, LookUpInv DEF ViewInv
  <2>3. CASE EndOutputs
    BY <2>3, EndOutputsInv
  <2>4. CASE UNCHANGED vars
    BY <2>4 DEF vars, SearchInv, TypeOK, Sound, NothingSkipped
  <2> QED
    BY <2>1, <2>2, <2>3, <2>4 DEF Next
<1> QED
  BY <1>1, <1>2

(* The invariant of the search holds at every step of the loop. *)
THEOREM SearchInvariant == Spec => []SearchInv
<1>1. Init => SearchInv /\ ViewInv
  BY InitInv DEF Init, ViewInv
<1>2. SearchInv /\ ViewInv /\ [Next]_vars => SearchInv' /\ ViewInv'
  BY NextInv
<1> QED
  BY <1>1, <1>2, PTL DEF Spec

(* When the stack is empty the loop has exactly the descendants: nothing   *)
(* replaced is left in the view, nothing else leaves it.                   *)
THEOREM SearchIsCorrect == Spec => []FindsDescendants
<1>1. SearchInv => FindsDescendants
  <2> SUFFICES ASSUME SearchInv, Finished PROVE descendants = Descendants(view, requested)
    BY DEF FindsDescendants
  <2>1. TypeOK /\ Sound /\ NothingSkipped /\ current = NoTxid
    BY DEF SearchInv, Finished
  <2>2. requested \cup descendants \subseteq visited
    BY DEF SearchInv, NothingSkipped, Finished, Elems
  <2>3. \A p \in visited : p # current
    BY <2>1, LedgerAssumption DEF TypeOK
  <2>4. SpendClosed(view, requested, descendants)
    BY <2>1, <2>2, <2>3 DEF SpendClosed, Spenders, NothingSkipped
  <2>5. Descendants(view, requested) \subseteq descendants
    BY <2>1, <2>4, ClosedSetHasDescendants DEF TypeOK
  <2> QED
    BY <2>1, <2>5 DEF Sound
<1> QED
  BY <1>1, SearchInvariant, PTL
=============================================================================
