--------------------------- MODULE CreatePsbtProof ---------------------------
(***************************************************************************)
(* Proofs about CreatePsbt for any inputs, tips and random outcomes: the   *)
(* transaction satisfies the scripts of its inputs, and anti-fee-sniping   *)
(* keeps it out of old blocks.  Then what an InputGroup answers, for       *)
(* groups of any size and any order of the inputs: the predicates agree    *)
(* with each other, and answers are kept while blocks arrive and median    *)
(* times become known.                                                     *)
(***************************************************************************)
EXTENDS InputGroup, DataFacts

-----------------------------------------------------------------------------
LEMMA GreatestLock ==
    ASSUME NEW S, S \subseteq Locks, S # {}
    PROVE  \E l \in S : \A k \in S : k.value <= l.value
<1> DEFINE T == {MaxLock - l.value : l \in S}
<1>1. \A l \in S : l.value \in 0 .. MaxLock
  BY DEF Locks
<1>2. T \subseteq Nat /\ T # {}
  BY <1>1, LockAssumption
<1>3. PICK x \in T : \A y \in T : x <= y
  BY <1>2, LeastNatural
<1>4. PICK l \in S : x = MaxLock - l.value
  OBVIOUS
<1>5. \A k \in S : MaxLock - l.value <= MaxLock - k.value
  BY <1>3, <1>4
<1> QED
  BY <1>1, <1>5, LockAssumption

-----------------------------------------------------------------------------
(* What create_psbt may assume of its inputs *)

SequenceKeepsLocks(i) ==
    /\ i.absolute # NoLock => SequenceOf(i) # SeqMax
    /\ i.kind = "plan" /\ i.relative # NoLock => Implied(i.relative, SequenceOf(i))

InputsKeepLocks == \A n \in Selected : SequenceKeepsLocks(inputs[n])

UnitsAgree == stage = "selection" => \A l, k \in AbsoluteLocks : l.unit = k.unit

IInv == /\ TypeOK
        /\ InputsKeepLocks
        /\ UnitsAgree
        /\ ScriptsSatisfied
        /\ AfsProtects

TxType == [version : {1, 2}, lock_time : Locks, sequence : [Selected -> Sequences]]

LEMMA NoTxIsNoTransaction == NoTx \notin TxType
  BY DEF NoTx, TxType

LEMMA LocksAreSequences == Locks \subseteq Sequences /\ SeqMax \in Sequences /\ SeqMax \notin Locks
  BY DEF Locks, Sequences, SeqMax, Units

LEMMA SequenceType ==
    ASSUME NEW i \in InputType
    PROVE  SequenceOf(i) \in Sequences
<1>1. i.relative \in Locks \cup {NoLock} /\ i.sequence \in Sequences \cup {NoSequence}
  BY DEF InputType
<1> QED
  BY <1>1, LocksAreSequences DEF SequenceOf, SeqDefault, Sequences

(* accumulate_max_locktime: the result satisfies every lock, if the locks  *)
(* are of one unit as Selector::new demands.                               *)
LEMMA MaxLocktimeCovers ==
    ASSUME NEW S, S \subseteq Locks, NEW min \in Locks
    PROVE  /\ MaxLocktime(S, min) \in Locks
           /\ (\A l, k \in S : l.unit = k.unit)
                 => \A l \in S : Implied(l, MaxLocktime(S, min))
<1>1. CASE S = {}
  BY <1>1 DEF MaxLocktime
<1>2. CASE S # {}
  <2> DEFINE top == CHOOSE l \in S : \A k \in S : k.value <= l.value
  <2>1. top \in S /\ \A k \in S : k.value <= top.value
    BY <1>2, GreatestLock
  <2>2. MaxLocktime(S, min) = IF Implied(top, min) THEN min ELSE top
    BY <1>2 DEF MaxLocktime
  <2> HIDE DEF top
  <2>3. \A l \in S : l.value \in Int
    BY DEF Locks
  <2>4. min.value \in Int
    BY DEF Locks
  <2> QED
    BY <2>1, <2>2, <2>3, <2>4 DEF Implied
<1> QED
  BY <1>1, <1>2

LEMMA AbsoluteLocksType ==
    ASSUME TypeOK
    PROVE  AbsoluteLocks \subseteq Locks
  BY DEF TypeOK, AbsoluteLocks, InputType

(* The transaction before anti-fee-sniping satisfies every script. *)
LEMMA DraftIsRight ==
    ASSUME IInv, stage = "selection", NEW p \in Params
    PROVE  /\ Draft(p) \in TxType
           /\ \A n \in Selected :
                /\ Draft(p).sequence[n] = SequenceOf(inputs[n])
                /\ inputs[n].absolute # NoLock => Implied(inputs[n].absolute, Draft(p).lock_time)
<1>1. p.min_locktime \in Locks /\ p.version \in {1, 2}
  BY CreateAssumption DEF Params
<1>2. AbsoluteLocks \subseteq Locks
  BY AbsoluteLocksType DEF IInv
<1>3. /\ MaxLocktime(AbsoluteLocks, p.min_locktime) \in Locks
      /\ \A l \in AbsoluteLocks : Implied(l, MaxLocktime(AbsoluteLocks, p.min_locktime))
  BY <1>1, <1>2, MaxLocktimeCovers DEF IInv, UnitsAgree
<1>4. \A n \in Selected : SequenceOf(inputs[n]) \in Sequences
  BY SequenceType DEF IInv, TypeOK
<1>5. \A n \in Selected : inputs[n].absolute # NoLock => inputs[n].absolute \in AbsoluteLocks
  BY DEF AbsoluteLocks
<1> QED
  BY <1>1, <1>3, <1>4, <1>5 DEF Draft, TxType

-----------------------------------------------------------------------------
(* Anti-fee-sniping *)

LEMMA MaxOfTwo ==
    ASSUME NEW a \in Int, NEW b \in Int
    PROVE  /\ Max({a, b}) \in {a, b}
           /\ Max({a, b}) >= a /\ Max({a, b}) >= b
<1>1. \E x \in {a, b} : \A y \in {a, b} : x >= y
  OBVIOUS
<1> QED
  BY <1>1 DEF Max

(* By locktime: the new lock is implied by no lower one and protects. *)
LEMMA ByLocktime ==
    ASSUME NEW t \in TxType, NEW height \in 0 .. MaxLock,
           t.lock_time.unit = "blocks", NEW u \in AfsByLocktime(t, height)
    PROVE  /\ u \in TxType
           /\ u.version = t.version /\ u.sequence = t.sequence
           /\ u.lock_time.unit = "blocks"
           /\ u.lock_time.value >= t.lock_time.value
           /\ u.lock_time.value >= height - MaxRandomOffset + 1
<1>1. PICK offset \in Offsets :
          LET target == Blocks(Saturating(height - offset))
          IN  u = IF Implied(t.lock_time, target)
                  THEN [version |-> t.version, lock_time |-> target, sequence |-> t.sequence]
                  ELSE t
  BY DEF AfsByLocktime
<1>2. offset \in Int /\ 0 <= offset /\ offset <= MaxRandomOffset - 1
  BY CreateAssumption DEF Offsets
<1> DEFINE v == Saturating(height - offset)
<1>3. v \in 0 .. MaxLock /\ v >= height - MaxRandomOffset + 1
  BY <1>2, CreateAssumption, LockAssumption DEF Saturating
<1>4. t.lock_time \in Locks /\ t.lock_time.value \in 0 .. MaxLock
  BY DEF TxType, Locks
<1>5. u = IF Implied(t.lock_time, Blocks(v))
          THEN [version |-> t.version, lock_time |-> Blocks(v), sequence |-> t.sequence]
          ELSE t
  BY <1>1
<1> HIDE DEF v
<1>6. CASE t.lock_time.value <= v
  <2>1. u = [version |-> t.version, lock_time |-> Blocks(v), sequence |-> t.sequence]
    BY <1>5, <1>6 DEF Implied, Blocks
  <2>2. Blocks(v) \in Locks /\ Blocks(v).unit = "blocks" /\ Blocks(v).value = v
    BY <1>3 DEF Locks, Units, Blocks
  <2> QED
    BY <1>3, <1>6, <2>1, <2>2 DEF TxType
<1>7. CASE ~ (t.lock_time.value <= v)
  <2>1. u = t
    BY <1>5, <1>7 DEF Implied, Blocks
  <2> QED
    BY <1>3, <1>4, <1>7, <2>1, CreateAssumption, LockAssumption
<1> QED
  BY <1>6, <1>7

(* By sequence: one confirmed taproot input without relative lock gets a   *)
(* relative lock that ends at the block the offset allows.                 *)
LEMMA BySequence ==
    ASSUME TypeOK, NEW t \in TxType, NEW height \in 0 .. MaxLock,
           ~MustUseLocktime(height), NEW u \in AfsBySequence(t, height)
    PROVE  /\ u \in TxType
           /\ u.version = t.version /\ u.lock_time = t.lock_time
           /\ \E n \in TaprootInputs :
                /\ \A k \in Selected \ {n} : u.sequence[k] = t.sequence[k]
                /\ u.sequence[n] \in Locks
                /\ u.sequence[n].unit = "blocks"
                /\ inputs[n].height # 0
                /\ u.sequence[n].value >= height - inputs[n].height - MaxRandomOffset + 2
<1>1. PICK n \in TaprootInputs, offset \in Offsets :
          u = WithSequence(t, n, Blocks(Max({Confirmations(inputs[n], height) - offset, 1})))
  BY DEF AfsBySequence
<1>2. offset \in Int /\ 0 <= offset /\ offset <= MaxRandomOffset - 1
  BY CreateAssumption DEF Offsets
<1>3. n \in Selected
  BY DEF TaprootInputs
<1>4. inputs[n].height \in Nat
  BY <1>3 DEF TypeOK, InputType
<1> DEFINE c == Confirmations(inputs[n], height)
<1>5. c \in 1 .. MaxRelativeHeight
  BY <1>3 DEF MustUseLocktime
<1>6. inputs[n].height # 0 /\ c = height - inputs[n].height + 1
  BY <1>4, <1>5 DEF Confirmations, Saturating
<1> HIDE DEF c
<1> DEFINE v == Max({c - offset, 1})
<1>7. v \in {c - offset, 1} /\ v >= c - offset /\ v >= 1
  <2>1. c - offset \in Int
    BY <1>2, <1>5, CreateAssumption
  <2>2. 1 \in Int
    OBVIOUS
  <2> QED
    BY <2>1, <2>2, MaxOfTwo, Zenon
<1> HIDE DEF v
<1>8. v \in 0 .. MaxLock
  BY <1>2, <1>5, <1>7, CreateAssumption, LockAssumption
<1> DEFINE lock == Blocks(v)
<1>9. lock \in Locks /\ lock.unit = "blocks" /\ lock.value = v
  BY <1>8 DEF Locks, Units, Blocks
<1>10. u = WithSequence(t, n, lock)
  BY <1>1 DEF v, c
<1> HIDE DEF lock
<1>11. /\ u.version = t.version /\ u.lock_time = t.lock_time
       /\ u.sequence = [t.sequence EXCEPT ![n] = lock]
       /\ u \in TxType
  BY <1>3, <1>9, <1>10, LocksAreSequences DEF TxType, WithSequence
<1>12. u.sequence[n] = lock /\ \A k \in Selected \ {n} : u.sequence[k] = t.sequence[k]
  BY <1>3, <1>11 DEF TxType
<1>13. v >= height - inputs[n].height - MaxRandomOffset + 2
  BY <1>2, <1>4, <1>5, <1>6, <1>7, CreateAssumption
<1> QED
  BY <1>6, <1>9, <1>11, <1>12, <1>13

ScriptsMet(t) ==
    \A n \in Selected : /\ CltvMet(t, inputs[n], t.sequence[n])
                        /\ CsvMet(t, inputs[n], t.sequence[n])

Protected(t, height) ==
    (\E n \in Selected : t.sequence[n] # SeqMax) =>
        \A h \in 1 .. height - MaxRandomOffset + 1 : ~ValidInBlock(t, inputs, h)

LEMMA DraftScripts ==
    ASSUME IInv, stage = "selection", NEW p \in Params, Draft(p).version >= 2
    PROVE  ScriptsMet(Draft(p))
  BY DraftIsRight DEF ScriptsMet, CltvMet, CsvMet, IInv, InputsKeepLocks, SequenceKeepsLocks

(* Raising the locktime keeps every OP_CLTV satisfied and protects. *)
LEMMA LocktimePath ==
    ASSUME IInv, NEW t \in TxType, t.lock_time.unit = "blocks", ScriptsMet(t),
           NEW height \in 0 .. MaxLock, NEW u \in AfsByLocktime(t, height)
    PROVE  u \in TxType /\ ScriptsMet(u) /\ Protected(u, height)
<1>1. /\ u \in TxType
      /\ u.version = t.version /\ u.sequence = t.sequence
      /\ u.lock_time.unit = "blocks"
      /\ u.lock_time.value >= t.lock_time.value
      /\ u.lock_time.value >= height - MaxRandomOffset + 1
  BY ByLocktime
<1>2. /\ t.lock_time.value \in Int /\ u.lock_time.value \in Int
      /\ DOMAIN u.sequence = Selected
      /\ DOMAIN inputs = Selected
  BY <1>1 DEF TxType, Locks, IInv, TypeOK
<1>3. ScriptsMet(u)
  <2> SUFFICES ASSUME NEW n \in Selected
               PROVE  CltvMet(u, inputs[n], u.sequence[n]) /\ CsvMet(u, inputs[n], u.sequence[n])
    BY DEF ScriptsMet
  <2>1. CltvMet(t, inputs[n], t.sequence[n]) /\ CsvMet(t, inputs[n], t.sequence[n])
    BY DEF ScriptsMet
  <2>2. inputs[n].absolute \in Locks \cup {NoLock}
    BY DEF IInv, TypeOK, InputType
  <2>3. inputs[n].absolute # NoLock => inputs[n].absolute.value \in Int
    BY <2>2 DEF Locks
  <2>4. CltvMet(u, inputs[n], u.sequence[n])
    BY <1>1, <1>2, <2>1, <2>3 DEF CltvMet, Implied
  <2>5. CsvMet(u, inputs[n], u.sequence[n])
    BY <1>1, <2>1 DEF CsvMet
  <2> QED
    BY <2>4, <2>5
<1>4. Protected(u, height)
  <2> SUFFICES ASSUME NEW n \in Selected, u.sequence[n] # SeqMax,
                      NEW h \in 1 .. height - MaxRandomOffset + 1
               PROVE  ~Final(u, h)
    BY DEF Protected, ValidInBlock
  <2>1. h \in Int /\ h <= u.lock_time.value
    BY <1>1, <1>2, CreateAssumption
  <2> QED
    BY <1>1, <1>2, <2>1 DEF Final
<1> QED
  BY <1>1, <1>3, <1>4

(* The rewritten sequence belongs to an input without relative lock, is    *)
(* not final, and protects.                                                *)
LEMMA SequencePath ==
    ASSUME IInv, NEW t \in TxType, t.version >= 2, ScriptsMet(t),
           NEW height \in 0 .. MaxLock, ~MustUseLocktime(height),
           NEW u \in AfsBySequence(t, height)
    PROVE  u \in TxType /\ ScriptsMet(u) /\ Protected(u, height)
<1>1. TypeOK /\ DOMAIN inputs = Selected
  BY DEF IInv, TypeOK
<1>2. /\ u \in TxType
      /\ u.version = t.version /\ u.lock_time = t.lock_time
  BY <1>1, BySequence
<1>3. PICK n \in TaprootInputs :
          /\ \A k \in Selected \ {n} : u.sequence[k] = t.sequence[k]
          /\ u.sequence[n] \in Locks
          /\ u.sequence[n].unit = "blocks"
          /\ inputs[n].height # 0
          /\ u.sequence[n].value >= height - inputs[n].height - MaxRandomOffset + 2
  BY <1>1, BySequence
<1>4. n \in Selected /\ RelativeTimelock(inputs[n]) = NoLock
  BY DEF TaprootInputs
<1>5. ScriptsMet(u)
  <2> SUFFICES ASSUME NEW k \in Selected
               PROVE  CltvMet(u, inputs[k], u.sequence[k]) /\ CsvMet(u, inputs[k], u.sequence[k])
    BY DEF ScriptsMet
  <2>1. CltvMet(t, inputs[k], t.sequence[k]) /\ CsvMet(t, inputs[k], t.sequence[k])
    BY DEF ScriptsMet
  <2>2. CASE k # n
    BY <1>2, <1>3, <2>1, <2>2 DEF CltvMet, CsvMet
  <2>3. CASE k = n
    <3>1. u.sequence[k] # SeqMax
      BY <1>3, <2>3, LocksAreSequences
    <3>2. inputs[k].kind = "plan" => inputs[k].relative = NoLock
      BY <1>4, <2>3 DEF RelativeTimelock
    <3> QED
      BY <1>2, <2>1, <3>1, <3>2 DEF CltvMet, CsvMet
  <2> QED
    BY <2>2, <2>3
<1>6. Protected(u, height)
  <2> SUFFICES ASSUME NEW h \in 1 .. height - MaxRandomOffset + 1
               PROVE  ~SequenceLockMet(inputs[n], u.sequence[n], h)
    BY <1>1, <1>2, <1>4 DEF Protected, ValidInBlock
  <2>1. inputs[n].height \in Nat /\ u.sequence[n].value \in Int /\ h \in Int
    BY <1>1, <1>3, <1>4 DEF TypeOK, InputType, Locks
  <2>2. ~ (h - inputs[n].height >= u.sequence[n].value)
    BY <1>3, <2>1, CreateAssumption
  <2> QED
    BY <1>3, <2>2 DEF SequenceLockMet
<1> QED
  BY <1>2, <1>5, <1>6

(* Whatever create_psbt returns. *)
LEMMA OutcomeIsRight ==
    ASSUME IInv, stage = "selection", NEW p \in Params, CreateError(p) = "none",
           NEW u \in IF p.afs = NoAfs THEN {Draft(p)} ELSE AfsOutcomes(Draft(p), p.afs)
    PROVE  /\ u \in TxType
           /\ u.version >= 2 => ScriptsMet(u)
           /\ p.afs # NoAfs => Protected(u, p.afs)
<1>1. Draft(p) \in TxType
  BY DraftIsRight
<1>2. CASE p.afs = NoAfs
  BY <1>1, <1>2, DraftScripts
<1>3. CASE p.afs # NoAfs
  <2>1. p.afs \in 0 .. MaxLock
    BY <1>3, CreateAssumption, LockAssumption DEF Params, IInv, TypeOK
  <2>2. p.version \in {1, 2} /\ Draft(p).version = p.version
    BY DEF Params, Draft
  <2>3. p.version >= 2 /\ Draft(p).lock_time.unit = "blocks"
    BY <1>3, <2>2 DEF CreateError
  <2>4. ScriptsMet(Draft(p))
    BY <2>2, <2>3, DraftScripts
  <2>5. CASE u \in AfsByLocktime(Draft(p), p.afs)
    BY <1>1, <1>3, <2>1, <2>3, <2>4, <2>5, LocktimePath
  <2>6. CASE u \in AfsBySequence(Draft(p), p.afs) /\ ~MustUseLocktime(p.afs)
    BY <1>1, <1>3, <2>1, <2>2, <2>3, <2>4, <2>6, SequencePath
  <2> QED
    BY <1>3, <2>5, <2>6 DEF AfsOutcomes
<1> QED
  BY <1>2, <1>3

-----------------------------------------------------------------------------
(* The invariant *)

LEMMA InitInv == Init => IInv
<1> SUFFICES ASSUME Init PROVE IInv
  OBVIOUS
<1>1. \A n \in Selected : inputs[n] \in Candidates /\ inputs[n] \in InputType
  BY CreateAssumption DEF Init
<1>2. TypeOK
  <2>1. tip \in FirstTip .. MaxTip /\ seen \in FirstTip .. tip
    BY CreateAssumption DEF Init
  <2>2. inputs \in [Selected -> InputType]
    BY CreateAssumption DEF Init
  <2>3. ~Created
    BY DEF Init, Created
  <2> QED
    BY <2>1, <2>2, <2>3 DEF Init, TypeOK
<1>3. InputsKeepLocks
  <2> SUFFICES ASSUME NEW i \in Candidates PROVE SequenceKeepsLocks(i)
    BY <1>1 DEF InputsKeepLocks
  <2>1. i \in InputType
    BY CreateAssumption
  <2>2. i.relative \in Locks \cup {NoLock} /\ i.kind \in {"plan", "psbt"}
    BY <2>1 DEF InputType
  <2>3. i.relative # NoLock => i.relative # SeqMax /\ Implied(i.relative, i.relative)
    BY <2>2, LocksAreSequences DEF Implied, Locks
  <2>4. SeqDefault # SeqMax
    BY DEF SeqDefault, SeqMax
  <2> QED
    BY <2>2, <2>3, <2>4, CreateAssumption DEF SequenceKeepsLocks, SequenceOf
<1>4. UnitsAgree /\ ScriptsSatisfied /\ AfsProtects
  BY DEF Init, UnitsAgree, ScriptsSatisfied, AfsProtects, Created
<1> QED
  BY <1>2, <1>3, <1>4 DEF IInv

LEMMA Resequenced ==
    ASSUME NEW i \in InputType, NEW s \in Sequences, NEW j, j = [i EXCEPT !.sequence = s]
    PROVE  /\ j \in InputType
           /\ j.sequence = s /\ j.kind = i.kind
           /\ j.absolute = i.absolute /\ j.relative = i.relative
  BY DEF InputType

LEMMA SetSequenceInv ==
    ASSUME IInv, NEW n \in Selected, NEW s \in Overrides, SetSequence(n, s)
    PROVE  IInv'
<1>1. /\ s \in Sequences
      /\ stage # "done" /\ ~Created
      /\ UNCHANGED <<tip, stage, filtered, seen, params, tx>>
  BY CreateAssumption DEF SetSequence, IInv, TypeOK
<1>2. CASE UNCHANGED <<inputs, overridden>>
  BY <1>1, <1>2
     DEF IInv, TypeOK, InputsKeepLocks, UnitsAgree, AbsoluteLocks, ScriptsSatisfied, AfsProtects, Created
<1>3. CASE /\ SetSequenceOk(inputs[n], s)
           /\ inputs' = [inputs EXCEPT ![n].sequence = s]
           /\ overridden' = overridden \cup {n}
  <2> DEFINE j == [inputs[n] EXCEPT !.sequence = s]
  <2>1. inputs[n] \in InputType /\ inputs \in [Selected -> InputType]
    BY DEF IInv, TypeOK
  <2>2. /\ j \in InputType
        /\ j.sequence = s /\ j.kind = inputs[n].kind
        /\ j.absolute = inputs[n].absolute /\ j.relative = inputs[n].relative
    BY <1>1, <2>1, Resequenced
  <2>3. inputs' = [inputs EXCEPT ![n] = j]
    BY <1>3
  <2> HIDE DEF j
  <2>4. /\ inputs' \in [Selected -> InputType]
        /\ inputs'[n] = j
        /\ \A k \in Selected \ {n} : inputs'[k] = inputs[k]
    BY <2>1, <2>2, <2>3
  <2>5. SequenceKeepsLocks(j)
    BY <1>1, <1>3, <2>2, LockAssumption DEF SequenceKeepsLocks, SequenceOf, SetSequenceOk
  <2>6. InputsKeepLocks'
    BY <2>4, <2>5 DEF IInv, InputsKeepLocks, SequenceKeepsLocks, SequenceOf
  <2>7. AbsoluteLocks' = AbsoluteLocks
    <3>1. \A k \in Selected : inputs'[k].absolute = inputs[k].absolute
      BY <2>2, <2>4
    <3> QED
      BY <3>1 DEF AbsoluteLocks
  <2>8. TypeOK'
    BY <1>1, <1>3, <2>4 DEF IInv, TypeOK, Created
  <2>9. UnitsAgree'
    BY <1>1, <2>7 DEF IInv, UnitsAgree
  <2> QED
    BY <1>1, <2>6, <2>8, <2>9 DEF IInv, ScriptsSatisfied, AfsProtects, Created
<1> QED
  BY <1>2, <1>3 DEF SetSequence

LEMMA CreateInv ==
    ASSUME IInv, NEW p \in Params, Create(p)
    PROVE  IInv'
<1>1. /\ stage = "selection" /\ stage' = "done" /\ params' = p
      /\ error' = CreateError(p)
      /\ UNCHANGED <<tip, inputs, filtered, seen, overridden>>
  BY DEF Create
<1>2. ~Created
  BY <1>1 DEF IInv, TypeOK
<1>3. InputsKeepLocks' /\ UnitsAgree'
  BY <1>1 DEF IInv, InputsKeepLocks, UnitsAgree
<1>4. CASE CreateError(p) # "none"
  <2>1. ~Created'
    BY <1>2, <1>4 DEF Create, Created
  <2>2. TypeOK'
    BY <1>1, <2>1 DEF IInv, TypeOK
  <2> QED
    BY <1>3, <2>1, <2>2 DEF IInv, ScriptsSatisfied, AfsProtects
<1>5. CASE CreateError(p) = "none"
  <2>1. tx' \in IF p.afs = NoAfs THEN {Draft(p)} ELSE AfsOutcomes(Draft(p), p.afs)
    BY <1>5 DEF Create
  <2>2. /\ tx' \in TxType
        /\ tx'.version >= 2 => \A n \in Selected : /\ CltvMet(tx', inputs[n], tx'.sequence[n])
                                                   /\ CsvMet(tx', inputs[n], tx'.sequence[n])
        /\ p.afs # NoAfs => Protected(tx', p.afs)
    BY <1>1, <1>5, <2>1, OutcomeIsRight DEF ScriptsMet
  <2>3. TypeOK'
    BY <1>1, <1>5, <2>2 DEF IInv, TypeOK, TxType
  <2>4. ScriptsSatisfied'
    BY <1>1, <2>2 DEF ScriptsSatisfied
  <2>5. AfsProtects'
    BY <1>1, <2>2 DEF AfsProtects, Protected
  <2> QED
    BY <1>3, <2>3, <2>4, <2>5 DEF IInv
<1> QED
  BY <1>4, <1>5

LEMMA NextInv == IInv /\ [Next]_vars => IInv'
<1> SUFFICES ASSUME IInv, [Next]_vars PROVE IInv'
  OBVIOUS
<1>1. CASE NewBlock
  <2>1. /\ tip < MaxTip /\ tip' = tip + 1
        /\ UNCHANGED <<inputs, stage, filtered, seen, overridden, params, tx, error>>
    BY <1>1 DEF NewBlock
  <2>2. TypeOK'
    BY <2>1, CreateAssumption DEF IInv, TypeOK, Created
  <2> QED
    BY <2>1, <2>2
       DEF IInv, InputsKeepLocks, UnitsAgree, AbsoluteLocks, ScriptsSatisfied, AfsProtects, Created
<1>2. CASE FilterUnspendable
  <2>1. /\ filtered' = TRUE /\ seen' = tip
        /\ UNCHANGED <<tip, inputs, stage, overridden, params, tx, error>>
    BY <1>2 DEF FilterUnspendable
  <2>2. TypeOK'
    BY <2>1, CreateAssumption DEF IInv, TypeOK, Created
  <2> QED
    BY <2>1, <2>2
       DEF IInv, InputsKeepLocks, UnitsAgree, AbsoluteLocks, ScriptsSatisfied, AfsProtects, Created
<1>3. ASSUME NEW n \in Selected, NEW s \in Overrides, SetSequence(n, s) PROVE IInv'
  BY <1>3, SetSequenceInv
<1>4. CASE NewSelector
  <2>1. /\ stage = "candidates"
        /\ UNCHANGED <<tip, inputs, filtered, seen, overridden, params, tx>>
    BY <1>4 DEF NewSelector
  <2>2. ~Created /\ ~Created'
    BY <2>1 DEF IInv, TypeOK, Created
  <2>3. TypeOK'
    BY <1>4, <2>1, <2>2 DEF IInv, TypeOK, NewSelector
  <2>4. UnitsAgree'
    BY <1>4, <2>1 DEF NewSelector, UnitsAgree, AbsoluteLocks
  <2> QED
    BY <2>1, <2>2, <2>3, <2>4 DEF IInv, InputsKeepLocks, ScriptsSatisfied, AfsProtects
<1>5. ASSUME NEW p \in Params, Create(p) PROVE IInv'
  BY <1>5, CreateInv
<1>6. CASE UNCHANGED vars
  BY <1>6
     DEF vars, IInv, TypeOK, InputsKeepLocks, UnitsAgree, AbsoluteLocks, ScriptsSatisfied,
         AfsProtects, Created
<1> QED
  BY <1>1, <1>2, <1>3, <1>4, <1>5, <1>6 DEF Next

(* The strengthened invariant: the sequences of the inputs satisfy their   *)
(* scripts at every moment and their absolute locks are of one unit, which *)
(* is what create_psbt rests on.                                           *)
THEOREM Invariance == Spec => []IInv
<1>1. Init => IInv
  BY InitInv
<1>2. IInv /\ [Next]_vars => IInv'
  BY NextInv
<1> QED
  BY <1>1, <1>2, PTL DEF Spec

(* The variables keep their types; a created transaction is well-formed.   *)
THEOREM TypeCorrect == Spec => []TypeOK
<1>1. IInv => TypeOK
  BY DEF IInv
<1> QED
  BY <1>1, Invariance, PTL

(* Every created transaction satisfies the timelocks in its scripts.       *)
THEOREM ScriptsAreSatisfied == Spec => []ScriptsSatisfied
<1>1. IInv => ScriptsSatisfied
  BY DEF IInv
<1> QED
  BY <1>1, Invariance, PTL

(* Anti-fee-sniping keeps a transaction out of the blocks below its tip.   *)
THEOREM AfsKeepsOutOfOldBlocks == Spec => []AfsProtects
<1>1. IInv => AfsProtects
  BY DEF IInv
<1> QED
  BY <1>1, Invariance, PTL

-----------------------------------------------------------------------------
(* Minability: what the filter has established of the inputs stays true *)

AbsolutePassed(i, t) ==
    /\ HasUnit(i.absolute, "blocks") => i.absolute.value <= t
    /\ HasUnit(i.absolute, "time") => i.absolute.value < MTP[t]

RelativePassed(i, t) ==
    \A u \in Units : HasUnit(RelativeTimelock(i), u) /\ ~HasUnit(i.absolute, u)
                        => SequenceLockMet(i, RelativeTimelock(i), t + 1)

(* A psbt input always has its sequence. *)
Complete(i) == i.kind = "psbt" => i.sequence # NoSequence

Fresh == \A n \in Selected : /\ inputs[n].height <= tip
                             /\ Complete(inputs[n])
                             /\ n \notin overridden => inputs[n] \in Candidates

FilterHolds ==
    filtered => \A n \in Selected :
        /\ AbsolutePassed(inputs[n], tip)
        /\ Mature(inputs[n], tip + 1)
        /\ n \notin overridden => RelativePassed(inputs[n], tip)

MinableInv == Fresh /\ FilterHolds /\ FilteredIsMinable

LEMMA RelativeTimelockType ==
    ASSUME NEW i \in InputType, Complete(i)
    PROVE  RelativeTimelock(i) \in Locks \cup {NoLock}
<1>1. i.relative \in Locks \cup {NoLock} /\ i.sequence \in Sequences \cup {NoSequence}
      /\ i.kind \in {"plan", "psbt"}
  BY DEF InputType
<1> QED
  BY <1>1 DEF Complete, RelativeTimelock, Sequences, Units

(* is_spendable = Some(true) means what consensus asks for, unless one unit *)
(* has both locks.                                                          *)
LEMMA SpendableMeans ==
    ASSUME NEW i \in InputType, Complete(i), NEW t \in 0 .. MaxTip, i.height <= t,
           NEW mtpKnown \in BOOLEAN, IsSpendable(i, t, mtpKnown)
    PROVE  AbsolutePassed(i, t) /\ Mature(i, t + 1) /\ RelativePassed(i, t)
<1> DEFINE r == RelativeTimelock(i)
<1>1. /\ r \in Locks \cup {NoLock} /\ i.absolute \in Locks \cup {NoLock}
      /\ i.height \in Nat /\ t \in Nat /\ i.coinbase \in BOOLEAN
  BY RelativeTimelockType, CreateAssumption DEF InputType
<1>2. /\ ~IsImmature(i, t) /\ ~IsBlockTimelocked(i, t)
      /\ \/ ~HasUnit(i.absolute, "time") /\ ~HasUnit(r, "time")
         \/ TimeTimelocked(i, t) = "free"
  BY DEF IsSpendable, Timelocked
<1>3. MTP[t] \in Nat /\ (i.height # 0 => MTP[i.height - 1] \in Nat /\ MTP[i.height - 1] <= MTP[t])
  <2>1. t \in DOMAIN MTP /\ (i.height # 0 => i.height - 1 \in DOMAIN MTP /\ i.height - 1 <= t)
    BY <1>1, CreateAssumption
  <2> QED
    BY <2>1, LockAssumption
<1>4. Mature(i, t + 1)
  BY <1>1, <1>2, LockAssumption DEF IsImmature, Saturating, Mature
<1>5. ASSUME HasUnit(i.absolute, "blocks") PROVE i.absolute.value <= t
  <2>1. i.absolute.value \in Nat
    BY <1>1, <1>5, LockAssumption DEF HasUnit, Locks
  <2> QED
    BY <1>1, <1>2, <1>5, <2>1 DEF IsBlockTimelocked
<1>6. ASSUME HasUnit(i.absolute, "time") PROVE i.absolute.value < MTP[t]
  <2>1. i.absolute.value \in Nat
    BY <1>1, <1>6, LockAssumption DEF HasUnit, Locks
  <2> QED
    BY <1>2, <1>3, <1>6, <2>1 DEF TimeTimelocked
<1>7. ASSUME HasUnit(r, "blocks"), ~HasUnit(i.absolute, "blocks")
      PROVE  SequenceLockMet(i, r, t + 1)
  <2>1. r.value \in Nat /\ r.unit = "blocks"
    BY <1>1, <1>7, LockAssumption DEF HasUnit, Locks
  <2>2. i.height # 0 /\ r.value <= t + 1 - i.height
    BY <1>1, <1>2, <1>7, <2>1 DEF IsBlockTimelocked, Saturating
  <2> QED
    BY <1>1, <2>1, <2>2 DEF SequenceLockMet
<1>8. ASSUME HasUnit(r, "time"), ~HasUnit(i.absolute, "time")
      PROVE  SequenceLockMet(i, r, t + 1)
  <2>1. r.value \in Nat /\ r.unit = "time"
    BY <1>1, <1>8, LockAssumption DEF HasUnit, Locks
  <2> DEFINE need == r.value * Granularity
  <2>2. need \in Int
    BY <2>1, LockAssumption
  <2>3. i.height # 0 /\ ~ (need > Saturating(MTP[t] - MTP[i.height - 1]))
    BY <1>2, <1>8 DEF TimeTimelocked
  <2> HIDE DEF need
  <2>4. MTP[t] - MTP[i.height - 1] >= need
    BY <1>3, <2>2, <2>3 DEF Saturating
  <2>5. (t + 1) - 1 = t
    BY <1>1
  <2> QED
    BY <2>1, <2>3, <2>4, <2>5 DEF SequenceLockMet, need
<1>9. RelativePassed(i, t)
  BY <1>7, <1>8 DEF RelativePassed, Units
<1> QED
  BY <1>4, <1>5, <1>6, <1>9 DEF AbsolutePassed

(* Blocks only help. *)
LEMMA PassedStays ==
    ASSUME NEW i \in InputType, Complete(i), NEW t \in 0 .. MaxTip, t + 1 \in 0 .. MaxTip, i.height <= t
    PROVE  /\ AbsolutePassed(i, t) => AbsolutePassed(i, t + 1)
           /\ Mature(i, t + 1) => Mature(i, t + 2)
           /\ RelativePassed(i, t) => RelativePassed(i, t + 1)
<1>1. /\ i.height \in Nat /\ t \in Nat /\ i.absolute \in Locks \cup {NoLock}
      /\ RelativeTimelock(i) \in Locks \cup {NoLock}
  BY RelativeTimelockType, CreateAssumption DEF InputType
<1>2. /\ MTP[t] \in Nat /\ MTP[t + 1] \in Nat /\ MTP[t] <= MTP[t + 1]
      /\ i.height # 0 => MTP[i.height - 1] \in Nat
  <2>1. /\ t \in DOMAIN MTP /\ t + 1 \in DOMAIN MTP
        /\ i.height # 0 => i.height - 1 \in DOMAIN MTP
    BY <1>1, CreateAssumption
  <2> QED
    BY <1>1, <2>1, LockAssumption
<1>3. \A l \in Locks : l.value \in Nat
  BY LockAssumption DEF Locks
<1>4. AbsolutePassed(i, t) => AbsolutePassed(i, t + 1)
  BY <1>1, <1>2, <1>3 DEF AbsolutePassed, HasUnit
<1>5. Mature(i, t + 1) => Mature(i, t + 2)
  BY <1>1, LockAssumption DEF Mature
<1>6. ASSUME NEW s \in Locks, SequenceLockMet(i, s, t + 1) PROVE SequenceLockMet(i, s, (t + 1) + 1)
  <2> DEFINE need == s.value * Granularity
  <2>1. need \in Int /\ s.value \in Nat
    BY <1>3, LockAssumption
  <2>2. (t + 1) - 1 = t /\ ((t + 1) + 1) - 1 = t + 1
    BY <1>1
  <2>3. CASE i.height = 0
    <3>1. /\ s.unit = "blocks" => 0 >= s.value
          /\ s.unit = "time" => 0 >= need
      BY <1>1, <1>2, <1>6, <2>2, <2>3 DEF SequenceLockMet
    <3> HIDE DEF need
    <3>2. /\ s.unit = "blocks" => ((t + 1) + 1) - ((t + 1) + 1) >= s.value
          /\ s.unit = "time" => MTP[t + 1] - MTP[t + 1] >= need
      BY <1>1, <1>2, <2>1, <3>1
    <3> QED
      BY <2>2, <2>3, <3>2 DEF SequenceLockMet, need
  <2>4. CASE i.height # 0
    <3>1. /\ s.unit = "blocks" => (t + 1) - i.height >= s.value
          /\ s.unit = "time" => MTP[t] - MTP[i.height - 1] >= need
      BY <1>6, <2>2, <2>4 DEF SequenceLockMet
    <3> HIDE DEF need
    <3>2. /\ s.unit = "blocks" => ((t + 1) + 1) - i.height >= s.value
          /\ s.unit = "time" => MTP[t + 1] - MTP[i.height - 1] >= need
      BY <1>1, <1>2, <2>1, <2>4, <3>1
    <3> QED
      BY <2>2, <2>4, <3>2 DEF SequenceLockMet, need
  <2> QED
    BY <2>3, <2>4
<1>7. RelativePassed(i, t) => RelativePassed(i, t + 1)
  BY <1>1, <1>6 DEF RelativePassed, HasUnit
<1> QED
  BY <1>4, <1>5, <1>7

(* For the inputs the caller left alone, the sequence create_psbt takes is  *)
(* the relative lock the filter looked at.                                  *)
LEMMA SequenceIsTheLock ==
    ASSUME NEW i \in Candidates, SequenceOf(i).unit \in Units
    PROVE  RelativeTimelock(i) = SequenceOf(i) /\ RelativeTimelock(i) # NoLock
<1>1. i.relative \in Locks \cup {NoLock} /\ i.kind \in {"plan", "psbt"}
  BY CreateAssumption DEF InputType
<1>2. CASE i.kind = "plan"
  <2>1. i.sequence = NoSequence
    BY <1>2, CreateAssumption
  <2>2. i.relative # NoLock
    BY <2>1 DEF SequenceOf, SeqDefault, Units
  <2> QED
    BY <1>2, <2>1, <2>2 DEF SequenceOf, RelativeTimelock
<1>3. CASE i.kind = "psbt"
  <2>1. i.sequence # NoSequence /\ i.sequence \in Sequences
    BY <1>3, CreateAssumption DEF InputType
  <2>2. SequenceOf(i) = i.sequence
    BY <2>1 DEF SequenceOf
  <2>3. i.sequence \in Locks
    BY <2>1, <2>2 DEF Sequences, Units
  <2> QED
    BY <1>3, <2>2, <2>3, LockAssumption DEF RelativeTimelock
<1> QED
  BY <1>1, <1>2, <1>3

(* The locktime before anti-fee-sniping is the minimum or of some input.    *)
LEMMA DraftLockTime ==
    ASSUME TypeOK, NEW p \in Params
    PROVE  Draft(p).lock_time = p.min_locktime \/ Draft(p).lock_time \in AbsoluteLocks
<1>1. CASE AbsoluteLocks = {}
  BY <1>1 DEF Draft, MaxLocktime
<1>2. CASE AbsoluteLocks # {}
  <2>1. \E l \in AbsoluteLocks : \A k \in AbsoluteLocks : k.value <= l.value
    BY <1>2, AbsoluteLocksType, GreatestLock
  <2> QED
    BY <1>2, <2>1 DEF Draft, MaxLocktime
<1> QED
  BY <1>1, <1>2

Passed(lock) == IF lock.unit = "blocks" THEN lock.value <= tip ELSE lock.value < MTP[tip]

LEMMA DraftPassed ==
    ASSUME TypeOK, NEW p \in Params, Passed(p.min_locktime),
           \A n \in Selected : AbsolutePassed(inputs[n], tip)
    PROVE  Passed(Draft(p).lock_time)
<1>1. CASE Draft(p).lock_time = p.min_locktime
  BY <1>1
<1>2. CASE Draft(p).lock_time \in AbsoluteLocks
  <2>1. PICK n \in Selected : Draft(p).lock_time = inputs[n].absolute /\ inputs[n].absolute # NoLock
    BY <1>2 DEF AbsoluteLocks
  <2>2. inputs[n].absolute.unit \in Units
    BY <2>1 DEF TypeOK, InputType, Locks
  <2> QED
    BY <2>1, <2>2 DEF Passed, AbsolutePassed, HasUnit, Units
<1> QED
  BY <1>1, <1>2, DraftLockTime

(* Anti-fee-sniping never delays: neither a locktime beyond the tip ...     *)
LEMMA AfsLockTime ==
    ASSUME NEW t \in TxType, t.lock_time.unit = "blocks", t.lock_time.value <= tip,
           tip \in 0 .. MaxLock, NEW height \in 0 .. tip, NEW u \in AfsByLocktime(t, height)
    PROVE  u.lock_time.unit = "blocks" /\ u.lock_time.value <= tip /\ u.sequence = t.sequence
<1>1. PICK offset \in Offsets :
          LET target == Blocks(Saturating(height - offset))
          IN  u = IF Implied(t.lock_time, target)
                  THEN [version |-> t.version, lock_time |-> target, sequence |-> t.sequence]
                  ELSE t
  BY DEF AfsByLocktime
<1>2. offset \in Nat
  BY CreateAssumption DEF Offsets
<1>3. Saturating(height - offset) <= tip
  BY <1>2, LockAssumption DEF Saturating
<1> QED
  BY <1>1, <1>3 DEF Blocks

(* ... nor a sequence beyond the confirmations of its input.                *)
LEMMA AfsSequence ==
    ASSUME TypeOK, NEW t \in TxType, NEW height \in 0 .. MaxLock,
           ~MustUseLocktime(height), height <= tip,
           NEW u \in AfsBySequence(t, height)
    PROVE  /\ u.lock_time = t.lock_time
           /\ \A n \in Selected : \/ u.sequence[n] = t.sequence[n]
                                  \/ SequenceLockMet(inputs[n], u.sequence[n], tip + 1)
<1>1. PICK n \in TaprootInputs, offset \in Offsets :
          u = WithSequence(t, n, Blocks(Max({Confirmations(inputs[n], height) - offset, 1})))
  BY DEF AfsBySequence
<1>2. offset \in Nat
  BY CreateAssumption DEF Offsets
<1>3. n \in Selected /\ inputs[n].height \in Nat /\ tip \in Nat /\ height \in Nat /\ height <= tip
  BY CreateAssumption DEF TaprootInputs, TypeOK, InputType
<1> DEFINE c == Confirmations(inputs[n], height)
<1>4. c \in 1 .. MaxRelativeHeight
  BY <1>3 DEF MustUseLocktime
<1>5. c \in Int /\ 1 <= c
  BY <1>4, CreateAssumption
<1>6. inputs[n].height # 0 /\ c = height - inputs[n].height + 1
  BY <1>3, <1>5 DEF Confirmations, Saturating
<1> HIDE DEF c
<1> DEFINE v == Max({c - offset, 1})
<1>7. v \in {c - offset, 1}
  <2>1. c - offset \in Int /\ 1 \in Int
    BY <1>2, <1>5
  <2> QED
    BY <2>1, MaxOfTwo, Zenon
<1> HIDE DEF v
<1>8. (tip + 1) - inputs[n].height >= v
  BY <1>2, <1>3, <1>5, <1>6, <1>7
<1>9. u = WithSequence(t, n, Blocks(v))
  BY <1>1 DEF v, c
<1>10. /\ u.lock_time = t.lock_time
       /\ u.sequence[n] = Blocks(v)
       /\ \A k \in Selected \ {n} : u.sequence[k] = t.sequence[k]
  BY <1>3, <1>9 DEF WithSequence, TxType
<1>11. SequenceLockMet(inputs[n], u.sequence[n], tip + 1)
  BY <1>6, <1>8, <1>10 DEF SequenceLockMet, Blocks
<1> QED
  BY <1>10, <1>11

LEMMA CreatedIsMinable ==
    ASSUME IInv, Fresh, FilterHolds, filtered, NoLockOverridden, OneLockPerUnit,
           stage = "selection", NEW p \in Params, CreateError(p) = "none", Passed(p.min_locktime),
           NEW u \in IF p.afs = NoAfs THEN {Draft(p)} ELSE AfsOutcomes(Draft(p), p.afs)
    PROVE  ValidInBlock(u, inputs, tip + 1)
<1>1. /\ TypeOK /\ tip \in Nat /\ tip \in 0 .. MaxLock /\ (tip + 1) - 1 = tip
      /\ DOMAIN inputs = Selected
  BY CreateAssumption, LockAssumption DEF IInv, TypeOK
<1>2. Draft(p) \in TxType /\ \A n \in Selected : Draft(p).sequence[n] = SequenceOf(inputs[n])
  BY DraftIsRight
<1>3. Passed(Draft(p).lock_time)
  BY <1>1, DraftPassed DEF FilterHolds
<1>4. p.afs # NoAfs => p.afs \in 0 .. tip /\ p.afs \in 0 .. MaxLock /\ p.afs <= tip
  BY CreateAssumption, LockAssumption DEF Params, IInv, TypeOK
<1>5. p.afs # NoAfs => Draft(p).lock_time.unit = "blocks"
  BY DEF CreateError, Params, Draft
<1>6. /\ Passed(u.lock_time)
      /\ \A n \in Selected : \/ u.sequence[n] = SequenceOf(inputs[n])
                             \/ SequenceLockMet(inputs[n], u.sequence[n], tip + 1)
  <2>1. CASE p.afs = NoAfs
    BY <1>2, <1>3, <2>1
  <2>2. CASE p.afs # NoAfs /\ u \in AfsByLocktime(Draft(p), p.afs)
    <3>1. Draft(p).lock_time.value <= tip
      BY <1>3, <1>5, <2>2 DEF Passed
    <3>2. u.lock_time.unit = "blocks" /\ u.lock_time.value <= tip /\ u.sequence = Draft(p).sequence
      BY <1>1, <1>2, <1>4, <1>5, <2>2, <3>1, AfsLockTime
    <3> QED
      BY <1>2, <3>2 DEF Passed
  <2>3. CASE p.afs # NoAfs /\ ~MustUseLocktime(p.afs) /\ u \in AfsBySequence(Draft(p), p.afs)
    BY <1>1, <1>2, <1>3, <1>4, <2>3, AfsSequence
  <2> QED
    BY <2>1, <2>2, <2>3 DEF AfsOutcomes
<1>7. Final(u, tip + 1)
  <2>1. u.lock_time.unit \in Units /\ u.lock_time.value \in Nat
    <3>1. u \in TxType
      BY OutcomeIsRight
    <3> QED
      BY <3>1, LockAssumption DEF TxType, Locks
  <2> QED
    BY <1>1, <1>6, <2>1 DEF Final, Passed, Units
<1>8. ASSUME NEW n \in Selected PROVE SequenceLockMet(inputs[n], u.sequence[n], tip + 1)
  <2>1. CASE SequenceLockMet(inputs[n], u.sequence[n], tip + 1)
    BY <2>1
  <2>2. CASE u.sequence[n] = SequenceOf(inputs[n]) /\ SequenceOf(inputs[n]).unit \notin Units
    BY <2>2 DEF SequenceLockMet, Units
  <2>3. CASE u.sequence[n] = SequenceOf(inputs[n]) /\ SequenceOf(inputs[n]).unit \in Units
    <3>1. inputs[n] \in Candidates /\ RelativePassed(inputs[n], tip)
      BY <2>3 DEF NoLockOverridden, Fresh, FilterHolds
    <3>2. RelativeTimelock(inputs[n]) = SequenceOf(inputs[n]) /\ RelativeTimelock(inputs[n]) # NoLock
      BY <2>3, <3>1, SequenceIsTheLock
    <3>3. PICK unit \in Units : HasUnit(RelativeTimelock(inputs[n]), unit)
      BY <2>3, <3>2 DEF HasUnit
    <3>4. ~HasUnit(inputs[n].absolute, unit)
      BY <3>3 DEF OneLockPerUnit
    <3> QED
      BY <2>3, <3>1, <3>2, <3>3, <3>4 DEF RelativePassed
  <2> QED
    BY <1>6, <2>1, <2>2, <2>3
<1> QED
  BY <1>1, <1>7, <1>8 DEF ValidInBlock, FilterHolds

LEMMA InitMinable == Init => MinableInv
<1> SUFFICES ASSUME Init PROVE MinableInv
  OBVIOUS
<1>1. \A i \in Candidates : Complete(i)
  BY CreateAssumption DEF Complete
<1>2. Fresh
  BY <1>1 DEF Init, Fresh
<1> QED
  BY <1>2 DEF Init, MinableInv, FilterHolds, FilteredIsMinable, MinableWhenFiltered, Created

LEMMA SetSequenceMinable ==
    ASSUME IInv, MinableInv, NEW n \in Selected, NEW s \in Overrides, SetSequence(n, s)
    PROVE  MinableInv'
<1>1. /\ s \in Sequences /\ ~Created /\ ~Created'
      /\ UNCHANGED <<tip, filtered>>
  BY CreateAssumption DEF SetSequence, IInv, TypeOK, Created
<1>2. FilteredIsMinable'
  BY <1>1 DEF FilteredIsMinable, MinableWhenFiltered
<1>3. CASE UNCHANGED <<inputs, overridden>>
  BY <1>1, <1>2, <1>3 DEF MinableInv, Fresh, FilterHolds
<1>4. CASE /\ inputs' = [inputs EXCEPT ![n].sequence = s]
           /\ overridden' = overridden \cup {n}
  <2> DEFINE j == [inputs[n] EXCEPT !.sequence = s]
  <2>1. inputs[n] \in InputType /\ inputs \in [Selected -> InputType]
    BY DEF IInv, TypeOK
  <2>2. /\ j.sequence = s /\ j.kind = inputs[n].kind
        /\ j.absolute = inputs[n].absolute /\ j.height = inputs[n].height
        /\ j.coinbase = inputs[n].coinbase
    BY <2>1 DEF InputType
  <2>3. inputs' = [inputs EXCEPT ![n] = j]
    BY <1>4
  <2> HIDE DEF j
  <2>4. inputs'[n] = j /\ \A k \in Selected \ {n} : inputs'[k] = inputs[k]
    BY <2>1, <2>3
  <2>5. Fresh'
    BY <1>1, <1>4, <2>2, <2>4, LockAssumption DEF MinableInv, Fresh, Complete
  <2>6. FilterHolds'
    BY <1>1, <1>4, <2>2, <2>4 DEF MinableInv, FilterHolds, AbsolutePassed, Mature
  <2> QED
    BY <1>2, <2>5, <2>6 DEF MinableInv
<1> QED
  BY <1>3, <1>4 DEF SetSequence

LEMMA NextMinable == IInv /\ MinableInv /\ [Next]_vars => MinableInv'
<1> SUFFICES ASSUME IInv, MinableInv, [Next]_vars PROVE MinableInv'
  OBVIOUS
<1>1. /\ inputs \in [Selected -> InputType] /\ tip \in 0 .. MaxTip /\ tip \in Nat
      /\ Fresh /\ FilterHolds /\ FilteredIsMinable
  BY CreateAssumption DEF IInv, TypeOK, MinableInv
<1>2. CASE NewBlock
  <2>1. /\ tip < MaxTip /\ tip' = tip + 1 /\ ~Created
        /\ UNCHANGED <<inputs, filtered, overridden, tx>>
    BY <1>2 DEF NewBlock, IInv, TypeOK
  <2>2. FilteredIsMinable'
    BY <2>1 DEF FilteredIsMinable, MinableWhenFiltered, Created
  <2>3. tip + 1 \in 0 .. MaxTip /\ (tip + 1) + 1 = tip + 2
    BY <1>1, <2>1, CreateAssumption
  <2>4. Fresh'
    BY <1>1, <2>1 DEF Fresh, InputType
  <2>5. \A n \in Selected : inputs[n] \in InputType /\ Complete(inputs[n]) /\ inputs[n].height <= tip
    BY <1>1 DEF Fresh
  <2>6. FilterHolds'
    BY <1>1, <2>1, <2>3, <2>5, PassedStays DEF FilterHolds
  <2> QED
    BY <2>2, <2>4, <2>6 DEF MinableInv
<1>3. CASE FilterUnspendable
  <2>1. /\ stage = "candidates" /\ ~Created
        /\ UNCHANGED <<tip, inputs, overridden, tx>>
    BY <1>3 DEF FilterUnspendable, IInv, TypeOK
  <2>2. PICK mtpKnown \in BOOLEAN : \A n \in Selected : IsSpendable(inputs[n], tip, mtpKnown)
    BY <1>3 DEF FilterUnspendable
  <2>3. \A n \in Selected : inputs[n] \in InputType /\ Complete(inputs[n]) /\ inputs[n].height <= tip
    BY <1>1 DEF Fresh
  <2>4. FilterHolds'
    BY <1>1, <2>1, <2>2, <2>3, SpendableMeans DEF FilterHolds
  <2> QED
    BY <1>1, <2>1, <2>4
       DEF MinableInv, Fresh, FilteredIsMinable, MinableWhenFiltered, Created
<1>4. ASSUME NEW n \in Selected, NEW s \in Overrides, SetSequence(n, s) PROVE MinableInv'
  BY <1>4, SetSequenceMinable
<1>5. CASE NewSelector
  <2>1. stage = "candidates" /\ ~Created /\ UNCHANGED <<tip, inputs, filtered, overridden, tx>>
    BY <1>5 DEF NewSelector, IInv, TypeOK
  <2> QED
    BY <1>1, <2>1
       DEF MinableInv, Fresh, FilterHolds, FilteredIsMinable, MinableWhenFiltered, Created
<1>6. ASSUME NEW p \in Params, Create(p) PROVE MinableInv'
  <2>1. /\ stage = "selection" /\ ~Created /\ params' = p
        /\ UNCHANGED <<tip, inputs, filtered, overridden>>
    BY <1>6 DEF Create, IInv, TypeOK
  <2>2. Fresh' /\ FilterHolds'
    BY <1>1, <2>1 DEF Fresh, FilterHolds
  <2>3. CASE CreateError(p) # "none"
    BY <1>6, <2>1, <2>2, <2>3
       DEF Create, MinableInv, FilteredIsMinable, MinableWhenFiltered, Created
  <2>4. CASE CreateError(p) = "none"
    <3>1. tx' \in IF p.afs = NoAfs THEN {Draft(p)} ELSE AfsOutcomes(Draft(p), p.afs)
      BY <1>6, <2>4 DEF Create
    <3>2. ASSUME filtered, NoLockOverridden, OneLockPerUnit, Passed(p.min_locktime)
          PROVE  ValidInBlock(tx', inputs, tip + 1)
      BY <1>1, <2>1, <2>4, <3>1, <3>2, CreatedIsMinable
    <3>3. FilteredIsMinable'
      BY <2>1, <3>2
         DEF FilteredIsMinable, MinableWhenFiltered, MinLocktimePassed, Passed,
             NoLockOverridden, OneLockPerUnit
    <3> QED
      BY <2>2, <3>3 DEF MinableInv
  <2> QED
    BY <2>3, <2>4
<1>7. CASE UNCHANGED vars
  BY <1>1, <1>7
     DEF vars, MinableInv, Fresh, FilterHolds, FilteredIsMinable, MinableWhenFiltered, Created,
         MinLocktimePassed, NoLockOverridden, OneLockPerUnit
<1> QED
  BY <1>2, <1>3, <1>4, <1>5, <1>6, <1>7 DEF Next

(* Whatever passed filter_unspendable makes a transaction that can be mined *)
(* in the next block, whenever it is made and with anti-fee-sniping.        *)
THEOREM FilteredCanBeMined == Spec => []FilteredIsMinable
<1>1. Init => MinableInv
  BY InitMinable
<1>2. IInv /\ MinableInv /\ [Next]_vars => MinableInv'
  BY NextMinable
<1>3. MinableInv => FilteredIsMinable
  BY DEF MinableInv
<1> QED
  BY <1>1, <1>2, <1>3, Invariance, PTL DEF Spec

-----------------------------------------------------------------------------
(* The loop over the inputs *)

LEMMA LeastOf ==
    ASSUME NEW S, S \subseteq Nat, S # {}
    PROVE  Min(S) \in S /\ \A y \in S : Min(S) <= y
  BY LeastNatural DEF Min

LEMMA TheLoop ==
    ASSUME NEW default, NEW answers, DOMAIN answers \subseteq Nat
    PROVE  /\ FirstOtherThan(default, answers) = default
                 <=> \A n \in DOMAIN answers : answers[n] = default
           /\ FirstOtherThan(default, answers) # default
                 => \E n \in DOMAIN answers : FirstOtherThan(default, answers) = answers[n]
<1> DEFINE others == {n \in DOMAIN answers : answers[n] # default}
<1>1. FirstOtherThan(default, answers) = IF others = {} THEN default ELSE answers[Min(others)]
  BY DEF FirstOtherThan
<1>2. CASE others = {}
  BY <1>1, <1>2
<1>3. CASE others # {}
  <2>1. Min(others) \in others
    <3>1. others \subseteq Nat
      OBVIOUS
    <3> HIDE DEF others
    <3> QED
      BY <1>3, <3>1, LeastOf
  <2> QED
    BY <1>1, <1>3, <2>1
<1> QED
  BY <1>2, <1>3

(* The groups have the inputs at hand, each at least once. *)
LEMMA GroupOf ==
    ASSUME TypeOK, NEW group \in Groups
    PROVE  /\ DOMAIN group \subseteq Nat
           /\ \A n \in DOMAIN group : \E s \in Selected : group[n] = inputs[s]
           /\ \A s \in Selected : \E n \in DOMAIN group : group[n] = inputs[s]
<1>1. PICK o \in Orders : group = [n \in DOMAIN o |-> inputs[o[n]]]
  BY DEF Groups
<1>2. Cardinality(Selected) \in Nat
  BY FS_CardinalityType, CreateAssumption
<1>3. /\ o \in [1 .. Cardinality(Selected) -> Selected]
      /\ \A s \in Selected : \E m \in DOMAIN o : o[m] = s
  BY DEF Orders
<1>4. DOMAIN o \subseteq Nat /\ DOMAIN group = DOMAIN o
  BY <1>1, <1>2, <1>3
<1> QED
  BY <1>1, <1>3, <1>4

-----------------------------------------------------------------------------
(* One input *)

Answers == {"free", "locked", "unknown"}

LEMMA TimelockedType ==
    ASSUME NEW i, NEW t, NEW mtpKnown \in BOOLEAN
    PROVE  /\ TimeTimelocked(i, t) \in Answers
           /\ Timelocked(i, t, mtpKnown) \in Answers
  BY DEF TimeTimelocked, Timelocked, Answers

LEMMA SpendableIs ==
    ASSUME NEW i, NEW t, NEW mtpKnown \in BOOLEAN
    PROVE  /\ Spendable(i, t, mtpKnown) \in {"spendable", "unspendable", "unknown"}
           /\ Spendable(i, t, mtpKnown) = "spendable"
                 <=> ~IsImmature(i, t) /\ Timelocked(i, t, mtpKnown) = "free"
           /\ Spendable(i, t, mtpKnown) = "unspendable"
                 <=> IsImmature(i, t) \/ Timelocked(i, t, mtpKnown) = "locked"
<1>1. Timelocked(i, t, mtpKnown) \in {"free", "locked", "unknown"}
  BY TimelockedType DEF Answers
<1> QED
  BY <1>1 DEF Spendable

(* A missing median time that becomes known decides, and changes no decision. *)
LEMMA LearningDecides ==
    ASSUME NEW i \in InputType, NEW t, NEW mtpKnown \in BOOLEAN,
           NEW j, j = [i EXCEPT !.prev_mtp_known = TRUE]
    PROVE  /\ Spendable(j, t, TRUE) \in {"spendable", "unspendable"}
           /\ Spendable(i, t, mtpKnown) = "spendable" => Spendable(j, t, TRUE) = "spendable"
           /\ Spendable(i, t, mtpKnown) = "unspendable" => Spendable(j, t, TRUE) = "unspendable"
<1>1. /\ j.kind = i.kind /\ j.absolute = i.absolute /\ j.relative = i.relative
      /\ j.sequence = i.sequence /\ j.height = i.height /\ j.coinbase = i.coinbase
      /\ j.prev_mtp_known = TRUE
  BY DEF InputType
<1>2. /\ RelativeTimelock(j) = RelativeTimelock(i)
      /\ IsImmature(j, t) = IsImmature(i, t)
  BY <1>1 DEF RelativeTimelock, IsImmature
<1>3. IsBlockTimelocked(j, t) <=> IsBlockTimelocked(i, t)
  BY <1>1, <1>2 DEF IsBlockTimelocked
<1>4. /\ TimeTimelocked(j, t) \in {"free", "locked"}
      /\ TimeTimelocked(i, t) \in {"unknown", TimeTimelocked(j, t)}
  BY <1>1, <1>2 DEF TimeTimelocked
<1>5. /\ Timelocked(j, t, TRUE) \in {"free", "locked"}
      /\ Timelocked(i, t, mtpKnown) \in {"unknown", Timelocked(j, t, TRUE)}
  BY <1>1, <1>2, <1>3, <1>4 DEF Timelocked
<1>6. TRUE \in BOOLEAN
  OBVIOUS
<1>7. /\ Spendable(j, t, TRUE) \in {"spendable", "unspendable", "unknown"}
      /\ Spendable(j, t, TRUE) = "spendable" <=> ~IsImmature(j, t) /\ Timelocked(j, t, TRUE) = "free"
      /\ Spendable(j, t, TRUE) = "unspendable" <=> IsImmature(j, t) \/ Timelocked(j, t, TRUE) = "locked"
  BY <1>6, SpendableIs
<1>8. /\ Spendable(i, t, mtpKnown) = "spendable" <=> ~IsImmature(i, t) /\ Timelocked(i, t, mtpKnown) = "free"
      /\ Spendable(i, t, mtpKnown) = "unspendable" <=> IsImmature(i, t) \/ Timelocked(i, t, mtpKnown) = "locked"
  BY SpendableIs
<1> QED
  BY <1>2, <1>5, <1>7, <1>8

(* Blocks only help: is_spendable = Some(true) is kept. *)
LEMMA SpendableStays ==
    ASSUME NEW i \in InputType, Complete(i), NEW t \in 0 .. MaxTip, t + 1 \in 0 .. MaxTip,
           i.height <= t, NEW mtpKnown \in BOOLEAN, Spendable(i, t, mtpKnown) = "spendable"
    PROVE  Spendable(i, t + 1, mtpKnown) = "spendable"
<1> DEFINE r == RelativeTimelock(i)
<1>1. /\ i.height \in Nat /\ t \in Nat /\ i.absolute \in Locks \cup {NoLock}
      /\ r \in Locks \cup {NoLock}
  BY RelativeTimelockType, CreateAssumption DEF InputType
<1>2. \A l \in Locks : l.value \in Nat
  BY LockAssumption DEF Locks
<1>3. /\ HasUnit(i.absolute, "blocks") \/ HasUnit(i.absolute, "time") => i.absolute.value \in Nat
      /\ HasUnit(r, "blocks") \/ HasUnit(r, "time") => r.value \in Nat
  BY <1>1, <1>2 DEF HasUnit
<1>4. ~IsImmature(i, t) /\ Timelocked(i, t, mtpKnown) = "free"
  BY SpendableIs
<1>5. ~IsImmature(i, t + 1)
  BY <1>1, <1>4, LockAssumption DEF IsImmature, Saturating
<1>6. ~IsBlockTimelocked(i, t)
  BY <1>4 DEF Timelocked
<1>7. ~IsBlockTimelocked(i, t + 1)
  BY <1>1, <1>3, <1>6 DEF IsBlockTimelocked, Saturating
<1>8. ASSUME TimeTimelocked(i, t) = "free" PROVE TimeTimelocked(i, t + 1) = "free"
  <2>1. /\ MTP[t] \in Nat /\ MTP[t + 1] \in Nat /\ MTP[t] <= MTP[t + 1]
        /\ i.height # 0 => MTP[i.height - 1] \in Nat
    <3>1. /\ t \in DOMAIN MTP /\ t + 1 \in DOMAIN MTP
          /\ i.height # 0 => i.height - 1 \in DOMAIN MTP
      BY <1>1, CreateAssumption
    <3> QED
      BY <1>1, <3>1, LockAssumption
  <2>2. CASE HasUnit(i.absolute, "time")
    BY <1>3, <1>8, <2>1, <2>2 DEF TimeTimelocked
  <2>3. CASE ~HasUnit(i.absolute, "time") /\ HasUnit(r, "time")
    <3> DEFINE need == r.value * Granularity
    <3>1. need \in Nat
      BY <1>3, <2>3, LockAssumption
    <3>2. /\ i.height # 0 /\ i.prev_mtp_known
          /\ ~ (need > Saturating(MTP[t] - MTP[i.height - 1]))
      BY <1>8, <2>3 DEF TimeTimelocked
    <3> HIDE DEF need
    <3>3. ~ (need > Saturating(MTP[t + 1] - MTP[i.height - 1]))
      BY <2>1, <3>1, <3>2 DEF Saturating
    <3> QED
      BY <2>3, <3>2, <3>3 DEF TimeTimelocked, need
  <2>4. CASE ~HasUnit(i.absolute, "time") /\ ~HasUnit(r, "time")
    BY <2>4 DEF TimeTimelocked
  <2> QED
    BY <2>2, <2>3, <2>4
<1>9. Timelocked(i, t + 1, mtpKnown) = "free"
  BY <1>4, <1>6, <1>7, <1>8 DEF Timelocked
<1> QED
  BY <1>5, <1>9, SpendableIs

-----------------------------------------------------------------------------
(* A group *)

LEMMA GroupSpendableIs ==
    ASSUME TypeOK, NEW group \in Groups, NEW t, NEW mtpKnown \in BOOLEAN
    PROVE  /\ GroupSpendable(group, t, mtpKnown) = "spendable"
                 <=> \A s \in Selected : Spendable(inputs[s], t, mtpKnown) = "spendable"
           /\ GroupSpendable(group, t, mtpKnown) = "unspendable"
                 => \E s \in Selected : Spendable(inputs[s], t, mtpKnown) = "unspendable"
<1> DEFINE answers == [n \in DOMAIN group |-> Spendable(group[n], t, mtpKnown)]
<1>1. /\ DOMAIN group \subseteq Nat
      /\ \A n \in DOMAIN group : \E s \in Selected : group[n] = inputs[s]
      /\ \A s \in Selected : \E n \in DOMAIN group : group[n] = inputs[s]
  BY GroupOf
<1>2. GroupSpendable(group, t, mtpKnown) = FirstOtherThan("spendable", answers)
  BY DEF GroupSpendable
<1>3. /\ DOMAIN answers = DOMAIN group
      /\ \A n \in DOMAIN group : answers[n] = Spendable(group[n], t, mtpKnown)
  OBVIOUS
<1> HIDE DEF answers
<1>4. /\ FirstOtherThan("spendable", answers) = "spendable"
            <=> \A n \in DOMAIN answers : answers[n] = "spendable"
      /\ FirstOtherThan("spendable", answers) # "spendable"
            => \E n \in DOMAIN answers : FirstOtherThan("spendable", answers) = answers[n]
  BY <1>1, <1>3, TheLoop
<1> QED
  BY <1>1, <1>2, <1>3, <1>4

LEMMA LearntGroupSpendableIs ==
    ASSUME TypeOK, NEW group \in Groups, NEW t
    PROVE  /\ (\A s \in Selected :
                  Spendable([inputs[s] EXCEPT !.prev_mtp_known = TRUE], t, TRUE) = "spendable")
                 => GroupSpendable(Learnt(group), t, TRUE) = "spendable"
           /\ (\E s \in Selected :
                  Spendable([inputs[s] EXCEPT !.prev_mtp_known = TRUE], t, TRUE) = "unspendable")
                 => GroupSpendable(Learnt(group), t, TRUE) = "unspendable"
<1> DEFINE Known(i) == [i EXCEPT !.prev_mtp_known = TRUE]
           answers == [n \in DOMAIN Learnt(group) |-> Spendable(Learnt(group)[n], t, TRUE)]
<1>1. /\ DOMAIN group \subseteq Nat
      /\ \A n \in DOMAIN group : \E s \in Selected : group[n] = inputs[s]
      /\ \A s \in Selected : \E n \in DOMAIN group : group[n] = inputs[s]
  BY GroupOf
<1>2. GroupSpendable(Learnt(group), t, TRUE) = FirstOtherThan("spendable", answers)
  BY DEF GroupSpendable
<1>3. /\ DOMAIN answers = DOMAIN group
      /\ \A n \in DOMAIN group : answers[n] = Spendable(Known(group[n]), t, TRUE)
  BY DEF Learnt
<1> HIDE DEF answers
<1>4. /\ FirstOtherThan("spendable", answers) = "spendable"
            <=> \A n \in DOMAIN answers : answers[n] = "spendable"
      /\ FirstOtherThan("spendable", answers) # "spendable"
            => \E n \in DOMAIN answers : FirstOtherThan("spendable", answers) = answers[n]
  BY <1>1, <1>3, TheLoop
<1>5. \A s \in Selected : Spendable(Known(inputs[s]), t, TRUE) \in {"spendable", "unspendable"}
  <2> SUFFICES ASSUME NEW s \in Selected
               PROVE  Spendable(Known(inputs[s]), t, TRUE) \in {"spendable", "unspendable"}
    OBVIOUS
  <2>1. inputs[s] \in InputType /\ TRUE \in BOOLEAN
    BY DEF TypeOK
  <2> QED
    BY <2>1, LearningDecides
<1> HIDE DEF Known
<1>6. /\ (\A s \in Selected : Spendable(Known(inputs[s]), t, TRUE) = "spendable")
            => FirstOtherThan("spendable", answers) = "spendable"
      /\ (\E s \in Selected : Spendable(Known(inputs[s]), t, TRUE) = "unspendable")
            => FirstOtherThan("spendable", answers) = "unspendable"
  <2> DEFINE Told(i) == Spendable(Known(i), t, TRUE)
  <2>1. \A n \in DOMAIN group : \E s \in Selected : answers[n] = Told(inputs[s])
    BY <1>1, <1>3
  <2>2. \A s \in Selected : \E n \in DOMAIN group : answers[n] = Told(inputs[s])
    BY <1>1, <1>3
  <2>3. \A s \in Selected : Told(inputs[s]) \in {"spendable", "unspendable"}
    BY <1>5
  <2> HIDE DEF Told
  <2>4. (\A s \in Selected : Told(inputs[s]) = "spendable")
           => FirstOtherThan("spendable", answers) = "spendable"
    BY <1>3, <1>4, <2>1
  <2>5. (\E s \in Selected : Told(inputs[s]) = "unspendable")
           => FirstOtherThan("spendable", answers) = "unspendable"
    BY <1>3, <1>4, <2>1, <2>2, <2>3
  <2> QED
    BY <2>4, <2>5 DEF Told
<1> QED
  BY <1>2, <1>6 DEF Known

LEMMA GroupTimelockedIs ==
    ASSUME TypeOK, NEW group \in Groups, NEW t, NEW mtpKnown \in BOOLEAN
    PROVE  /\ GroupTimelocked(group, t, mtpKnown) = "free"
                 <=> \A s \in Selected : Timelocked(inputs[s], t, mtpKnown) = "free"
           /\ GroupTimelocked(group, t, mtpKnown) = "locked"
                 => \E s \in Selected : Timelocked(inputs[s], t, mtpKnown) = "locked"
<1> DEFINE answers == [n \in DOMAIN group |-> Timelocked(group[n], t, mtpKnown)]
<1>1. /\ DOMAIN group \subseteq Nat
      /\ \A n \in DOMAIN group : \E s \in Selected : group[n] = inputs[s]
      /\ \A s \in Selected : \E n \in DOMAIN group : group[n] = inputs[s]
  BY GroupOf
<1>2. GroupTimelocked(group, t, mtpKnown) = FirstOtherThan("free", answers)
  BY DEF GroupTimelocked
<1>3. /\ DOMAIN answers = DOMAIN group
      /\ \A n \in DOMAIN group : answers[n] = Timelocked(group[n], t, mtpKnown)
  OBVIOUS
<1> HIDE DEF answers
<1>4. /\ FirstOtherThan("free", answers) = "free" <=> \A n \in DOMAIN answers : answers[n] = "free"
      /\ FirstOtherThan("free", answers) # "free"
            => \E n \in DOMAIN answers : FirstOtherThan("free", answers) = answers[n]
  BY <1>1, <1>3, TheLoop
<1> QED
  BY <1>1, <1>2, <1>3, <1>4

LEMMA GroupTimeTimelockedIs ==
    ASSUME TypeOK, NEW group \in Groups, NEW t
    PROVE  GroupTimeTimelocked(group, t) = "free"
              <=> \A s \in Selected : TimeTimelocked(inputs[s], t) = "free"
<1> DEFINE answers == [n \in DOMAIN group |-> TimeTimelocked(group[n], t)]
<1>1. /\ DOMAIN group \subseteq Nat
      /\ \A n \in DOMAIN group : \E s \in Selected : group[n] = inputs[s]
      /\ \A s \in Selected : \E n \in DOMAIN group : group[n] = inputs[s]
  BY GroupOf
<1>2. GroupTimeTimelocked(group, t) = FirstOtherThan("free", answers)
  BY DEF GroupTimeTimelocked
<1>3. /\ DOMAIN answers = DOMAIN group
      /\ \A n \in DOMAIN group : answers[n] = TimeTimelocked(group[n], t)
  OBVIOUS
<1> HIDE DEF answers
<1>4. FirstOtherThan("free", answers) = "free" <=> \A n \in DOMAIN answers : answers[n] = "free"
  BY <1>1, <1>3, TheLoop
<1> QED
  BY <1>1, <1>2, <1>3, <1>4

(* No input has fewer confirmations than the group says. *)
LEMMA MinConfirmationsIs ==
    ASSUME TypeOK, NEW group \in Groups, NEW s \in Selected
    PROVE  MinConfirmations(group, tip) \in Nat /\ MinConfirmations(group, tip) <= Confirmations(inputs[s], tip)
<1> DEFINE depths == {Confirmations(group[n], tip) : n \in DOMAIN group}
<1>1. /\ \A n \in DOMAIN group : \E k \in Selected : group[n] = inputs[k]
      /\ \A k \in Selected : \E n \in DOMAIN group : group[n] = inputs[k]
  BY GroupOf
<1>2. tip \in Nat /\ \A k \in Selected : inputs[k].height \in Nat
  BY CreateAssumption DEF TypeOK, InputType
<1>3. \A k \in Selected : Confirmations(inputs[k], tip) \in Nat
  BY <1>2 DEF Confirmations, Saturating
<1>4. depths \subseteq Nat /\ Confirmations(inputs[s], tip) \in depths
  BY <1>1, <1>3
<1>5. MinConfirmations(group, tip) = Min(depths)
  BY DEF MinConfirmations
<1> HIDE DEF depths
<1>6. depths # {}
  BY <1>4
<1>7. Min(depths) \in depths /\ \A y \in depths : Min(depths) <= y
  BY <1>4, <1>6, LeastOf
<1> QED
  BY <1>4, <1>5, <1>7

-----------------------------------------------------------------------------
(* The theorems *)

LEMMA Agreement ==
    ASSUME TypeOK, Fresh, NEW group \in Groups, NEW mtpKnown \in BOOLEAN
    PROVE  LET lock == GroupTimelocked(group, tip, mtpKnown)
               depth == MinConfirmations(group, tip)
           IN  /\ GroupSpendable(group, tip, mtpKnown) = "spendable"
                      <=> ~GroupImmature(group, tip) /\ lock = "free"
               /\ lock = "free" => /\ ~GroupBlockTimelocked(group, tip)
                                   /\ mtpKnown => GroupTimeTimelocked(group, tip) = "free"
               /\ lock = "locked" => \/ GroupBlockTimelocked(group, tip)
                                     \/ GroupTimeTimelocked(group, tip) # "free"
               /\ depth >= Maturity => ~GroupImmature(group, tip)
               /\ GroupBlockTimelocked(group, tip) => \E n \in DOMAIN group :
                      \/ HasUnit(group[n].absolute, "blocks")
                      \/ /\ HasUnit(RelativeTimelock(group[n]), "blocks")
                         /\ RelativeTimelock(group[n]).value > depth \/ depth = 0
<1> DEFINE lock == GroupTimelocked(group, tip, mtpKnown)
           depth == MinConfirmations(group, tip)
<1>1. /\ DOMAIN group \subseteq Nat
      /\ \A n \in DOMAIN group : \E s \in Selected : group[n] = inputs[s]
      /\ \A s \in Selected : \E n \in DOMAIN group : group[n] = inputs[s]
  BY GroupOf
<1>2. tip \in Nat /\ \A s \in Selected : inputs[s] \in InputType /\ inputs[s].height \in Nat
  BY CreateAssumption DEF TypeOK, InputType
<1>3. GroupImmature(group, tip) <=> \E s \in Selected : IsImmature(inputs[s], tip)
  BY <1>1 DEF GroupImmature
<1>4. GroupBlockTimelocked(group, tip) <=> \E s \in Selected : IsBlockTimelocked(inputs[s], tip)
  BY <1>1 DEF GroupBlockTimelocked
<1>5. /\ lock = "free" <=> \A s \in Selected : Timelocked(inputs[s], tip, mtpKnown) = "free"
      /\ lock = "locked" => \E s \in Selected : Timelocked(inputs[s], tip, mtpKnown) = "locked"
  BY GroupTimelockedIs
<1>6. GroupTimeTimelocked(group, tip) = "free"
          <=> \A s \in Selected : TimeTimelocked(inputs[s], tip) = "free"
  BY GroupTimeTimelockedIs
<1>7. \A s \in Selected : depth \in Nat /\ depth <= Confirmations(inputs[s], tip)
  BY MinConfirmationsIs
<1> HIDE DEF lock, depth
<1>8. GroupSpendable(group, tip, mtpKnown) = "spendable" <=> ~GroupImmature(group, tip) /\ lock = "free"
  BY <1>3, <1>5, GroupSpendableIs, SpendableIs
<1>9. \A s \in Selected : Timelocked(inputs[s], tip, mtpKnown) = "free"
          => ~IsBlockTimelocked(inputs[s], tip) /\ (mtpKnown => TimeTimelocked(inputs[s], tip) = "free")
  BY DEF Timelocked, TimeTimelocked
<1>10. \A s \in Selected : Timelocked(inputs[s], tip, mtpKnown) = "locked"
          => IsBlockTimelocked(inputs[s], tip) \/ TimeTimelocked(inputs[s], tip) # "free"
  BY DEF Timelocked
<1>11. ASSUME depth >= Maturity, NEW s \in Selected PROVE ~IsImmature(inputs[s], tip)
  <2>1. Confirmations(inputs[s], tip) >= Maturity /\ inputs[s].height \in Nat
    BY <1>2, <1>7, <1>11, LockAssumption DEF Confirmations, Saturating
  <2> QED
    BY <1>2, <2>1, LockAssumption DEF Confirmations, IsImmature, Saturating
<1>12. ASSUME NEW n \in DOMAIN group, IsBlockTimelocked(group[n], tip)
       PROVE  \/ HasUnit(group[n].absolute, "blocks")
              \/ /\ HasUnit(RelativeTimelock(group[n]), "blocks")
                 /\ RelativeTimelock(group[n]).value > depth \/ depth = 0
  <2>1. PICK s \in Selected : group[n] = inputs[s]
    BY <1>1
  <2>2. CASE HasUnit(inputs[s].absolute, "blocks")
    BY <2>1, <2>2
  <2>3. CASE ~HasUnit(inputs[s].absolute, "blocks")
    <3> DEFINE r == RelativeTimelock(inputs[s])
    <3>1. /\ HasUnit(r, "blocks")
          /\ inputs[s].height = 0 \/ r.value > Saturating(tip + 1 - inputs[s].height)
      BY <1>12, <2>1, <2>3 DEF IsBlockTimelocked
    <3>2. r.value \in Nat
      <4>1. r \in Locks \cup {NoLock}
        BY <1>2, RelativeTimelockType DEF Fresh
      <4> QED
        BY <3>1, <4>1, LockAssumption DEF HasUnit, Locks
    <3> HIDE DEF r
    <3>3. CASE inputs[s].height = 0
      <4>1. depth = 0
        BY <1>7, <3>3 DEF Confirmations
      <4> QED
        BY <2>1, <3>1, <4>1 DEF r
    <3>4. CASE inputs[s].height # 0
      <4>1. depth <= Saturating(tip + 1 - inputs[s].height) /\ depth \in Nat
        BY <1>2, <1>7, <3>4 DEF Confirmations, Saturating
      <4>2. r.value > depth
        BY <1>2, <3>1, <3>2, <3>4, <4>1 DEF Saturating
      <4> QED
        BY <2>1, <3>1, <4>2 DEF r
    <3> QED
      BY <3>3, <3>4
  <2> QED
    BY <2>2, <2>3
<1>13. GroupBlockTimelocked(group, tip) => \E n \in DOMAIN group : IsBlockTimelocked(group[n], tip)
  BY DEF GroupBlockTimelocked
<1> QED
  BY <1>3, <1>4, <1>5, <1>6, <1>8, <1>9, <1>10, <1>11, <1>12, <1>13 DEF lock, depth

LEMMA FreshAlways == Spec => [](IInv /\ Fresh)
<1>1. IInv /\ MinableInv /\ [Next]_vars => MinableInv'
  BY NextMinable
<1>2. Init => MinableInv
  BY InitMinable
<1>3. MinableInv => Fresh
  BY DEF MinableInv
<1> QED
  BY <1>1, <1>2, <1>3, Invariance, PTL DEF Spec

(* The predicates of a group do not contradict each other.                  *)
THEOREM PredicatesAgree == Spec => []GroupPredicatesAgree
<1>1. IInv /\ Fresh => GroupPredicatesAgree
  BY Agreement DEF GroupPredicatesAgree, IInv
<1> QED
  BY <1>1, FreshAlways, PTL

LEMMA StepKeepsAnswers ==
    ASSUME IInv, Fresh, IInv', [Next]_vars, UNCHANGED inputs,
           NEW group \in Groups, NEW other \in Groups, NEW mtpKnown \in BOOLEAN
    PROVE  /\ GroupSpendable(group, tip, mtpKnown) = "spendable"
                 => /\ GroupSpendable(Learnt(other), tip, TRUE) = "spendable"
                    /\ GroupSpendable(other, tip', mtpKnown) = "spendable"
           /\ GroupSpendable(group, tip, mtpKnown) = "unspendable"
                 => GroupSpendable(Learnt(other), tip, TRUE) = "unspendable"
<1> DEFINE Known(i) == [i EXCEPT !.prev_mtp_known = TRUE]
<1>1. /\ TypeOK /\ tip \in 0 .. MaxTip /\ tip' \in 0 .. MaxTip
      /\ \A s \in Selected : inputs[s] \in InputType /\ Complete(inputs[s]) /\ inputs[s].height <= tip
  BY CreateAssumption DEF IInv, TypeOK, Fresh
<1>2. tip' = tip \/ tip' = tip + 1
  BY DEF Next, NewBlock, FilterUnspendable, SetSequence, NewSelector, Create, vars
<1>3. ASSUME NEW s \in Selected
      PROVE  /\ Spendable(inputs[s], tip, mtpKnown) = "spendable"
                   => Spendable(Known(inputs[s]), tip, TRUE) = "spendable"
             /\ Spendable(inputs[s], tip, mtpKnown) = "unspendable"
                   => Spendable(Known(inputs[s]), tip, TRUE) = "unspendable"
  BY <1>1, LearningDecides
<1>4. ASSUME NEW s \in Selected, Spendable(inputs[s], tip, mtpKnown) = "spendable"
      PROVE  Spendable(inputs[s], tip', mtpKnown) = "spendable"
  BY <1>1, <1>2, <1>4, SpendableStays
<1>5. ASSUME GroupSpendable(group, tip, mtpKnown) = "spendable"
      PROVE  /\ GroupSpendable(Learnt(other), tip, TRUE) = "spendable"
             /\ GroupSpendable(other, tip', mtpKnown) = "spendable"
  <2>1. \A s \in Selected : Spendable(inputs[s], tip, mtpKnown) = "spendable"
    BY <1>1, <1>5, GroupSpendableIs
  <2>2. GroupSpendable(Learnt(other), tip, TRUE) = "spendable"
    BY <1>1, <1>3, <2>1, LearntGroupSpendableIs
  <2>3. \A s \in Selected : Spendable(inputs[s], tip', mtpKnown) = "spendable"
    BY <1>4, <2>1
  <2> QED
    BY <1>1, <2>2, <2>3, GroupSpendableIs
<1>6. ASSUME GroupSpendable(group, tip, mtpKnown) = "unspendable"
      PROVE  GroupSpendable(Learnt(other), tip, TRUE) = "unspendable"
  <2>1. \E s \in Selected : Spendable(inputs[s], tip, mtpKnown) = "unspendable"
    BY <1>1, <1>6, GroupSpendableIs
  <2> QED
    BY <1>1, <1>3, <2>1, LearntGroupSpendableIs
<1> QED
  BY <1>5, <1>6

(* What a group has called spendable stays spendable, in every order of its *)
(* inputs, at later tips, and when missing median times become known.       *)
THEOREM SpendableGroupsStay == Spec => SpendableGroupStays
<1>1. IInv /\ Fresh /\ IInv' /\ [Next]_vars
         => [stage = "candidates" /\ UNCHANGED inputs =>
               \A group \in Groups, other \in Groups, mtpKnown \in BOOLEAN :
                  /\ GroupSpendable(group, tip, mtpKnown) = "spendable"
                         => /\ GroupSpendable(Learnt(other), tip, TRUE) = "spendable"
                            /\ GroupSpendable(other, tip', mtpKnown) = "spendable"
                  /\ GroupSpendable(group, tip, mtpKnown) = "unspendable"
                         => GroupSpendable(Learnt(other), tip, TRUE) = "unspendable"]_vars
  BY StepKeepsAnswers
<1> QED
  BY <1>1, FreshAlways, PTL DEF Spec, SpendableGroupStays
=============================================================================
