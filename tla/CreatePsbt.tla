----------------------------- MODULE CreatePsbt -----------------------------
(***************************************************************************)
(* From input candidates to an unsigned transaction: the caller drops what *)
(* it cannot spend yet, makes a Selector, overrides sequence numbers and   *)
(* creates the psbt, with or without anti-fee-sniping, while blocks arrive *)
(* (input_candidates.rs, selector.rs, selection.rs, afs.rs).               *)
(***************************************************************************)
EXTENDS InputLocks, FiniteSetsExt

CONSTANTS Candidates,        \* the Inputs a caller may start with
          Selected,          \* indices of the inputs of the selection
          Overrides,         \* sequences passed to set_sequence
          MinLocktimes,      \* PsbtParams.min_locktime
          NoAfs,             \* PsbtParams.anti_fee_sniping = None
          MaxRelativeHeight, \* MAX_RELATIVE_HEIGHT (65535)
          MaxRandomOffset,   \* MAX_RANDOM_OFFSET (100)
          FirstTip, MaxTip,  \* bounds on the height of the chain
          MaxOverrides       \* bound on set_sequence calls

ASSUME CreateAssumption ==
    /\ IsFiniteSet(Selected)
    /\ Candidates \subseteq InputType
    /\ \A i \in Candidates :
          IF i.kind = "plan"
          THEN i.sequence = NoSequence                      \* from_prev_tx
          ELSE /\ i.sequence # NoSequence /\ i.relative = NoLock
               /\ i.absolute # NoLock => i.sequence # SeqMax \* from_psbt_input
    /\ Overrides \subseteq Sequences
    /\ MinLocktimes \subseteq Locks
    /\ MaxRandomOffset \in Nat \ {0} /\ MaxRelativeHeight \in 0 .. MaxLock
    /\ FirstTip \in Nat /\ MaxTip \in FirstTip .. MaxLock
    /\ 0 .. MaxTip \subseteq DOMAIN MTP
    /\ NoAfs \notin Nat

VARIABLES tip,        \* the height of the chain
          inputs,     \* the inputs of the selection
          stage,      \* "candidates", "selection", "done"
          filtered,   \* whether filter_unspendable let every input through
          seen,       \* a tip the caller saw earlier
          overridden, \* the inputs whose sequence was set by the caller
          params,     \* the PsbtParams of the last create_psbt
          tx,         \* the unsigned transaction, or NoTx
          error       \* the error of the last call, or "none"

vars == <<tip, inputs, stage, filtered, seen, overridden, params, tx, error>>

NoTx == [version |-> 0]

Init ==
    /\ tip = FirstTip
    /\ inputs \in [Selected -> Candidates]
    /\ \A n \in Selected : inputs[n].height <= tip
    /\ stage = "candidates"
    /\ filtered = FALSE
    /\ seen = tip
    /\ overridden = {}
    /\ params = NoTx
    /\ tx = NoTx
    /\ error = "none"

NewBlock ==
    /\ tip < MaxTip
    /\ stage # "done"
    /\ tip' = tip + 1
    /\ UNCHANGED <<inputs, stage, filtered, seen, overridden, params, tx, error>>

(* filter_unspendable let every input through. *)
FilterUnspendable ==
    /\ stage = "candidates"
    /\ ~filtered
    /\ \E mtpKnown \in BOOLEAN : \A n \in Selected : IsSpendable(inputs[n], tip, mtpKnown)
    /\ filtered' = TRUE
    /\ seen' = tip
    /\ UNCHANGED <<tip, inputs, stage, overridden, params, tx, error>>

(* Input::set_sequence, on a candidate or through InputMut on a selected input *)
SetSequence(n, s) ==
    /\ stage # "done"
    /\ Cardinality(overridden) < MaxOverrides
    /\ IF SetSequenceOk(inputs[n], s)
       THEN /\ inputs' = [inputs EXCEPT ![n].sequence = s]
            /\ overridden' = overridden \cup {n}
            /\ error' = "none"
       ELSE /\ error' = "SetSequenceError"
            /\ UNCHANGED <<inputs, overridden>>
    /\ UNCHANGED <<tip, stage, filtered, seen, params, tx>>

AbsoluteLocks == {inputs[n].absolute : n \in Selected} \ {NoLock}

(* Selector::new; the caller may skip the filter. *)
NewSelector ==
    /\ stage = "candidates"
    /\ IF \A l, m \in AbsoluteLocks : l.unit = m.unit
       THEN stage' = "selection" /\ error' = "none"
       ELSE stage' = "done" /\ error' = "LockTypeMismatch"
    /\ UNCHANGED <<tip, inputs, filtered, seen, overridden, params, tx>>

-----------------------------------------------------------------------------
(* create_psbt *)

(* accumulate_max_locktime *)
MaxLocktime(locks, min) ==
    IF locks = {} THEN min
    ELSE LET top == CHOOSE l \in locks : \A m \in locks : m.value <= l.value
         IN  IF Implied(top, min) THEN min ELSE top

Draft(p) == [version   |-> p.version,
             lock_time |-> MaxLocktime(AbsoluteLocks, p.min_locktime),
             sequence  |-> [n \in Selected |-> SequenceOf(inputs[n])]]

(* apply_anti_fee_sniping *)
ExplicitlyRbf(t) == \E n \in Selected : t.sequence[n].unit \notin {"max", "no_rbf"}

TaprootInputs ==
    {n \in Selected : inputs[n].witness = "v1" /\ RelativeTimelock(inputs[n]) = NoLock}

MustUseLocktime(height) ==
    \/ TaprootInputs = {}
    \/ \E n \in Selected : Confirmations(inputs[n], height) \notin 1 .. MaxRelativeHeight

(* Plausible bug: the random range includes its bound. *)
Offsets_Inclusive == 0 .. MaxRandomOffset

(* Both random offsets: none in nine calls of ten. *)
Offsets == 0 .. MaxRandomOffset - 1

Blocks(height) == [unit |-> "blocks", value |-> height]

AfsByLocktime(t, height) ==
    {LET target == Blocks(Saturating(height - offset))
     IN  IF Implied(t.lock_time, target)
         THEN [version |-> t.version, lock_time |-> target, sequence |-> t.sequence]
         ELSE t : offset \in Offsets}

WithSequence(t, n, s) ==
    [version   |-> t.version,
     lock_time |-> t.lock_time,
     sequence  |-> [t.sequence EXCEPT ![n] = s]]

AfsBySequence(t, height) ==
    {WithSequence(t, n, Blocks(Max({Confirmations(inputs[n], height) - offset, 1}))) :
        n \in TaprootInputs, offset \in Offsets}

AfsOutcomes(t, height) ==
    AfsByLocktime(t, height) \cup
    IF ExplicitlyRbf(t) /\ ~MustUseLocktime(height) THEN AfsBySequence(t, height) ELSE {}

MissingFullTx(i, p) ==
    /\ i.kind = "plan"
    /\ ~i.has_tx
    /\ i.witness = "legacy" \/ (i.witness = "v0" /\ p.mandate_full_tx)

CreateError(p) ==
    CASE p.afs # NoAfs /\ p.version < 2 -> "UnsupportedVersion"
      [] p.afs # NoAfs /\ p.version >= 2 /\ Draft(p).lock_time.unit # "blocks"
            -> "UnsupportedLockTime"
      [] OTHER -> IF \E n \in Selected : MissingFullTx(inputs[n], p)
                  THEN "MissingFullTx" ELSE "none"

Params == [version : {1, 2}, min_locktime : MinLocktimes,
           mandate_full_tx : BOOLEAN, afs : {NoAfs, seen, tip}]

Create(p) ==
    /\ stage = "selection"
    /\ stage' = "done"
    /\ params' = p
    /\ error' = CreateError(p)
    /\ IF CreateError(p) = "none"
       THEN tx' \in IF p.afs = NoAfs THEN {Draft(p)} ELSE AfsOutcomes(Draft(p), p.afs)
       ELSE UNCHANGED tx
    /\ UNCHANGED <<tip, inputs, filtered, seen, overridden>>

Next ==
    \/ NewBlock
    \/ FilterUnspendable
    \/ \E n \in Selected, s \in Overrides : SetSequence(n, s)
    \/ NewSelector
    \/ \E p \in Params : Create(p)

Spec == Init /\ [][Next]_vars

-----------------------------------------------------------------------------
(* Properties *)

Created == tx # NoTx

(* The variables have their types. *)
TypeOK ==
    /\ tip \in FirstTip .. MaxTip /\ seen \in FirstTip .. tip
    /\ inputs \in [Selected -> InputType]
    /\ stage \in {"candidates", "selection", "done"}
    /\ filtered \in BOOLEAN
    /\ overridden \subseteq Selected
    /\ Created => /\ stage = "done" /\ error = "none"
                  /\ tx.version \in {1, 2}
                  /\ tx.lock_time \in Locks
                  /\ tx.sequence \in [Selected -> Sequences]

(***************************************************************************)
(* Every transaction of version 2 that create_psbt returns satisfies the   *)
(* OP_CLTV and OP_CSV of every input it spends, whatever sequences were    *)
(* overridden, whatever the minimum locktime, and whichever input          *)
(* anti-fee-sniping rewrites (Selector::new, set_sequence,                 *)
(* accumulate_max_locktime and apply_anti_fee_sniping together).           *)
(***************************************************************************)
ScriptsSatisfied ==
    Created /\ tx.version >= 2 =>
        \A n \in Selected : /\ CltvMet(tx, inputs[n], tx.sequence[n])
                            /\ CsvMet(tx, inputs[n], tx.sequence[n])

MinLocktimePassed ==
    IF params.min_locktime.unit = "blocks"
    THEN params.min_locktime.value <= tip
    ELSE params.min_locktime.value < MTP[tip]

NoLockOverridden == \A n \in overridden : SequenceOf(inputs[n]).unit \notin Units

MinableWhenFiltered ==
    Created /\ filtered /\ NoLockOverridden /\ MinLocktimePassed
        => ValidInBlock(tx, inputs, tip + 1)

(* No input is locked twice in the same unit, absolutely and relatively. *)
OneLockPerUnit ==
    \A n \in Selected : \A u \in Units :
        ~(HasUnit(inputs[n].absolute, u) /\ HasUnit(RelativeTimelock(inputs[n]), u))

(***************************************************************************)
(* A transaction made from inputs that filter_unspendable let through can  *)
(* be mined in the next block, also when blocks arrive in between and with *)
(* anti-fee-sniping, which never delays it: neither a locktime beyond the  *)
(* tip nor a sequence beyond the confirmations.                            *)
(***************************************************************************)
FilteredIsMinable == OneLockPerUnit => MinableWhenFiltered

(***************************************************************************)
(* Anti-fee-sniping protects: unless every sequence is final, the          *)
(* transaction cannot be mined in a block more than the random offset      *)
(* below the tip it was made for, by locktime or by sequence.              *)
(***************************************************************************)
AfsProtects ==
    Created /\ params.afs # NoAfs /\ (\E n \in Selected : tx.sequence[n] # SeqMax) =>
        \A h \in 1 .. params.afs - MaxRandomOffset + 1 : ~ValidInBlock(tx, inputs, h)

(***************************************************************************)
(* What the comments say and the code does not do: see the findings.       *)
(*   - is_spendable tells whether the output can be spent at the tip;      *)
(*   - with a locktime above the tip anti-fee-sniping leaves the           *)
(*     transaction unchanged;                                              *)
(*   - set_sequence sets the sequence the input contributes to the         *)
(*     transaction.                                                        *)
(***************************************************************************)
SpendableIsMinable == MinableWhenFiltered

FutureLocktimeUntouched ==
    Created /\ params.afs # NoAfs /\ Draft(params).lock_time.value > params.afs
        => tx = Draft(params)

OverrideIsKept ==
    Created => \A n \in overridden : tx.sequence[n] = inputs[n].sequence
=============================================================================
