----------------------------- MODULE InputLocks -----------------------------
(***************************************************************************)
(* The timelocks of an Input (input.rs) and the consensus rules they stand *)
(* for.  A lock has a unit, blocks or time; a sequence number is one of    *)
(* the three special values or a relative lock of the transaction.         *)
(***************************************************************************)
EXTENDS Integers

CONSTANTS NoLock,       \* no absolute or no relative timelock
          NoSequence,   \* a plan without sequence override
          MaxLock,      \* the largest value of a lock (a 32-bit number)
          MTP,          \* MTP[h]: the median time past of block h
          Granularity,  \* seconds in a unit of relative time (512)
          Maturity      \* COINBASE_MATURITY (100)

Units == {"blocks", "time"}
Locks == [unit : Units, value : 0 .. MaxLock]

(***************************************************************************)
(* "max" is 0xFFFFFFFF, "no_rbf" 0xFFFFFFFE, "rbf" ENABLE_RBF_NO_LOCKTIME; *)
(* the others are relative locks.                                          *)
(***************************************************************************)
Sequences == [unit : {"max", "no_rbf", "rbf"}, value : {0}] \cup Locks

SeqMax == [unit |-> "max", value |-> 0]
SeqDefault == [unit |-> "rbf", value |-> 0]

(* height 0: unconfirmed. *)
InputType ==
    [kind     : {"plan", "psbt"},
     absolute : Locks \cup {NoLock},
     relative : Locks \cup {NoLock},           \* plan.relative_timelock
     sequence : Sequences \cup {NoSequence},   \* override, or the psbt's own
     height   : Nat,
     prev_mtp_known : BOOLEAN,
     coinbase : BOOLEAN,
     witness  : {"legacy", "v0", "v1"},
     has_tx   : BOOLEAN]

ASSUME LockAssumption ==
    /\ NoLock \notin Locks /\ NoSequence \notin Sequences
    /\ MaxLock \in Nat /\ Granularity \in Nat \ {0} /\ Maturity \in Nat \ {0}
    /\ DOMAIN MTP \subseteq Nat
    /\ \A g, h \in DOMAIN MTP : MTP[h] \in Nat /\ (g <= h => MTP[g] <= MTP[h]) \* consensus

(* is_implied_by: l is satisfied by whatever satisfies m. *)
Implied(l, m) == l.unit = m.unit /\ l.value <= m.value

RelativeTimelock(i) ==
    IF i.kind = "plan" THEN i.relative
    ELSE IF i.sequence.unit \in Units THEN i.sequence ELSE NoLock

(* Plausible bug: the default for a plan without sequence is lost. *)
SequenceOf_NoDefault(i) == IF i.sequence # NoSequence THEN i.sequence ELSE i.relative

(* Input::sequence, with the default create_psbt takes for None *)
SequenceOf(i) ==
    IF i.sequence # NoSequence THEN i.sequence
    ELSE IF i.relative # NoLock THEN i.relative ELSE SeqDefault

HasUnit(lock, u) == lock # NoLock /\ lock.unit = u

-----------------------------------------------------------------------------
(* Spendability as the code computes it, for a spend in block tip + 1 *)

Saturating(n) == IF n < 0 THEN 0 ELSE n

IsImmature(i, tip) ==
    i.coinbase /\ (i.height = 0 \/ Saturating(tip + 1 - i.height) < Maturity)

(* Plausible bug: nLockTime compared as if equality were enough. *)
IsBlockTimelocked_OffByOne(i, tip) ==
    LET relative == RelativeTimelock(i)
    IN  IF HasUnit(i.absolute, "blocks")
        THEN i.absolute.value > tip + 1
        ELSE /\ HasUnit(relative, "blocks")
             /\ i.height = 0 \/ relative.value > Saturating(tip + 1 - i.height)

IsBlockTimelocked(i, tip) ==
    LET relative == RelativeTimelock(i)
    IN  IF HasUnit(i.absolute, "blocks")
        THEN i.absolute.value >= tip + 1
        ELSE /\ HasUnit(relative, "blocks")
             /\ i.height = 0 \/ relative.value > Saturating(tip + 1 - i.height)

(* Some(true), Some(false) and None of is_time_timelocked *)
TimeTimelocked(i, tip) ==
    LET relative == RelativeTimelock(i)
        locked == IF HasUnit(i.absolute, "time")
                  THEN i.absolute.value >= MTP[tip]
                  ELSE /\ HasUnit(relative, "time")
                       /\ \/ i.height = 0
                          \/ relative.value * Granularity
                                > Saturating(MTP[tip] - MTP[i.height - 1])
        needsPrevMtp == /\ ~HasUnit(i.absolute, "time")
                        /\ HasUnit(relative, "time")
                        /\ i.height # 0
    IN  IF needsPrevMtp /\ ~i.prev_mtp_known THEN "unknown"
        ELSE IF locked THEN "locked" ELSE "free"

(* Plausible bug: a time lock keeps the block locks from being looked at. *)
Timelocked_TimeFirst(i, tip, mtpKnown) ==
    IF HasUnit(i.absolute, "time") \/ HasUnit(RelativeTimelock(i), "time")
    THEN IF mtpKnown THEN TimeTimelocked(i, tip) ELSE "unknown"
    ELSE IF IsBlockTimelocked(i, tip) THEN "locked" ELSE "free"

Timelocked(i, tip, mtpKnown) ==
    IF IsBlockTimelocked(i, tip) THEN "locked"
    ELSE IF ~HasUnit(i.absolute, "time") /\ ~HasUnit(RelativeTimelock(i), "time") THEN "free"
    ELSE IF mtpKnown THEN TimeTimelocked(i, tip) ELSE "unknown"

(* filter_unspendable: is_spendable(..) = Some(true) *)
IsSpendable(i, tip, mtpKnown) ==
    ~IsImmature(i, tip) /\ Timelocked(i, tip, mtpKnown) = "free"

Confirmations(i, tip) ==
    IF i.height = 0 THEN 0 ELSE Saturating(tip - Saturating(i.height - 1))

-----------------------------------------------------------------------------
(* set_sequence *)

(* Plausible bug: the relative lock of the plan is not looked at. *)
SetSequenceOk_AbsoluteOnly(i, s) == i.absolute # NoLock => s # SeqMax

SetSequenceOk(i, s) ==
    /\ i.absolute # NoLock => s # SeqMax
    /\ i.kind = "plan" /\ i.relative # NoLock => Implied(i.relative, s)

-----------------------------------------------------------------------------
(***************************************************************************)
(* Consensus (external): when block h may contain a transaction tx =       *)
(* [version, lock_time, sequence] whose inputs are ins.                    *)
(***************************************************************************)

(* IsFinalTx, with MTP of the previous block for time locks (BIP 113) *)
Final(tx, h) ==
    \/ \A n \in DOMAIN tx.sequence : tx.sequence[n] = SeqMax
    \/ tx.lock_time.unit = "blocks" /\ tx.lock_time.value < h
    \/ tx.lock_time.unit = "time" /\ tx.lock_time.value < MTP[h - 1]

(* BIP 68; an unconfirmed output is confirmed in block h at the earliest. *)
SequenceLockMet(i, s, h) ==
    LET from == IF i.height = 0 THEN h ELSE i.height
    IN  /\ s.unit = "blocks" => h - from >= s.value
        /\ s.unit = "time" => MTP[h - 1] - MTP[from - 1] >= s.value * Granularity

(* OP_CLTV and OP_CSV (BIP 65, BIP 112) for input i with sequence s *)
CltvMet(tx, i, s) == i.absolute # NoLock => Implied(i.absolute, tx.lock_time) /\ s # SeqMax
CsvMet(tx, i, s) ==
    i.kind = "plan" /\ i.relative # NoLock => tx.version >= 2 /\ Implied(i.relative, s)

Mature(i, h) == i.coinbase => i.height # 0 /\ h - i.height >= Maturity

ValidInBlock(tx, ins, h) ==
    /\ Final(tx, h)
    /\ \A n \in DOMAIN ins :
          /\ tx.version >= 2 => SequenceLockMet(ins[n], tx.sequence[n], h)
          /\ Mature(ins[n], h)
=============================================================================
