------------------------------- MODULE Ledger -------------------------------
(***************************************************************************)
(* The transactions a wallet may know: external data (rust-bitcoin's       *)
(* Transaction, OutPoint and TxOut) as the crate uses it.  A transaction   *)
(* is its txid; Inputs gives the outpoints it spends and Outputs the       *)
(* values of its outputs, numbered from 0.                                 *)
(***************************************************************************)
EXTENDS Integers, Sequences, FiniteSets, Functions

CONSTANTS Txid,     \* every transaction, known to the wallet or not
          NoTxid,   \* the all-zero txid of a coinbase's only input
          Inputs,   \* Inputs[t]: the outpoints t spends
          Outputs   \* Outputs[t]: the values of t's outputs

OutPoint == [txid : Txid \cup {NoTxid}, vout : Nat]
NullOutPoint == [txid |-> NoTxid, vout |-> 0]

OutPointsOf(t) == {[txid |-> t, vout |-> v] : v \in 0 .. Len(Outputs[t]) - 1}
ValueOf(op) == Outputs[op.txid][op.vout + 1]

SumValues(ops) == SumFunction([op \in ops |-> ValueOf(op)])

IsCoinbase(t) == Inputs[t] = {NullOutPoint}

(***************************************************************************)
(* What consensus guarantees of any set of transactions: inputs name       *)
(* outputs that exist, and only a coinbase has the null outpoint.          *)
(***************************************************************************)
ASSUME LedgerAssumption ==
    /\ IsFiniteSet(Txid)
    /\ NoTxid \notin Txid
    /\ Inputs \in [Txid -> SUBSET OutPoint]
    /\ Outputs \in [Txid -> Seq(Nat)]
    /\ \A t \in Txid : \A op \in Inputs[t] :
          \/ op.txid \in Txid /\ op \in OutPointsOf(op.txid)
          \/ op = NullOutPoint /\ IsCoinbase(t)

(***************************************************************************)
(* No transaction but a coinbase creates value, and none rests on itself:  *)
(* it commits to the txids of the transactions it spends.                  *)
(***************************************************************************)
ASSUME ConsensusAssumption ==
    /\ \A t \in Txid : ~IsCoinbase(t) => SumValues(Inputs[t]) >= SumValues(OutPointsOf(t))
    /\ \A S \in SUBSET Txid : S # {} => \E t \in S : \A op \in Inputs[t] : op.txid \notin S

SpentBy(S) == UNION {Inputs[t] : t \in S}
CreatedBy(S) == UNION {OutPointsOf(t) : t \in S}

(***************************************************************************)
(* A canonical set: no output is spent twice (every coinbase shares the    *)
(* null outpoint, which is no output).                                     *)
(***************************************************************************)
Canonical(S) ==
    \A t, u \in S : \A op \in Inputs[t] \cap Inputs[u] :
        t = u \/ op = NullOutPoint

(***************************************************************************)
(* The transactions of S that spend an output of t, and the least set that *)
(* holds the spenders of R and is closed under spending.                   *)
(***************************************************************************)
Spenders(S, t) == {c \in S : \E op \in Inputs[c] : op.txid = t}

SpendClosed(S, R, D) == \A p \in R \cup D : Spenders(S, p) \subseteq D

Descendants(S, R) ==
    LET closed == {D \in SUBSET S : SpendClosed(S, R, D)}
    IN  {t \in S : \A D \in closed : t \in D}

UnspentOutputs(S) == CreatedBy(S) \ SpentBy(S)
=============================================================================
