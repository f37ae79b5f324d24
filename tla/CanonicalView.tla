---------------------------- MODULE CanonicalView ----------------------------
(***************************************************************************)
(* What CanonicalUnspents promises its caller: a set of transactions with  *)
(* its unspent outputs, from which replaced transactions disappear         *)
(* together with everything that depends on them, giving back the outputs  *)
(* they had spent.                                                         *)
(***************************************************************************)
EXTENDS Ledger

VARIABLES view,   \* the canonical transactions
          utxos   \* the outputs of view nobody in view spends

vars == <<view, utxos>>

Init == /\ view \in {S \in SUBSET Txid : Canonical(S)}
        /\ utxos = UnspentOutputs(view)

(***************************************************************************)
(* Replace R: R and its descendants leave.  Their fees must be known, so   *)
(* every output they spend is an output of the view.                       *)
(***************************************************************************)
Evict(R) ==
    LET gone == R \cup Descendants(view, R)
    IN  /\ SpentBy(gone) \subseteq CreatedBy(view)
        /\ view' = view \ gone
        /\ utxos' = (utxos \cup SpentBy(gone)) \ CreatedBy(gone)

Next == \E R \in SUBSET view : Evict(R)

Spec == Init /\ [][Next]_vars
=============================================================================
