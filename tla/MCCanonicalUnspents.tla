------------------------ MODULE MCCanonicalUnspents ------------------------
(* CanonicalUnspents over the ledger of MCLedger. *)
EXTENDS CanonicalUnspents, MCLedger

Psbt(prev, txout, coinbase, final) ==
    [non_witness_utxo |-> prev, witness_utxo |-> txout,
     is_coinbase |-> coinbase, cltv_final |-> final]

MCForeign ==
    {Psbt("none", "none", FALSE, FALSE), Psbt("prev", "prev", FALSE, FALSE),
     Psbt("other", "none", FALSE, FALSE), Psbt("none", "other", FALSE, FALSE),
     Psbt("none", "prev", TRUE, FALSE), Psbt("prev", "none", FALSE, TRUE)}

(* The state without the outcome of the last call, which no call looks at *)
BeyondRet == <<txs, statuses, spends, rbf, picked, inputs, evicted, replaced>>

(* No foreign inputs, where the question is about extractions alone. *)
MCNoForeign == {}
=============================================================================
