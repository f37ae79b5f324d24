------------------------------ MODULE MCLedger ------------------------------
(***************************************************************************)
(* A small ledger with what matters to an extraction: a chain, a diamond   *)
(* (d spends both b and c), two spenders of one parent, two conflicting    *)
(* transactions (c and r), an output of value 0, and a coinbase; with a    *)
(* second coinbase, both spend the null outpoint.  ViewInit takes every    *)
(* canonical subset, those where a parent is missing included.             *)
(***************************************************************************)
EXTENDS Naturals, TLC

CONSTANTS cb, a, b, c, d, r, cb2, none

Op(t, v) == [txid |-> t, vout |-> v]

MCTxid == {cb, a, b, c, d, r}

MCInputs ==
    (cb :> {Op(none, 0)}) @@
    (a  :> {Op(cb, 0)}) @@
    (b  :> {Op(a, 0)}) @@
    (c  :> {Op(a, 1), Op(cb, 1)}) @@
    (d  :> {Op(b, 0), Op(c, 0)}) @@
    (r  :> {Op(a, 1), Op(a, 2)})

MCOutputs ==
    (cb :> <<20, 9>>) @@
    (a  :> <<7, 8, 0>>) @@
    (b  :> <<5>>) @@
    (c  :> <<13>>) @@
    (d  :> <<10, 1>>) @@
    (r  :> <<6>>)

(* With the second coinbase, which nothing spends *)
MCTxids == MCTxid \cup {cb2}
MCAllInputs == MCInputs @@ (cb2 :> {Op(none, 0)})
MCAllOutputs == MCOutputs @@ (cb2 :> <<9>>)
=============================================================================
