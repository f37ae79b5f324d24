---------------------------- MODULE MCReplacement ----------------------------
(***************************************************************************)
(* The wallet of MCLedger can spend what a payment and its change gave it; *)
(* the replacement cancels or pays 3.                                      *)
(***************************************************************************)
EXTENDS Replacement, MCLedger

MCMine == {Op(cb, 0), Op(cb, 1), Op(cb2, 0), Op(a, 0), Op(a, 1), Op(a, 2), Op(b, 0), Op(c, 0), Op(d, 1)}

(* Three and the number of inputs and outputs, as for the replacement *)
MCTxWeight == (cb :> 6) @@ (a :> 7) @@ (b :> 5) @@ (c :> 6) @@ (d :> 7) @@ (r :> 6) @@
              (cb2 :> 5)

MCInputId == CreatedBy(MCTxids)
MCPrevOutpoint == [op \in MCInputId |-> op]
MCValue == [op \in MCInputId |-> ValueOf(op)]
MCWeight == [op \in MCInputId |-> 1]
MCLockUnit == [op \in MCInputId |-> NoUnit]

Pay(value, recipients, rate) ==
    [value |-> value, recipients |-> recipients, weight |-> recipients, feerate |-> rate,
     min_change |-> 0, replace |-> NoReplace, change_error |-> "none", longterm |-> value > 0]

MCRequests == {Pay(0, 0, 1), Pay(3, 1, 1)}
=============================================================================
