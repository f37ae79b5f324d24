----------------------------- MODULE MCSelector -----------------------------
(***************************************************************************)
(* Four outputs and a stale Input for one of them (b2 is b with another    *)
(* value), segwit and legacy; two addresses and two filters that cut       *)
(* across them; payments that need one, two or all of the inputs, and a    *)
(* replacement.                                                            *)
(***************************************************************************)
EXTENDS Selection

CONSTANTS a, b, b2, c, d

MCPrevOutpoint == (a :> 1) @@ (b :> 2) @@ (b2 :> 2) @@ (c :> 3) @@ (d :> 4)
MCInputId == {a, b, b2, c, d}
MCValue == (a :> 14) @@ (b :> 9) @@ (b2 :> 8) @@ (c :> 6) @@ (d :> 17)
MCWeight == (a :> 1) @@ (b :> 2) @@ (b2 :> 2) @@ (c :> 1) @@ (d :> 3)
MCSegwit == {a, b, b2}
MCLockUnit == (a :> "blocks") @@ (b :> NoUnit) @@ (b2 :> NoUnit) @@ (c :> NoUnit) @@ (d :> "time")

MCPolicies ==
    {(a :> 1) @@ (b :> 1) @@ (b2 :> 1) @@ (c :> 2) @@ (d :> 2),
     (a :> 1) @@ (b :> 2) @@ (b2 :> 2) @@ (c :> 2) @@ (d :> 3)}

MCFilters == {{a, b, b2, c}, {a, c, d}}

MCOffers ==
    {[must |-> m, can |-> s] :
        m \in {<<>>, <<a>>, <<b2, b>>},
        s \in {<<a, b, c, d>>, <<c, b2, b, a>>, <<d, c, b>>, <<>>}}

Pay(value, rate, replace) ==
    [value |-> value, recipients |-> 2, weight |-> 2, feerate |-> rate, min_change |-> 1,
     replace |-> replace, change_error |-> "none", longterm |-> FALSE]

MCRequests ==
    {[Pay(4, 1, NoReplace) EXCEPT !.longterm = TRUE], Pay(7, 3, NoReplace), Pay(28, 0, NoReplace),
     [Pay(1, 1, NoReplace) EXCEPT !.change_error = "InsufficientAssets"],
     [Pay(1, 1, NoReplace) EXCEPT !.change_error = "Miniscript"],
     Pay(4, 1, [original_txs |-> <<[fee |-> 5, weight |-> 3], [fee |-> 1, weight |-> 1]>>,
                descendant_fee |-> 1, incremental |-> 1])}
=============================================================================
