---------------------------- MODULE MCFinalizer ----------------------------
(***************************************************************************)
(* Two wallets and four inputs: one of each wallet, one both have a plan   *)
(* for and need two cosigners, and one that came in presigned. Alice has   *)
(* two accounts whose numbers start alike, bob an extended key without an  *)
(* origin one step below its master, carol a single key.                   *)
(***************************************************************************)
EXTENDS Finalizer, TLC

CONSTANTS alice, bob, carol, m1, m2, m3

Num(n) == [index |-> n, hardened |-> FALSE]
Hard(n) == [index |-> n, hardened |-> TRUE]
Root(m) == [master |-> m, path |-> <<>>]
Xprv(fp, path) == [kind |-> "xprv", key |-> Below(fp, path), origin |-> [fp |-> fp, path |-> path]]

(* The two accounts of alice, hardened or not *)
first == Below(Root(m1), <<Hard(1), Num(0)>>)
tenth == Below(Root(m1), <<Hard(10), Num(0)>>)
loose == Below(Root(m1), <<Num(10), Num(0)>>)
bobs == Below(Root(m2), <<Num(3), Num(0)>>)
carols == Root(m3)

MCSource ==
    [k \in {first, tenth, loose, bobs, carols} |->
        IF k = carols THEN [fp |-> k, path |-> <<>>]
        ELSE [fp |-> Root(k.master), path |-> k.path]]

MCPlanKeys == (1 :> {tenth}) @@ (2 :> {bobs}) @@ (3 :> {first, carols}) @@ (4 :> {bobs})
MCPlans == (alice :> {1, 3}) @@ (bob :> {2, 3})
MCKey == {first, tenth, bobs, carols}
MCKeySource == [k \in MCKey |-> MCSource[k]]

Others == (bob :> <<[kind |-> "xprv", key |-> Below(Root(m2), <<Num(3)>>), origin |-> NoOrigin]>>)
          @@ (carol :> <<[kind |-> "single", key |-> carols]>>)
MCKeyMaps ==
    (alice :> <<Xprv(Root(m1), <<Hard(1)>>), Xprv(Root(m1), <<Hard(10)>>)>>) @@ Others

(* The same psbt when alice's accounts are not hardened *)
LooseKey == {loose, bobs, carols}
LooseKeySource == [k \in LooseKey |-> MCSource[k]]
LoosePlanKeys == (1 :> {loose}) @@ (2 :> {bobs}) @@ (3 :> {loose, carols}) @@ (4 :> {bobs})
LooseKeyMaps ==
    (alice :> <<Xprv(Root(m1), <<Num(1)>>), Xprv(Root(m1), <<Num(10)>>)>>) @@ Others
=============================================================================
