--------------------------- MODULE FinalizerProof ---------------------------
(***************************************************************************)
(* The safety of finalization, for any number of inputs, keys, cosigners   *)
(* and wallets.  First the Signer: one whose origins are true and end in   *)
(* hardened steps answers with the key it was asked for, whatever else its *)
(* KeyMap holds, because the written form of a path that ends in an        *)
(* apostrophe starts only the paths it is a prefix of, step by step.  Then *)
(* finalization: a final input is signed because finalize_input takes the  *)
(* signatures it finds and, when the origins in the KeyMaps are hardened,  *)
(* a Signer makes only those the plan asks for; that the outputs are       *)
(* cleared last needs that a result other than Ok(true) of any input that  *)
(* is not final keeps FinalizeMap from being finalized.                    *)
(***************************************************************************)
EXTENDS Finalizer, WellFoundedInduction, TLAPS

-----------------------------------------------------------------------------
(* The Signer *)

(* Two derivations in a row are one. *)
LEMMA BelowBelow ==
    ASSUME NEW n \in Node, NEW p \in Path, NEW q \in Path
    PROVE  Below(Below(n, p), q) = Below(n, p \o q)
<1>1. /\ n.path \in Seq(ChildNumber)
      /\ p \in Seq(ChildNumber)
      /\ q \in Seq(ChildNumber)
  BY DEF Node, Path
<1>2. ASSUME NEW r \in Seq(ChildNumber)
      PROVE  (r \o p) \o q = r \o (p \o q)
  BY <1>1
<1>3. (n.path \o p) \o q = n.path \o (p \o q)
  BY <1>1, <1>2, Zenon
<1> QED BY <1>3 DEF Below

LEMMA BelowIsNode ==
    ASSUME NEW n \in Node, NEW p \in Path
    PROVE  Below(n, p) \in Node
BY DEF Below, Node, Path

LEMMA FromIsPath ==
    ASSUME NEW d \in Path, NEW n \in Nat, n <= Len(d)
    PROVE  From(d, n) \in Path
BY DEF From, Path

(* The written form of a path with a hardened end starts only its continuations. *)
LEMMA HardenedPrefix ==
    ASSUME NEW d \in Path, NEW p \in Path, StartsWith(d, p),
           p # <<>> => p[Len(p)].hardened
    PROVE  Len(p) <= Len(d) /\ d = p \o From(d, Len(p))
<1>1. CASE p = <<>>
  BY <1>1 DEF From, Path
<1>2. CASE p # <<>>
  <2>1. /\ Len(p) <= Len(d)
        /\ \A n \in 1..Len(p) - 1 : p[n] = d[n]
        /\ Begins(p[Len(p)], d[Len(p)])
    BY <1>2 DEF StartsWith
  <2>2. p[Len(p)] = d[Len(p)]
    BY <1>2, <2>1 DEF Begins
  <2>3. \A n \in 1..Len(p) : p[n] = d[n]
    BY <2>1, <2>2 DEF Path
  <2> QED BY <2>1, <2>3 DEF From, Path
<1> QED BY <1>1, <1>2

(* An extended key answers with the key the derivation leads to. *)
LEMMA XprivIsRight ==
    ASSUME NEW key \in Node, NEW source \in KeySource
    PROVE  XprivGetKey(key, source) \subseteq {Below(source.fp, source.path)}
<1>1. source.fp \in Node /\ source.path \in Path
  BY DEF KeySource
<1>2. CASE source.fp = key
  BY <1>2 DEF XprivGetKey
<1>3. CASE source.fp # key /\ IsChildOf(key, source.fp, source.path)
  <2>1. source.path # <<>> /\ key = Below(source.fp, <<Head(source.path)>>)
    BY <1>3 DEF IsChildOf
  <2>2. /\ <<Head(source.path)>> \in Path
        /\ From(source.path, 1) \in Path
        /\ <<Head(source.path)>> \o From(source.path, 1) = source.path
    BY <1>1, <2>1 DEF From, Path
  <2>3. Below(key, From(source.path, 1)) = Below(source.fp, source.path)
    <3>1. Below(key, From(source.path, 1))
              = Below(Below(source.fp, <<Head(source.path)>>), From(source.path, 1))
      BY <2>1
    <3>2. @ = Below(source.fp, <<Head(source.path)>> \o From(source.path, 1))
      BY <1>1, <2>2, BelowBelow
    <3> QED BY <2>2, <3>1, <3>2
  <2> QED BY <1>3, <2>3 DEF XprivGetKey
<1>4. CASE source.fp # key /\ ~IsChildOf(key, source.fp, source.path)
  BY <1>4 DEF XprivGetKey
<1> QED BY <1>2, <1>3, <1>4

(* So does an extended key with a true and hardened origin. *)
LEMMA XprvAnswerIsRight ==
    ASSUME NEW e \in Entry, e.kind = "xprv", NEW source \in KeySource,
           e.origin # NoOrigin =>
               /\ Leads(e.origin, e.key)
               /\ e.origin.path # <<>> => e.origin.path[Len(e.origin.path)].hardened
    PROVE  XprvAnswer(e, source) \subseteq {Below(source.fp, source.path)}
<1>1. /\ source.fp \in Node /\ source.path \in Path
      /\ e.key \in Node
      /\ e.origin # NoOrigin => e.origin \in KeySource
  BY DEF KeySource, Entry
<1>2. CASE XprivGetKey(e.key, source) # {}
  BY <1>1, <1>2, XprivIsRight DEF XprvAnswer
<1>3. CASE XprivGetKey(e.key, source) = {} /\ e.origin # NoOrigin /\ IsFromOrigin(e.origin, source)
  <2> DEFINE o == e.origin
             rest == From(source.path, Len(o.path))
  <2>1. o.fp \in Node /\ o.path \in Path
    BY <1>1, <1>3 DEF KeySource
  <2>2. source.fp = o.fp /\ StartsWith(source.path, o.path)
    BY <1>3 DEF IsFromOrigin
  <2>3. Len(o.path) <= Len(source.path) /\ source.path = o.path \o rest
    BY <1>1, <1>3, <2>1, <2>2, HardenedPrefix
  <2>4. rest \in Path
    BY <1>1, <2>1, <2>3, FromIsPath DEF Path
  <2>5. Below(e.key, rest) = Below(Below(o.fp, o.path), rest)
    BY <1>3 DEF Leads
  <2>6. @ = Below(o.fp, o.path \o rest)
    BY <2>1, <2>4, BelowBelow
  <2>7. @ = Below(source.fp, source.path)
    BY <2>2, <2>3
  <2>8. XprvAnswer(e, source) = {Below(e.key, rest)}
    BY <1>3 DEF XprvAnswer
  <2> QED BY <2>5, <2>6, <2>7, <2>8
<1>4. CASE XprivGetKey(e.key, source) = {} /\ ~(e.origin # NoOrigin /\ IsFromOrigin(e.origin, source))
  BY <1>4 DEF XprvAnswer
<1> QED BY <1>2, <1>3, <1>4

(***************************************************************************)
(* Asked for a derivation, a Signer answers with the key the derivation    *)
(* leads to or not at all, in whatever order its KeyMap is.                *)
(***************************************************************************)
THEOREM GetKeyIsRight ==
    ASSUME NEW keymap \in Seq(Entry), TrueOrigins(keymap), HardenedOrigins(keymap),
           NEW source \in KeySource
    PROVE  GetKey(keymap, [kind |-> "bip32", source |-> source])
               \subseteq {Below(source.fp, source.path)}
<1> DEFINE req == [kind |-> "bip32", source |-> source]
<1>1. ASSUME NEW n \in DOMAIN keymap
      PROVE  Answer(keymap[n], req) \subseteq {Below(source.fp, source.path)}
  <2>1. keymap[n] \in Entry
    OBVIOUS
  <2>2. CASE keymap[n].kind = "xprv"
    <3>1. XprvAnswer(keymap[n], source) \subseteq {Below(source.fp, source.path)}
      BY <2>1, <2>2, XprvAnswerIsRight DEF TrueOrigins, HardenedOrigins
    <3> QED BY <2>2, <3>1 DEF Answer
  <2>3. CASE keymap[n].kind # "xprv"
    BY <2>3 DEF Answer
  <2> QED BY <2>2, <2>3
<1> HIDE DEF req
<1>2. GetKey(keymap, req) \subseteq {Below(source.fp, source.path)}
  BY <1>1 DEF GetKey
<1> QED BY <1>2 DEF req

(* Every non-empty set of natural numbers has a least element. *)
LEMMA LeastExists ==
    ASSUME NEW A, A \subseteq Nat, A # {}
    PROVE  \E m \in A : \A l \in A : m <= l
<1> DEFINE Less == {ss \in Nat \X Nat : ss[1] < ss[2]}
<1>1. IsWellFoundedOn(Less, Nat)
  BY NatLessThanWellFounded, Zenon DEF OpToRel
<1> HIDE DEF Less
<1>2. PICK m \in A : \A l \in A : ~ (<<l, m>> \in Less)
  BY <1>1, WFMin, Zenon
<1>3. ASSUME NEW l \in A PROVE m <= l
  <2>1. ~ (l < m)
    BY <1>2 DEF Less
  <2> QED BY <2>1
<1> QED BY <1>3

(* A path starts with the written form of each of its prefixes. *)
LEMMA PrefixStarts ==
    ASSUME NEW p \in Path, NEW rest \in Path
    PROVE  StartsWith(p \o rest, p)
<1>1. Len(p \o rest) = Len(p) + Len(rest) /\ \A n \in 1..Len(p) : (p \o rest)[n] = p[n]
  BY DEF Path
<1>2. Len(p) \in Nat /\ Len(rest) \in Nat /\ (p # <<>> => Len(p) > 0)
  BY DEF Path
<1> QED BY <1>1, <1>2 DEF StartsWith, Begins

(***************************************************************************)
(* And it does answer when an origin in its KeyMap is a prefix of the      *)
(* derivation, whichever entry comes first.                                *)
(***************************************************************************)
THEOREM GetKeyFinds ==
    ASSUME NEW keymap \in Seq(Entry), TrueOrigins(keymap), HardenedOrigins(keymap),
           NEW source \in KeySource,
           NEW n \in DOMAIN keymap, keymap[n].kind = "xprv", keymap[n].origin # NoOrigin,
           keymap[n].origin.fp = source.fp,
           NEW rest \in Path, source.path = keymap[n].origin.path \o rest
    PROVE  GetKey(keymap, [kind |-> "bip32", source |-> source])
               = {Below(source.fp, source.path)}
<1> DEFINE req == [kind |-> "bip32", source |-> source]
           answering == {m \in DOMAIN keymap : Answer(keymap[m], req) # {}}
<1>1. keymap[n].origin \in KeySource
  BY DEF Entry
<1>2. IsFromOrigin(keymap[n].origin, source)
  BY <1>1, PrefixStarts DEF IsFromOrigin, KeySource
<1>3. XprvAnswer(keymap[n], source) # {}
  BY <1>2 DEF XprvAnswer
<1>4. Answer(keymap[n], req) # {}
  BY <1>3 DEF Answer
<1>5. PICK m \in answering : \A l \in answering : m <= l
  <2>1. answering \subseteq Nat /\ n \in answering
    BY <1>4
  <2> HIDE DEF answering
  <2> QED BY <2>1, LeastExists
<1> HIDE DEF req
<1>6. GetKey(keymap, req) # {}
  BY <1>5 DEF GetKey
<1>7. GetKey(keymap, req) \subseteq {Below(source.fp, source.path)}
  BY GetKeyIsRight DEF req
<1> QED BY <1>6, <1>7 DEF req

(* Asked for a public key, it answers with that key's private key. *)
LEMMA PubkeyAnswerIsRight ==
    ASSUME NEW keymap, NEW key
    PROVE  GetKey(keymap, [kind |-> "pubkey", key |-> key]) \subseteq {key}
<1> DEFINE req == [kind |-> "pubkey", key |-> key]
<1>1. ASSUME NEW e PROVE Answer(e, req) \subseteq {key}
  BY DEF Answer
<1> HIDE DEF req
<1>2. GetKey(keymap, req) \subseteq {key}
  BY <1>1 DEF GetKey
<1> QED BY <1>2 DEF req

(***************************************************************************)
(* What a psbt is signed with for a key is that key, as long as the psbt's *)
(* derivation of the key and the origins in the KeyMap are true and the    *)
(* origins end in hardened steps.                                          *)
(***************************************************************************)
THEOREM SignWithIsRight ==
    ASSUME NEW keymap \in Seq(Entry), TrueOrigins(keymap), HardenedOrigins(keymap),
           NEW source \in KeySource, NEW key, Leads(source, key)
    PROVE  SignWith(keymap, key, source) \subseteq {key}
BY GetKeyIsRight, PubkeyAnswerIsRight DEF SignWith, Leads

(* Whatever the origins are, what a psbt is signed with are keys. *)
LEMMA GetKeyNodes ==
    ASSUME NEW keymap \in Seq(Entry), NEW req \in Request
    PROVE  GetKey(keymap, req) \subseteq Node
<1>1. ASSUME NEW e \in Entry, e.kind = "xprv", NEW source \in KeySource
      PROVE  XprvAnswer(e, source) \subseteq Node
  <2>1. /\ source.fp \in Node /\ source.path \in Path
        /\ e.key \in Node
        /\ e.origin # NoOrigin => e.origin \in KeySource
    BY <1>1 DEF KeySource, Entry
  <2>2. XprivGetKey(e.key, source) \subseteq Node
    BY <2>1, XprivIsRight, BelowIsNode
  <2>3. ASSUME e.origin # NoOrigin, IsFromOrigin(e.origin, source)
        PROVE  Below(e.key, From(source.path, Len(e.origin.path))) \in Node
    <3>1. e.origin.path \in Path
      BY <2>1, <2>3 DEF KeySource
    <3>2. Len(e.origin.path) \in Nat /\ Len(e.origin.path) <= Len(source.path)
      BY <2>1, <2>3, <3>1 DEF IsFromOrigin, StartsWith, Path
    <3>3. From(source.path, Len(e.origin.path)) \in Path
      BY <2>1, <3>2, FromIsPath
    <3> QED BY <2>1, <3>3, BelowIsNode
  <2> QED BY <2>2, <2>3 DEF XprvAnswer
<1>2. ASSUME NEW n \in DOMAIN keymap PROVE Answer(keymap[n], req) \subseteq Node
  <2>1. keymap[n] \in Entry
    OBVIOUS
  <2>2. keymap[n].key \in Node
    BY <2>1 DEF Entry
  <2>3. req.kind = "bip32" => req.source \in KeySource
    BY DEF Request
  <2>4. CASE keymap[n].kind = "xprv"
    BY <1>1, <2>1, <2>3, <2>4 DEF Answer
  <2>5. CASE keymap[n].kind # "xprv"
    BY <2>2, <2>5 DEF Answer
  <2> QED BY <2>4, <2>5
<1> QED BY <1>2 DEF GetKey

LEMMA SignWithNodes ==
    ASSUME NEW keymap \in Seq(Entry), NEW source \in KeySource, NEW key \in Node
    PROVE  SignWith(keymap, key, source) \subseteq Node
<1>1. /\ [kind |-> "bip32", source |-> source] \in Request
      /\ [kind |-> "pubkey", key |-> key] \in Request
  BY DEF Request
<1> QED BY <1>1, GetKeyNodes DEF SignWith

-----------------------------------------------------------------------------
(* Finalization *)

Hardened == \A s \in Cosigner : HardenedOrigins(KeyMaps[s])

IInv == /\ TypeOK
        /\ ClearedWhenAllFinal
        /\ Hardened => SignedByTheRightKeys /\ FinalIsSigned

(* The inputs that one call may make final *)
Ready(done) == done \subseteq InputIndex \ final /\ \A i \in done : Satisfied(i)

(***************************************************************************)
(* What a Signer adds are signatures, and of the keys of the plan.         *)
(***************************************************************************)
LEMMA SignaturesAreRight ==
    ASSUME Hardened, NEW s \in Cosigner, NEW i \in InputIndex
    PROVE  Added(s, i) \subseteq Valid(PlanKeys[i])
<1>1. ASSUME NEW k \in PlanKeys[i] PROVE SignWith(KeyMaps[s], k, Source[k]) \subseteq {k}
  <2>1. k \in Key /\ Source[k] \in KeySource /\ Leads(Source[k], k)
    BY FinalizerAssumption
  <2>2. KeyMaps[s] \in Seq(Entry) /\ TrueOrigins(KeyMaps[s]) /\ HardenedOrigins(KeyMaps[s])
    BY FinalizerAssumption DEF Hardened
  <2> QED BY <2>1, <2>2, SignWithIsRight
<1>2. ASSUME NEW t \in Signatures(s, i) PROVE t \in Valid(PlanKeys[i])
  <2>1. PICK k \in PlanKeys[i] : \E g \in SignWith(KeyMaps[s], k, Source[k]) :
            t = [slot |-> IF i \in Taproot THEN k ELSE g, by |-> g]
    BY DEF Signatures
  <2>2. t = [slot |-> k, by |-> k]
    BY <1>1, <2>1
  <2> QED BY <2>2 DEF Valid
<1> QED BY <1>2 DEF Added

LEMMA SignaturesHaveType ==
    ASSUME NEW s \in Cosigner, NEW i \in InputIndex
    PROVE  Added(s, i) \subseteq Signature
<1>1. ASSUME NEW k \in PlanKeys[i] PROVE SignWith(KeyMaps[s], k, Source[k]) \subseteq Node
  <2>1. k \in Node /\ Source[k] \in KeySource /\ KeyMaps[s] \in Seq(Entry)
    BY FinalizerAssumption
  <2> QED BY <2>1, SignWithNodes
<1>2. ASSUME NEW t \in Signatures(s, i) PROVE t \in Signature
  <2>1. PICK k \in PlanKeys[i] : \E g \in SignWith(KeyMaps[s], k, Source[k]) :
            t = [slot |-> IF i \in Taproot THEN k ELSE g, by |-> g]
    BY DEF Signatures
  <2>2. k \in Node
    BY FinalizerAssumption
  <2> QED BY <1>1, <2>1, <2>2 DEF Signature
<1> QED BY <1>2 DEF Added

(***************************************************************************)
(* Taking the fields of inputs that are ready keeps everything but the     *)
(* flag for the outputs (finalize_input after Plan::satisfy).              *)
(***************************************************************************)
LEMMA FinishKeeps ==
    ASSUME IInv, NEW done, Ready(done), Finish(done)
    PROVE  /\ sigs' \in [InputIndex -> SUBSET Signature]
           /\ used' \in [InputIndex -> SUBSET Signature]
           /\ metadata' = InputIndex \ final'
           /\ final' \subseteq InputIndex
           /\ final \subseteq final'
           /\ Hardened => SignedByTheRightKeys' /\ FinalIsSigned'
<1>1. /\ sigs \in [InputIndex -> SUBSET Signature]
      /\ used \in [InputIndex -> SUBSET Signature]
      /\ metadata = InputIndex \ final
      /\ final \subseteq InputIndex
  BY DEF IInv, TypeOK
<1>2. /\ used' = [i \in InputIndex |-> IF i \in done THEN Taken(i) ELSE used[i]]
      /\ sigs' = [i \in InputIndex |-> IF i \in done THEN {} ELSE sigs[i]]
      /\ metadata' = metadata \ done
      /\ final' = final \cup done
  BY DEF Finish
<1>3. \A i \in InputIndex : Taken(i) \subseteq Signature
  BY <1>1 DEF Taken
<1>4. /\ sigs' \in [InputIndex -> SUBSET Signature]
      /\ used' \in [InputIndex -> SUBSET Signature]
  BY <1>1, <1>2, <1>3
<1>5. ASSUME Hardened PROVE SignedByTheRightKeys'
  BY <1>2, <1>5 DEF IInv, SignedByTheRightKeys
<1>6. ASSUME Hardened PROVE FinalIsSigned'
  <2> SUFFICES ASSUME NEW i \in final' PROVE used'[i] = Valid(PlanKeys[i])
    BY DEF FinalIsSigned
  <2>1. i \in InputIndex
    BY <1>1, <1>2 DEF Ready
  <2>2. CASE i \in done
    <3>1. sigs[i] \subseteq Valid(PlanKeys[i])
      BY <1>6, <2>1 DEF IInv, SignedByTheRightKeys
    <3>2. \A k \in PlanKeys[i] : \E t \in sigs[i] : t.slot = k
      BY <2>2 DEF Ready, Satisfied, Filled
    <3>3. ASSUME NEW k \in PlanKeys[i] PROVE [slot |-> k, by |-> k] \in Taken(i)
      <4>1. PICK t \in sigs[i] : t.slot = k
        BY <3>2
      <4>2. t = [slot |-> k, by |-> k]
        BY <3>1, <4>1 DEF Valid
      <4> QED BY <4>1, <4>2 DEF Taken
    <3>4. Taken(i) = Valid(PlanKeys[i])
      BY <3>1, <3>3 DEF Taken, Valid
    <3> QED BY <1>2, <2>1, <2>2, <3>4
  <2>3. CASE i \notin done
    BY <1>2, <1>6, <2>1, <2>3 DEF IInv, FinalIsSigned
  <2> QED BY <2>2, <2>3
<1> QED BY <1>1, <1>2, <1>4, <1>5, <1>6 DEF Ready

(* The single input finalize_input may finish, and those of finalize, are ready. *)
LEMMA InputReady ==
    ASSUME IInv, NEW w \in Wallet, NEW i \in InputIndex
    PROVE  Ready(IF ResultOf(w, i) = "true" THEN {i} \ final ELSE {})
BY DEF Ready, ResultOf

LEMMA MapReady ==
    ASSUME IInv, NEW w \in Wallet,
           NEW map, map = [i \in InputIndex \ final |-> ResultOf(w, i)]
    PROVE  Ready({i \in DOMAIN map : map[i] = "true"})
BY DEF Ready, ResultOf

(***************************************************************************)
(* The initial states: presigned inputs count as signed.                   *)
(***************************************************************************)
LEMMA InitIInv == Init => IInv
<1> SUFFICES ASSUME Init PROVE IInv
  OBVIOUS
<1>1. \A i \in InputIndex : Valid(PlanKeys[i]) \subseteq Signature
  BY FinalizerAssumption DEF Valid, Signature
<1>2. TypeOK
  BY <1>1, FinalizerAssumption DEF Init, TypeOK, Outcome
<1>3. ClearedWhenAllFinal
  BY DEF Init, ClearedWhenAllFinal
<1>4. SignedByTheRightKeys /\ FinalIsSigned
  BY FinalizerAssumption DEF Init, SignedByTheRightKeys, FinalIsSigned
<1> QED BY <1>2, <1>3, <1>4 DEF IInv

(***************************************************************************)
(* Every step preserves the invariant.                                     *)
(***************************************************************************)
LEMMA StepIInv == IInv /\ [Next]_vars => IInv'
<1> SUFFICES ASSUME IInv, [Next]_vars PROVE IInv'
  OBVIOUS
<1>1. ASSUME NEW s \in Cosigner, Sign(s) PROVE IInv'
  <2>1. sigs' = [i \in InputIndex |-> sigs[i] \cup Added(s, i)]
    BY <1>1 DEF Sign
  <2>2. UNCHANGED <<metadata, final, used, cleared, results>>
    BY <1>1 DEF Sign
  <2>3. sigs' \in [InputIndex -> SUBSET Signature]
    BY <2>1, SignaturesHaveType DEF IInv, TypeOK
  <2>4. TypeOK'
    BY <2>2, <2>3 DEF IInv, TypeOK
  <2>5. ASSUME Hardened PROVE SignedByTheRightKeys'
    BY <2>1, <2>5, SignaturesAreRight DEF IInv, SignedByTheRightKeys
  <2>6. ClearedWhenAllFinal' /\ (Hardened => FinalIsSigned')
    BY <2>2 DEF IInv, FinalIsSigned, ClearedWhenAllFinal
  <2> QED BY <2>4, <2>5, <2>6 DEF IInv, Hardened
<1>2. ASSUME NEW w \in Wallet, NEW i \in InputIndex, FinalizeInput(w, i) PROVE IInv'
  <2> DEFINE done == IF ResultOf(w, i) = "true" THEN {i} \ final ELSE {}
  <2>1. Ready(done) /\ Finish(done)
    BY <1>2, InputReady DEF FinalizeInput
  <2>2. UNCHANGED <<cleared, results>>
    BY <1>2 DEF FinalizeInput
  <2> HIDE DEF done
  <2>3. /\ sigs' \in [InputIndex -> SUBSET Signature]
        /\ used' \in [InputIndex -> SUBSET Signature]
        /\ metadata' = InputIndex \ final'
        /\ final' \subseteq InputIndex
        /\ final \subseteq final'
        /\ Hardened => SignedByTheRightKeys' /\ FinalIsSigned'
    BY <2>1, FinishKeeps
  <2>4. TypeOK'
    BY <2>2, <2>3 DEF IInv, TypeOK
  <2>5. ClearedWhenAllFinal'
    BY <2>2, <2>3 DEF IInv, ClearedWhenAllFinal
  <2> QED BY <2>3, <2>4, <2>5 DEF IInv, Hardened
<1>3. ASSUME NEW w \in Wallet, Finalize(w) PROVE IInv'
  <2> DEFINE map == [i \in InputIndex \ final |-> ResultOf(w, i)]
             done == {i \in DOMAIN map : map[i] = "true"}
  <2>1. Ready(done)
    BY MapReady
  <2>2. /\ Finish(done)
        /\ results' = map
        /\ cleared' = (cleared \/ IsFinalized(map))
    BY <1>3 DEF Finalize
  <2>3. \A i \in DOMAIN map : map[i] \in Outcome
    BY DEF ResultOf, Outcome
  <2>4. IsFinalized(map) => done = InputIndex \ final
    BY DEF IsFinalized
  <2>5. DOMAIN map = InputIndex \ final
    OBVIOUS
  <2>6. final' = final \cup done
    BY <2>2 DEF Finish
  <2> HIDE DEF map, done
  <2>7. /\ sigs' \in [InputIndex -> SUBSET Signature]
        /\ used' \in [InputIndex -> SUBSET Signature]
        /\ metadata' = InputIndex \ final'
        /\ final' \subseteq InputIndex
        /\ final \subseteq final'
        /\ Hardened => SignedByTheRightKeys' /\ FinalIsSigned'
    BY <2>1, <2>2, FinishKeeps
  <2>8. cleared' \in BOOLEAN
    BY <2>2 DEF IInv, TypeOK
  <2>9. TypeOK'
    BY <2>2, <2>3, <2>5, <2>7, <2>8 DEF TypeOK
  <2>10. ClearedWhenAllFinal'
    <3> SUFFICES ASSUME cleared' PROVE final' = InputIndex
      BY DEF ClearedWhenAllFinal
    <3>1. CASE cleared
      BY <2>7, <3>1 DEF IInv, ClearedWhenAllFinal
    <3>2. CASE IsFinalized(map)
      BY <2>4, <2>6, <2>7, <3>2
    <3> QED BY <2>2, <3>1, <3>2
  <2> QED BY <2>7, <2>9, <2>10 DEF IInv, Hardened
<1>4. CASE UNCHANGED vars
  BY <1>4 DEF IInv, Hardened, TypeOK, SignedByTheRightKeys, FinalIsSigned, ClearedWhenAllFinal, vars
<1> QED BY <1>1, <1>2, <1>3, <1>4 DEF Next

(***************************************************************************)
(* The strengthened invariant: the outputs are cleared last and, under     *)
(* hardened origins, signatures are of the keys of the plans and final     *)
(* inputs are signed.                                                      *)
(***************************************************************************)
THEOREM Invariance == Spec => []IInv
<1>1. Init => IInv
  BY InitIInv
<1>2. IInv /\ [Next]_vars => IInv'
  BY StepIInv
<1> QED BY <1>1, <1>2, PTL DEF Spec

(***************************************************************************)
(* The variables keep their types, and final inputs have no metadata left. *)
(***************************************************************************)
THEOREM TypeCorrect == Spec => []TypeOK
<1>1. IInv => TypeOK
  BY DEF IInv
<1> QED BY <1>1, Invariance, PTL

(***************************************************************************)
(* When the origins of all KeyMaps end in hardened steps, every signature  *)
(* in the psbt is made by the key it stands for.                           *)
(***************************************************************************)
THEOREM SignaturesAreOfTheRightKeys == Spec => [](Hardened => SignedByTheRightKeys)
<1>1. IInv => (Hardened => SignedByTheRightKeys)
  BY DEF IInv
<1> QED BY <1>1, Invariance, PTL

(***************************************************************************)
(* Then a final input carries exactly the valid signatures of its plan.    *)
(***************************************************************************)
THEOREM FinalInputsAreSigned == Spec => [](Hardened => FinalIsSigned)
<1>1. IInv => (Hardened => FinalIsSigned)
  BY DEF IInv
<1> QED BY <1>1, Invariance, PTL

(***************************************************************************)
(* The outputs lose their key origins only when every input is final.      *)
(***************************************************************************)
THEOREM ClearingIsLast == Spec => []ClearedWhenAllFinal
<1>1. IInv => ClearedWhenAllFinal
  BY DEF IInv
<1> QED BY <1>1, Invariance, PTL

KeepsSignatures ==
    \A i \in InputIndex :
        /\ i \notin final' => sigs[i] \subseteq sigs'[i] /\ (i \in metadata => i \in metadata')
        /\ i \in final => i \in final' /\ used'[i] = used[i]

(* Taking the fields of inputs that are ready touches no other input. *)
LEMMA FinishLosesNothing ==
    ASSUME NEW done, Ready(done), Finish(done)
    PROVE  KeepsSignatures
<1>1. /\ used' = [i \in InputIndex |-> IF i \in done THEN Taken(i) ELSE used[i]]
      /\ sigs' = [i \in InputIndex |-> IF i \in done THEN {} ELSE sigs[i]]
      /\ metadata' = metadata \ done
      /\ final' = final \cup done
  BY DEF Finish
<1>2. done \cap final = {}
  BY DEF Ready
<1> QED BY <1>1, <1>2 DEF KeepsSignatures

(* No step loses a signature of an input that stays open. *)
LEMMA StepLosesNothing == IInv /\ [Next]_vars => [KeepsSignatures]_vars
<1> SUFFICES ASSUME IInv, Next PROVE KeepsSignatures
  OBVIOUS
<1>1. ASSUME NEW s \in Cosigner, Sign(s) PROVE KeepsSignatures
  <2>1. sigs' = [i \in InputIndex |-> sigs[i] \cup Added(s, i)]
    BY <1>1 DEF Sign
  <2>2. UNCHANGED <<metadata, final, used>>
    BY <1>1 DEF Sign
  <2> QED BY <2>1, <2>2 DEF KeepsSignatures
<1>2. ASSUME NEW w \in Wallet, NEW i \in InputIndex, FinalizeInput(w, i) PROVE KeepsSignatures
  BY <1>2, InputReady, FinishLosesNothing DEF FinalizeInput
<1>3. ASSUME NEW w \in Wallet, Finalize(w) PROVE KeepsSignatures
  <2> DEFINE map == [i \in InputIndex \ final |-> ResultOf(w, i)]
             done == {i \in DOMAIN map : map[i] = "true"}
  <2>1. Ready(done) /\ Finish(done)
    BY <1>3, MapReady DEF Finalize
  <2> HIDE DEF done
  <2> QED BY <2>1, FinishLosesNothing
<1> QED BY <1>1, <1>2, <1>3 DEF Next

(***************************************************************************)
(* A failed or refused finalization loses no signature, and a final input  *)
(* never changes again.                                                    *)
(***************************************************************************)
THEOREM FailuresLoseNothing == Spec => FailureKeepsSignatures
<1>1. IInv /\ [Next]_vars => [KeepsSignatures]_vars
  BY StepLosesNothing
<1>2. Spec => [][KeepsSignatures]_vars
  BY <1>1, Invariance, PTL DEF Spec
<1> QED BY <1>2 DEF FailureKeepsSignatures, KeepsSignatures
=============================================================================
