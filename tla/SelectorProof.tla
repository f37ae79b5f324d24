---------------------------- MODULE SelectorProof ----------------------------
(***************************************************************************)
(* Coin selection for any inputs, policies, filters, offers and requests:  *)
(* the caches agree with the groups, regroup and filter lose nothing, and  *)
(* a Selection respects the groups and pays its fee.                       *)
(***************************************************************************)
EXTENDS Selector, DataFacts

-----------------------------------------------------------------------------
(* Groups *)

LEMMA OutpointsAreKeys == \A s : OutpointsOf(s) = Keys(PrevOutpoint, s)
BY DEF OutpointsOf, Keys

(* The groups are the must_select group, if there is one, and the others. *)
LEMMA GroupsOfFacts ==
    ASSUME NEW m \in Seq(InputId), NEW c \in Seq(Seq(InputId))
    PROVE  /\ GroupsOf(m, c) \in Seq(Seq(InputId))
           /\ m = <<>> => GroupsOf(m, c) = c
           /\ m # <<>> => /\ DOMAIN GroupsOf(m, c) = 1 .. Len(c) + 1
                          /\ GroupsOf(m, c)[1] = m
                          /\ \A k \in DOMAIN c : GroupsOf(m, c)[k + 1] = c[k]
           /\ DOMAIN c = 1 .. Len(c) /\ Len(c) \in Nat
<1>1. DOMAIN c = 1 .. Len(c) /\ Len(c) \in Nat
  BY LenProperties
<1>2. <<m>> \in Seq(Seq(InputId)) /\ Len(<<m>>) = 1 /\ <<m>>[1] = m
  OBVIOUS
<1>3. <<m>> \o c \in Seq(Seq(InputId)) /\ Len(<<m>> \o c) = 1 + Len(c)
      /\ \A i \in 1 .. 1 + Len(c) : (<<m>> \o c)[i] = IF i <= 1 THEN <<m>>[i] ELSE c[i - 1]
  BY <1>2, ConcatProperties
<1>4. DOMAIN (<<m>> \o c) = 1 .. Len(c) + 1
  <2>1. DOMAIN (<<m>> \o c) = 1 .. 1 + Len(c)
    BY <1>3, LenProperties
  <2> QED BY <1>1, <2>1
<1>5. (<<m>> \o c)[1] = m
  BY <1>1, <1>2, <1>3
<1>6. ASSUME NEW k \in DOMAIN c PROVE (<<m>> \o c)[k + 1] = c[k]
  <2>1. k + 1 \in 1 .. 1 + Len(c) /\ ~(k + 1 <= 1) /\ (k + 1) - 1 = k
    BY <1>1
  <2> QED BY <1>3, <2>1
<1> QED BY <1>1, <1>3, <1>4, <1>5, <1>6 DEF GroupsOf

LEMMA GroupsOfRange ==
    ASSUME NEW m \in Seq(InputId), NEW c \in Seq(Seq(InputId))
    PROVE  /\ AllInputs(m, c) \in Seq(InputId)
           /\ ToSet(AllInputs(m, c)) = ToSet(m) \cup UNION {ToSet(c[k]) : k \in DOMAIN c}
           /\ \A k \in DOMAIN GroupsOf(m, c) :
                 \/ GroupsOf(m, c)[k] = m /\ k = 1 /\ m # <<>>
                 \/ \E l \in DOMAIN c : /\ GroupsOf(m, c)[k] = c[l]
                                        /\ k = IF m = <<>> THEN l ELSE l + 1
<1> DEFINE G == GroupsOf(m, c)
<1>1. G \in Seq(Seq(InputId)) /\ DOMAIN c = 1 .. Len(c) /\ Len(c) \in Nat
  BY GroupsOfFacts
<1>2. m = <<>> => G = c
  BY GroupsOfFacts
<1>3. m # <<>> => DOMAIN G = 1 .. Len(c) + 1 /\ G[1] = m /\ \A k \in DOMAIN c : G[k + 1] = c[k]
  BY GroupsOfFacts
<1> HIDE DEF G
<1>4. ASSUME NEW k \in DOMAIN G
      PROVE  \/ G[k] = m /\ k = 1 /\ m # <<>>
             \/ \E l \in DOMAIN c : G[k] = c[l] /\ k = IF m = <<>> THEN l ELSE l + 1
  <2>1. CASE m = <<>>
    BY <1>2, <2>1
  <2>2. CASE m # <<>> /\ k = 1
    BY <1>3, <2>2
  <2>3. CASE m # <<>> /\ k # 1
    <3>1. k \in 1 .. Len(c) + 1
      BY <1>3, <2>3
    <3>2. k - 1 \in DOMAIN c /\ (k - 1) + 1 = k
      BY <1>1, <2>3, <3>1
    <3> QED BY <1>3, <2>3, <3>2
  <2> QED BY <2>1, <2>2, <2>3
<1>5. AllInputs(m, c) \in Seq(InputId) /\ ToSet(AllInputs(m, c)) = UNION {ToSet(G[k]) : k \in DOMAIN G}
  BY <1>1, FlattenAppend, FlattenRange, EmptySeq DEF AllInputs, G
<1>6. UNION {ToSet(G[k]) : k \in DOMAIN G} = ToSet(m) \cup UNION {ToSet(c[k]) : k \in DOMAIN c}
  <2>1. CASE m = <<>>
    <3>1. ToSet(m) = {}
      BY <2>1 DEF ToSet
    <3> QED BY <1>2, <2>1, <3>1
  <2>2. CASE m # <<>>
    <3>1. 1 \in DOMAIN G /\ \A k \in DOMAIN c : k + 1 \in DOMAIN G
      BY <1>1, <1>3, <2>2
    <3>2. UNION {ToSet(G[k]) : k \in DOMAIN G} \subseteq ToSet(m) \cup UNION {ToSet(c[k]) : k \in DOMAIN c}
      BY <1>4
    <3>3. ToSet(m) \cup UNION {ToSet(c[k]) : k \in DOMAIN c} \subseteq UNION {ToSet(G[k]) : k \in DOMAIN G}
      BY <1>3, <2>2, <3>1
    <3> QED BY <3>2, <3>3
  <2> QED BY <2>1, <2>2
<1> QED BY <1>4, <1>5, <1>6 DEF G

(* No outpoint occurs twice when none does in the parts. *)
LEMMA GroupsOfSeparate ==
    ASSUME NEW m \in Seq(InputId), NEW c \in Seq(Seq(InputId)), NEW key,
           Distinct(key, m), Separate(key, c), \A k \in DOMAIN c : Keys(key, m) \cap Keys(key, c[k]) = {}
    PROVE  Separate(key, GroupsOf(m, c))
<1> DEFINE G == GroupsOf(m, c)
<1>1. \A k \in DOMAIN G :
                 \/ G[k] = m /\ k = 1 /\ m # <<>>
                 \/ \E l \in DOMAIN c : G[k] = c[l] /\ k = IF m = <<>> THEN l ELSE l + 1
  BY GroupsOfRange
<1> HIDE DEF G
<1>2. \A a \in DOMAIN m : \A l \in DOMAIN c : \A b \in DOMAIN c[l] : key[m[a]] # key[c[l][b]]
  BY DEF Keys, ToSet
<1> SUFFICES ASSUME NEW k \in DOMAIN G, NEW l \in DOMAIN G, NEW i \in DOMAIN G[k], NEW j \in DOMAIN G[l],
                    key[G[k][i]] = key[G[l][j]]
             PROVE  k = l /\ i = j
  BY DEF Separate, G
<1>3. CASE k = 1 /\ G[k] = m
  BY <1>1, <1>2, <1>3 DEF Distinct
<1>4. CASE l = 1 /\ G[l] = m
  BY <1>1, <1>2, <1>4 DEF Distinct
<1>5. CASE ~(k = 1 /\ G[k] = m) /\ ~(l = 1 /\ G[l] = m)
  <2>1. PICK kk \in DOMAIN c : G[k] = c[kk] /\ k = IF m = <<>> THEN kk ELSE kk + 1
    BY <1>1, <1>5
  <2>2. PICK ll \in DOMAIN c : G[l] = c[ll] /\ l = IF m = <<>> THEN ll ELSE ll + 1
    BY <1>1, <1>5
  <2>3. kk = ll /\ i = j
    BY <2>1, <2>2 DEF Separate
  <2> QED BY <2>1, <2>2, <2>3
<1> QED BY <1>3, <1>4, <1>5

(* G puts together those inputs of s that have the id of a leader. *)
IsGrouping(G, p, s, leaders) ==
    /\ G \in Seq(Seq(InputId))
    /\ DOMAIN G = DOMAIN leaders
    /\ \A n \in DOMAIN G : ToSet(G[n]) = {i \in ToSet(s) : p[i] = p[leaders[n]]}
    /\ Separate(PrevOutpoint, G)
    /\ UNION {ToSet(G[n]) : n \in DOMAIN G} = {i \in ToSet(s) : p[i] \in Keys(p, leaders)}

(* What regroup makes of the inputs s, for leaders of different ids *)
LEMMA GroupsInOrderFacts ==
    ASSUME NEW p, NEW s \in Seq(InputId), NEW leaders \in Seq(InputId),
           Distinct(PrevOutpoint, s), Distinct(p, leaders)
    PROVE  IsGrouping(GroupsInOrder(p, s, leaders), p, s, leaders)
<1> DEFINE At(n) == {k \in DOMAIN s : p[s[k]] = p[leaders[n]]}
           G == GroupsInOrder(p, s, leaders)
<1>1. DOMAIN leaders = 1 .. Len(leaders) /\ Len(leaders) \in Nat
  BY LenProperties
<1>2. G = [n \in DOMAIN leaders |-> Subsequence(s, At(n))]
  BY DEF GroupsInOrder, InGroup
<1>3. ASSUME NEW n \in DOMAIN leaders
      PROVE  /\ G[n] \in Seq(InputId)
             /\ ToSet(G[n]) = {i \in ToSet(s) : p[i] = p[leaders[n]]}
             /\ Distinct(PrevOutpoint, G[n])
  <2>1. At(n) \in SUBSET DOMAIN s /\ G[n] = Subsequence(s, At(n))
    BY <1>2
  <2>2. \A i, j \in At(n) : PrevOutpoint[s[i]] = PrevOutpoint[s[j]] => i = j
    BY DEF Distinct
  <2>3. {s[k] : k \in At(n)} = {i \in ToSet(s) : p[i] = p[leaders[n]]}
    BY DEF ToSet
  <2> HIDE DEF At, G
  <2>4. G[n] \in Seq(InputId) /\ ToSet(G[n]) = {s[k] : k \in At(n)}
    BY <2>1, SubsequenceType, SubsequenceRange
  <2>5. Distinct(PrevOutpoint, G[n])
    BY <2>1, <2>2, SubsequenceDistinct
  <2> QED BY <2>3, <2>4, <2>5
<1>4. DOMAIN G = DOMAIN leaders /\ G \in [1 .. Len(leaders) -> Seq(InputId)]
  BY <1>1, <1>2, <1>3
<1>5. G \in Seq(Seq(InputId))
  BY <1>1, <1>4, SeqDef
<1> HIDE DEF G
<1>6. Separate(PrevOutpoint, G)
  <2> SUFFICES ASSUME NEW k \in DOMAIN G, NEW l \in DOMAIN G, NEW i \in DOMAIN G[k], NEW j \in DOMAIN G[l],
                      PrevOutpoint[G[k][i]] = PrevOutpoint[G[l][j]]
               PROVE  k = l /\ i = j
    BY DEF Separate
  <2>1. G[k][i] \in ToSet(G[k]) /\ G[l][j] \in ToSet(G[l])
    BY DEF ToSet
  <2>2. G[k][i] \in ToSet(s) /\ p[G[k][i]] = p[leaders[k]] /\ G[l][j] \in ToSet(s) /\ p[G[l][j]] = p[leaders[l]]
    BY <1>3, <1>4, <2>1
  <2>3. G[k][i] = G[l][j]
    BY <2>2, DistinctElements
  <2>4. k = l
    BY <1>4, <2>2, <2>3 DEF Distinct
  <2> QED BY <1>3, <1>4, <2>4 DEF Distinct
<1>7. UNION {ToSet(G[n]) : n \in DOMAIN G} = {i \in ToSet(s) : p[i] \in Keys(p, leaders)}
  <2>1. Keys(p, leaders) = {p[leaders[n]] : n \in DOMAIN leaders}
    BY DEF Keys, ToSet
  <2>2. \A i : i \in UNION {ToSet(G[n]) : n \in DOMAIN G} <=> \E n \in DOMAIN leaders : i \in ToSet(s) /\ p[i] = p[leaders[n]]
    BY <1>3, <1>4
  <2>3. \A i : i \in {j \in ToSet(s) : p[j] \in Keys(p, leaders)} <=> \E n \in DOMAIN leaders : i \in ToSet(s) /\ p[i] = p[leaders[n]]
    BY <2>1
  <2> QED BY <2>2, <2>3
<1> QED BY <1>3, <1>4, <1>5, <1>6, <1>7 DEF G, IsGrouping

-----------------------------------------------------------------------------
(* The invariant of the candidates *)

(* The must_select group, the others and their inputs are what they should *)
(* be, and no outpoint occurs twice in them.                               *)
GroupsInv ==
    /\ must \in Seq(InputId)
    /\ can \in Seq(Seq(InputId))
    /\ \A k \in DOMAIN can : can[k] # <<>>
    /\ Distinct(PrevOutpoint, must)
    /\ Separate(PrevOutpoint, can)
    /\ \A k \in DOMAIN can : Keys(PrevOutpoint, must) \cap Keys(PrevOutpoint, can[k]) = {}

CacheInv ==
    /\ cs = BuildCs(must, can)
    /\ contains = OutpointsOf(AllInputs(must, can))

(* Optional groups have only inputs that every filter kept, and have all *)
(* inputs of an id of the last policy.                                   *)
PolicyInv ==
    \A k \in DOMAIN can :
       /\ ToSet(can[k]) \subseteq kept
       /\ \A i \in ToSet(can[k]), j \in ToSet(AllInputs(must, can)) :
             policy[i] = policy[j] => j \in ToSet(can[k])

CandidatesInv == GroupsInv /\ CacheInv /\ PolicyInv

(* Candidates that are what new makes of some inputs *)
AreNew ==
    \E offer \in [must : Seq(InputId), can : Seq(InputId)] :
        /\ must = NewFrom(offer).must
        /\ can = NewFrom(offer).can
        /\ cs = BuildCs(must, can)
        /\ contains = NewFrom(offer).contains
        /\ policy = NoPolicy
        /\ kept = InputId

LEMMA NewCandidatesInv == AreNew => CandidatesInv
<1> SUFFICES ASSUME AreNew PROVE CandidatesInv
  OBVIOUS
<1>1. PICK offer \in [must : Seq(InputId), can : Seq(InputId)] :
        LET first == FirstBy(PrevOutpoint, offer.must, {})
            rest == FirstBy(PrevOutpoint, offer.can, OutpointsOf(first))
        IN  /\ must = first
            /\ can = [k \in DOMAIN rest |-> <<rest[k]>>]
            /\ cs = BuildCs(must, can)
            /\ contains = OutpointsOf(first \o rest)
            /\ policy = NoPolicy
            /\ kept = InputId
  BY DEF AreNew, NewFrom
<1> DEFINE rest == FirstBy(PrevOutpoint, offer.can, OutpointsOf(must))
<1>2. must = FirstBy(PrevOutpoint, offer.must, {}) /\ can = [k \in DOMAIN rest |-> <<rest[k]>>]
      /\ cs = BuildCs(must, can) /\ contains = OutpointsOf(must \o rest) /\ policy = NoPolicy /\ kept = InputId
  BY <1>1
<1>3. offer.must \in Seq(InputId) /\ offer.can \in Seq(InputId)
  OBVIOUS
<1>4. must \in Seq(InputId) /\ Distinct(PrevOutpoint, must)
  BY <1>2, <1>3, FirstByFacts
<1>5. rest \in Seq(InputId) /\ Distinct(PrevOutpoint, rest)
      /\ Keys(PrevOutpoint, rest) = Keys(PrevOutpoint, offer.can) \ OutpointsOf(must)
  BY <1>3, FirstByFacts
<1> HIDE DEF rest
<1>6. DOMAIN rest = 1 .. Len(rest) /\ Len(rest) \in Nat /\ \A k \in DOMAIN rest : rest[k] \in InputId
  BY <1>5, LenProperties, ElementOfSeq
<1>7. DOMAIN can = DOMAIN rest
  BY <1>2
<1>8. ASSUME NEW k \in DOMAIN can
      PROVE  /\ can[k] = <<rest[k]>> /\ can[k] \in Seq(InputId) /\ can[k] # <<>>
             /\ DOMAIN can[k] = {1} /\ can[k][1] = rest[k] /\ ToSet(can[k]) = {rest[k]}
  <2>1. can[k] = <<rest[k]>> /\ rest[k] \in InputId
    BY <1>2, <1>6, <1>7
  <2>2. DOMAIN <<rest[k]>> = {1} /\ <<rest[k]>>[1] = rest[k] /\ <<rest[k]>> \in Seq(InputId) /\ <<rest[k]>> # <<>>
    BY <2>1
  <2>3. ToSet(<<rest[k]>>) = {rest[k]}
    BY <2>2 DEF ToSet
  <2> QED BY <2>1, <2>2, <2>3
<1>9. can \in Seq(Seq(InputId))
  <2>1. can \in [1 .. Len(rest) -> Seq(InputId)]
    BY <1>2, <1>6, <1>7, <1>8
  <2> QED BY <1>6, <2>1, SeqDef
<1>10. Separate(PrevOutpoint, can)
  BY <1>5, <1>7, <1>8 DEF Separate, Distinct
<1>11. \A k \in DOMAIN can : Keys(PrevOutpoint, must) \cap Keys(PrevOutpoint, can[k]) = {}
  <2>1. \A k \in DOMAIN can : Keys(PrevOutpoint, can[k]) \subseteq Keys(PrevOutpoint, rest)
    BY <1>7, <1>8 DEF Keys, ToSet
  <2> QED BY <1>5, <2>1, OutpointsAreKeys
<1>12. ToSet(AllInputs(must, can)) = ToSet(must \o rest)
  <2>1. ToSet(AllInputs(must, can)) = ToSet(must) \cup UNION {ToSet(can[k]) : k \in DOMAIN can}
    BY <1>4, <1>9, GroupsOfRange
  <2>2. UNION {ToSet(can[k]) : k \in DOMAIN can} = ToSet(rest)
    BY <1>7, <1>8 DEF ToSet
  <2>3. ToSet(must \o rest) = ToSet(must) \cup ToSet(rest)
    BY <1>4, <1>5, ToSetConcat
  <2> QED BY <2>1, <2>2, <2>3
<1>13. PolicyInv
  <2>1. \A j \in ToSet(AllInputs(must, can)) : j \in InputId
    <3>1. AllInputs(must, can) \in Seq(InputId)
      BY <1>4, <1>9, GroupsOfRange
    <3> QED BY <3>1, ElementOfSeq, LenProperties DEF ToSet
  <2> QED BY <1>2, <1>6, <1>7, <1>8, <2>1 DEF PolicyInv, NoPolicy
<1> QED BY <1>2, <1>4, <1>8, <1>9, <1>10, <1>11, <1>12, <1>13 DEF CandidatesInv, GroupsInv, CacheInv, OutpointsOf

(* The inputs of the optional groups, in their order *)
LEMMA FlatFacts ==
    ASSUME GroupsInv
    PROVE  /\ FlattenSeq(can) \in Seq(InputId)
           /\ Distinct(PrevOutpoint, FlattenSeq(can))
           /\ ToSet(FlattenSeq(can)) = UNION {ToSet(can[k]) : k \in DOMAIN can}
           /\ ToSet(AllInputs(must, can)) = ToSet(must) \cup ToSet(FlattenSeq(can))
           /\ Keys(PrevOutpoint, must) \cap Keys(PrevOutpoint, FlattenSeq(can)) = {}
<1>1. can \in Seq(Seq(InputId)) /\ must \in Seq(InputId)
  BY DEF GroupsInv
<1>2. FlattenSeq(can) \in Seq(InputId) /\ ToSet(FlattenSeq(can)) = UNION {ToSet(can[k]) : k \in DOMAIN can}
  BY <1>1, FlattenAppend, FlattenRange, EmptySeq
<1>3. Distinct(PrevOutpoint, FlattenSeq(can))
  BY <1>1, FlattenDistinct DEF GroupsInv
<1>4. ToSet(AllInputs(must, can)) = ToSet(must) \cup ToSet(FlattenSeq(can))
  BY <1>1, <1>2, GroupsOfRange
<1>5. Keys(PrevOutpoint, must) \cap Keys(PrevOutpoint, FlattenSeq(can)) = {}
  <2> SUFFICES ASSUME NEW x \in ToSet(must), NEW y \in ToSet(FlattenSeq(can)), PrevOutpoint[x] = PrevOutpoint[y]
               PROVE  FALSE
    BY DEF Keys
  <2>1. PICK k \in DOMAIN can : y \in ToSet(can[k])
    BY <1>2
  <2>2. PrevOutpoint[x] \in Keys(PrevOutpoint, must) \cap Keys(PrevOutpoint, can[k])
    BY <2>1 DEF Keys
  <2> QED BY <2>2 DEF GroupsInv
<1> QED BY <1>2, <1>3, <1>4, <1>5

(* regroup keeps the inputs there are and the ids of must_select apart. *)
LEMMA RegroupInv ==
    ASSUME CandidatesInv, NEW p \in Policies, Regroup(p)
    PROVE  /\ CandidatesInv'
           /\ ToSet(must) \subseteq ToSet(must')
           /\ ToSet(AllInputs(must', can')) = ToSet(AllInputs(must, can))
<1> DEFINE flat == FlattenSeq(can)
           own == FirstBy(p, must, {})
           taken == {p[i] : i \in ToSet(must)}
           leaders == FirstBy(p, flat, taken)
           joining == GroupsInOrder(p, flat, own)
           absorbed == FlattenSeq(joining)
<1>1. GroupsInv /\ CacheInv /\ PolicyInv
  BY DEF CandidatesInv
<1>2. must' = must \o absorbed /\ can' = GroupsInOrder(p, flat, leaders) /\ cs' = BuildCs(must', can')
      /\ policy' = p /\ contains' = contains /\ kept' = kept
  BY DEF Regroup, Absorbed, Regrouped
<1>3. must \in Seq(InputId) /\ can \in Seq(Seq(InputId)) /\ Distinct(PrevOutpoint, must)
  BY <1>1 DEF GroupsInv
<1>4. flat \in Seq(InputId) /\ Distinct(PrevOutpoint, flat)
      /\ ToSet(flat) = UNION {ToSet(can[k]) : k \in DOMAIN can}
      /\ ToSet(AllInputs(must, can)) = ToSet(must) \cup ToSet(flat)
      /\ Keys(PrevOutpoint, must) \cap Keys(PrevOutpoint, flat) = {}
  BY <1>1, FlatFacts
<1> HIDE DEF flat
<1>5. taken = Keys(p, must)
  BY DEF Keys
<1>6. own \in Seq(InputId) /\ Distinct(p, own) /\ Keys(p, own) = taken
  BY <1>3, <1>5, FirstByFacts
<1>7. leaders \in Seq(InputId) /\ ToSet(leaders) \subseteq ToSet(flat) /\ Distinct(p, leaders)
      /\ Keys(p, leaders) = Keys(p, flat) \ taken
  BY <1>4, FirstByFacts
<1> HIDE DEF own, leaders
<1>8. joining \in Seq(Seq(InputId)) /\ Separate(PrevOutpoint, joining)
      /\ UNION {ToSet(joining[n]) : n \in DOMAIN joining} = {i \in ToSet(flat) : p[i] \in taken}
  <2>1. IsGrouping(joining, p, flat, own)
    BY <1>4, <1>6, GroupsInOrderFacts
  <2> QED BY <1>6, <2>1 DEF IsGrouping
<1>9. can' \in Seq(Seq(InputId)) /\ Separate(PrevOutpoint, can') /\ DOMAIN can' = DOMAIN leaders
      /\ (\A n \in DOMAIN can' : ToSet(can'[n]) = {i \in ToSet(flat) : p[i] = p[leaders[n]]})
      /\ UNION {ToSet(can'[n]) : n \in DOMAIN can'} = {i \in ToSet(flat) : p[i] \in Keys(p, leaders)}
  <2>1. IsGrouping(can', p, flat, leaders)
    BY <1>2, <1>4, <1>7, GroupsInOrderFacts
  <2> QED BY <2>1 DEF IsGrouping
<1> HIDE DEF joining
<1>10. absorbed \in Seq(InputId) /\ Distinct(PrevOutpoint, absorbed)
       /\ ToSet(absorbed) = {i \in ToSet(flat) : p[i] \in taken}
  BY <1>8, FlattenAppend, FlattenRange, FlattenDistinct, EmptySeq
<1> HIDE DEF absorbed
<1>11. must' \in Seq(InputId) /\ ToSet(must') = ToSet(must) \cup {i \in ToSet(flat) : p[i] \in taken}
  BY <1>2, <1>3, <1>10, ConcatProperties, ToSetConcat
<1>12. \A i \in ToSet(flat) : p[i] \in Keys(p, flat)
  BY DEF Keys
<1>13. UNION {ToSet(can'[n]) : n \in DOMAIN can'} = {i \in ToSet(flat) : p[i] \notin taken}
  BY <1>7, <1>9, <1>12
<1>14. ToSet(AllInputs(must', can')) = ToSet(AllInputs(must, can))
  <2>1. ToSet(AllInputs(must', can')) = ToSet(must') \cup UNION {ToSet(can'[n]) : n \in DOMAIN can'}
    BY <1>9, <1>11, GroupsOfRange
  <2> QED BY <1>4, <1>11, <1>13, <2>1
<1>15. Distinct(PrevOutpoint, must')
  <2>1. Keys(PrevOutpoint, must) \cap Keys(PrevOutpoint, absorbed) = {}
    BY <1>4, <1>10 DEF Keys
  <2> QED BY <1>2, <1>3, <1>10, <2>1, ConcatDistinct
<1>16. ASSUME NEW k \in DOMAIN can' PROVE Keys(PrevOutpoint, must') \cap Keys(PrevOutpoint, can'[k]) = {}
  <2> SUFFICES ASSUME NEW x \in ToSet(must'), NEW y \in ToSet(can'[k]), PrevOutpoint[x] = PrevOutpoint[y] PROVE FALSE
    BY DEF Keys
  <2>1. y \in ToSet(flat) /\ p[y] \notin taken
    BY <1>13
  <2>2. CASE x \in ToSet(must)
    BY <1>4, <2>1, <2>2 DEF Keys
  <2>3. CASE x \in ToSet(flat) /\ p[x] \in taken
    BY <1>4, <2>1, <2>3, DistinctElements
  <2> QED BY <1>11, <2>2, <2>3
<1>17. \A k \in DOMAIN can' : can'[k] # <<>>
  <2> SUFFICES ASSUME NEW k \in DOMAIN can', can'[k] = <<>> PROVE FALSE
    OBVIOUS
  <2>1. ToSet(can'[k]) = {}
    BY DEF ToSet
  <2>2. leaders[k] \in ToSet(leaders)
    BY <1>9 DEF ToSet
  <2> QED BY <1>7, <1>9, <2>1, <2>2
<1>18. GroupsInv'
  BY <1>9, <1>11, <1>15, <1>16, <1>17 DEF GroupsInv
<1>19. CacheInv'
  BY <1>1, <1>2, <1>14 DEF CacheInv, OutpointsOf
<1>20. PolicyInv'
  <2> SUFFICES ASSUME NEW k \in DOMAIN can'
               PROVE  /\ ToSet(can'[k]) \subseteq kept
                      /\ \A i \in ToSet(can'[k]), j \in ToSet(AllInputs(must', can')) : p[i] = p[j] => j \in ToSet(can'[k])
    BY <1>2 DEF PolicyInv
  <2>1. ToSet(flat) \subseteq kept
    BY <1>1, <1>4 DEF PolicyInv
  <2>2. ASSUME NEW i \in ToSet(can'[k]), NEW j \in ToSet(AllInputs(must', can')), p[i] = p[j]
        PROVE  j \in ToSet(can'[k])
    <3>1. i \in ToSet(flat) /\ p[i] = p[leaders[k]] /\ p[i] \notin taken
      BY <1>9, <1>13
    <3>2. j \in ToSet(must) => p[j] \in taken
      OBVIOUS
    <3>3. j \in ToSet(flat)
      BY <1>4, <1>14, <2>2, <3>1, <3>2
    <3> QED BY <1>9, <2>2, <3>1, <3>3
  <2> QED BY <1>9, <2>1, <2>2
<1> QED BY <1>11, <1>14, <1>18, <1>19, <1>20 DEF CandidatesInv

(* filter takes whole groups away, with their outpoints. *)
LEMMA FilterInv ==
    ASSUME CandidatesInv, NEW keep, FilterInputs(keep)
    PROVE  /\ CandidatesInv'
           /\ must' = must
           /\ ToSet(AllInputs(must', can')) \subseteq ToSet(AllInputs(must, can))
           /\ kept' = kept => ToSet(AllInputs(must', can')) = ToSet(AllInputs(must, can))
<1> DEFINE passing == {k \in DOMAIN can : Passes(can[k], keep)}
           failing == DOMAIN can \ passing
           dropped == Subsequence(can, failing)
<1>1. GroupsInv /\ CacheInv /\ PolicyInv
  BY DEF CandidatesInv
<1>2. must' = must /\ can' = Subsequence(can, passing) /\ contains' = contains \ OutpointsOf(FlattenSeq(dropped))
      /\ cs' = BuildCs(must, can') /\ kept' = kept \cap keep /\ policy' = policy
  BY DEF FilterInputs
<1>3. must \in Seq(InputId) /\ can \in Seq(Seq(InputId)) /\ Distinct(PrevOutpoint, must) /\ Separate(PrevOutpoint, can)
  BY <1>1 DEF GroupsInv
<1>4. passing \in SUBSET DOMAIN can /\ failing \in SUBSET DOMAIN can /\ passing \cup failing = DOMAIN can
  OBVIOUS
<1>5. \A k \in passing : ToSet(can[k]) \subseteq keep
  BY DEF Passes
<1>6. \A k \in failing : ~(ToSet(can[k]) \subseteq keep)
  BY DEF Passes
<1> HIDE DEF passing, failing
<1>7. can' \in Seq(Seq(InputId)) /\ ToSet(can') = {can[k] : k \in passing} /\ Separate(PrevOutpoint, can')
  BY <1>2, <1>3, <1>4, SubsequenceType, SubsequenceRange, SubsequenceSeparate
<1>8. dropped \in Seq(Seq(InputId)) /\ ToSet(dropped) = {can[k] : k \in failing}
  BY <1>3, <1>4, SubsequenceType, SubsequenceRange
<1>9. \A k \in DOMAIN can' : \E l \in passing : can'[k] = can[l]
  BY <1>7 DEF ToSet
<1>10. UNION {ToSet(can'[k]) : k \in DOMAIN can'} = UNION {ToSet(can[k]) : k \in passing}
  <2>1. \A l \in passing : \E k \in DOMAIN can' : can'[k] = can[l]
    BY <1>7 DEF ToSet
  <2> QED BY <1>9, <2>1
<1>11. ToSet(FlattenSeq(dropped)) = UNION {ToSet(can[k]) : k \in failing}
  <2> HIDE DEF dropped
  <2>1. ToSet(FlattenSeq(dropped)) = UNION {ToSet(dropped[k]) : k \in DOMAIN dropped}
    BY <1>8, FlattenRange
  <2>2. \A k \in DOMAIN dropped : \E l \in failing : dropped[k] = can[l]
    BY <1>8 DEF ToSet
  <2>3. \A l \in failing : \E k \in DOMAIN dropped : dropped[k] = can[l]
    BY <1>8 DEF ToSet
  <2> QED BY <2>1, <2>2, <2>3
<1>12. ToSet(AllInputs(must', can')) = ToSet(must) \cup UNION {ToSet(can[k]) : k \in passing}
  <2>1. ToSet(AllInputs(must, can')) = ToSet(must) \cup UNION {ToSet(can'[k]) : k \in DOMAIN can'}
    BY <1>3, <1>7, GroupsOfRange
  <2> QED BY <1>2, <1>10, <2>1
<1>13. ToSet(AllInputs(must, can)) = ToSet(must) \cup UNION {ToSet(can[k]) : k \in DOMAIN can}
  BY <1>3, GroupsOfRange
<1>14. GroupsInv'
  BY <1>1, <1>2, <1>3, <1>4, <1>7, <1>9 DEF GroupsInv
<1>15. OutpointsOf(AllInputs(must', can')) = OutpointsOf(AllInputs(must, can)) \ OutpointsOf(FlattenSeq(dropped))
  <2> DEFINE P == UNION {ToSet(can[k]) : k \in passing}
             Q == UNION {ToSet(can[k]) : k \in failing}
  <2>1. ToSet(AllInputs(must, can)) = ToSet(must) \cup P \cup Q
    BY <1>4, <1>13
  <2>2. ASSUME NEW x \in ToSet(must) \cup P, NEW y \in Q, PrevOutpoint[x] = PrevOutpoint[y] PROVE FALSE
    <3>1. PICK l \in failing : y \in ToSet(can[l])
      OBVIOUS
    <3>2. CASE x \in ToSet(must)
      BY <1>1, <1>4, <2>2, <3>1, <3>2 DEF GroupsInv, Keys
    <3>3. CASE x \in P
      <4>1. PICK k \in passing : x \in ToSet(can[k])
        BY <3>3
      <4>2. PICK i \in DOMAIN can[k] : x = can[k][i]
        BY <4>1 DEF ToSet
      <4>3. PICK j \in DOMAIN can[l] : y = can[l][j]
        BY <3>1 DEF ToSet
      <4>4. k = l
        BY <1>3, <1>4, <2>2, <4>2, <4>3 DEF Separate
      <4> QED BY <4>4 DEF failing
    <3> QED BY <3>2, <3>3
  <2>3. ToSet(AllInputs(must', can')) = ToSet(must) \cup P
    BY <1>12
  <2> HIDE DEF P, Q
  <2> QED BY <1>11, <2>1, <2>2, <2>3 DEF OutpointsOf, Q
<1>16. CacheInv'
  BY <1>1, <1>2, <1>15 DEF CacheInv
<1>17. PolicyInv'
  <2> SUFFICES ASSUME NEW k \in DOMAIN can'
               PROVE  /\ ToSet(can'[k]) \subseteq kept \cap keep
                      /\ \A i \in ToSet(can'[k]), j \in ToSet(AllInputs(must', can')) : policy[i] = policy[j] => j \in ToSet(can'[k])
    BY <1>2 DEF PolicyInv
  <2>1. PICK l \in passing : can'[k] = can[l]
    BY <1>9
  <2>2. l \in DOMAIN can /\ ToSet(can[l]) \subseteq keep /\ ToSet(can[l]) \subseteq kept
    BY <1>1, <1>4, <1>5 DEF PolicyInv
  <2>3. ToSet(AllInputs(must', can')) \subseteq ToSet(AllInputs(must, can))
    BY <1>4, <1>12, <1>13
  <2> QED BY <1>1, <2>1, <2>2, <2>3 DEF PolicyInv
<1>18. ASSUME kept' = kept PROVE passing = DOMAIN can
  <2>1. \A k \in DOMAIN can : ToSet(can[k]) \subseteq keep
    BY <1>1, <1>2, <1>18 DEF PolicyInv
  <2> QED BY <1>4, <1>6, <2>1
<1> QED BY <1>2, <1>4, <1>12, <1>13, <1>14, <1>16, <1>17, <1>18 DEF CandidatesInv

-----------------------------------------------------------------------------
(* The invariant of the selection *)

IsSelection(sel) == sel = [inputs |-> sel.inputs, outputs |-> sel.outputs, change |-> sel.change]

(* The inputs of s in another order *)
Rearranges(t, s) ==
    /\ t \in Seq(InputId)
    /\ ToSet(t) = ToSet(s)
    /\ Distinct(PrevOutpoint, t)

(* The recipients and the change, each once, in any order *)
AreOutputs(outputs, recipients, change) ==
    /\ outputs \in Seq(Nat)
    /\ IsInjective(outputs)
    /\ ToSet(outputs) = (1 .. recipients) \cup (IF change > 0 THEN {0} ELSE {})

SelectingInv ==
    /\ request \in SelectorParams
    /\ stage \in {"candidates", "selecting", "selected", "failed"}
    /\ stage = "failed" <=> error # "none"
    /\ chosen \subseteq DOMAIN cs
    /\ stage = "candidates" => chosen = {}
    /\ stage \in {"selecting", "selected"} /\ must # <<>> => 1 \in chosen
    /\ stage # "selected" => selection = NoSelection
    /\ stage = "selected" =>
          /\ IsTargetMet
          /\ IsSelection(selection)
          /\ Rearranges(selection.inputs, FlattenSeq(Subsequence(GroupsOf(must, can), chosen)))
          /\ selection.change \in {0, Drain}
          /\ AreOutputs(selection.outputs, request.recipients, selection.change)

IInv == CandidatesInv /\ SelectingInv

LEMMA DomainOfCs ==
    ASSUME CacheInv
    PROVE  DOMAIN cs = DOMAIN GroupsOf(must, can)
BY DEF CacheInv, BuildCs

(* The inputs of the chosen groups *)
LEMMA ChosenInputs ==
    ASSUME CandidatesInv, chosen \subseteq DOMAIN cs
    PROVE  LET G == GroupsOf(must, can)
               inputs == FlattenSeq(Subsequence(G, chosen))
           IN  /\ G \in Seq(Seq(InputId)) /\ DOMAIN cs = DOMAIN G /\ chosen \in SUBSET DOMAIN G
               /\ inputs \in Seq(InputId)
               /\ ToSet(inputs) = UNION {ToSet(G[k]) : k \in chosen}
               /\ Distinct(PrevOutpoint, inputs)
<1> DEFINE G == GroupsOf(must, can)
           sub == Subsequence(G, chosen)
           inputs == FlattenSeq(sub)
<1>1. must \in Seq(InputId) /\ can \in Seq(Seq(InputId))
  BY DEF CandidatesInv, GroupsInv
<1>2. Separate(PrevOutpoint, G)
  BY <1>1, GroupsOfSeparate DEF CandidatesInv, GroupsInv
<1>3. G \in Seq(Seq(InputId))
  BY <1>1, GroupsOfFacts
<1>4. DOMAIN cs = DOMAIN G
  BY DomainOfCs DEF CandidatesInv
<1>5. chosen \in SUBSET DOMAIN G
  BY <1>4
<1> HIDE DEF G
<1>6. sub \in Seq(Seq(InputId)) /\ ToSet(sub) = {G[k] : k \in chosen} /\ Separate(PrevOutpoint, sub)
  BY <1>2, <1>3, <1>5, SubsequenceType, SubsequenceRange, SubsequenceSeparate
<1> HIDE DEF sub
<1>7. inputs \in Seq(InputId) /\ Distinct(PrevOutpoint, inputs)
      /\ ToSet(inputs) = UNION {ToSet(sub[k]) : k \in DOMAIN sub}
  BY <1>6, FlattenAppend, FlattenDistinct, FlattenRange, EmptySeq
<1>8. UNION {ToSet(sub[k]) : k \in DOMAIN sub} = UNION {ToSet(G[k]) : k \in chosen}
  <2>1. \A k \in DOMAIN sub : \E l \in chosen : sub[k] = G[l]
    BY <1>6 DEF ToSet
  <2>2. \A l \in chosen : \E k \in DOMAIN sub : sub[k] = G[l]
    BY <1>6 DEF ToSet
  <2> QED BY <2>1, <2>2
<1> QED BY <1>3, <1>4, <1>5, <1>7, <1>8 DEF G, sub

(* The outputs of try_finalize *)
LEMMA FreshOutputs ==
    ASSUME NEW n \in Nat, NEW change
    PROVE  AreOutputs([k \in 1 .. n |-> k] \o (IF change > 0 THEN <<0>> ELSE <<>>), n, change)
<1> DEFINE s == [k \in 1 .. n |-> k]
<1>1. s \in Seq(Nat) /\ Len(s) = n /\ DOMAIN s = 1 .. n /\ \A k \in 1 .. n : s[k] = k
  OBVIOUS
<1> HIDE DEF s
<1>2. ToSet(s) = 1 .. n
  BY <1>1 DEF ToSet
<1>3. CASE change > 0
  <2> DEFINE u == <<0>>
             t == s \o u
  <2>1. u \in Seq(Nat) /\ Len(u) = 1 /\ u[1] = 0 /\ ToSet(u) = {0}
    BY DEF ToSet
  <2> HIDE DEF u
  <2>2. t \in Seq(Nat) /\ Len(t) = n + 1 /\ \A i \in 1 .. n + 1 : t[i] = IF i <= n THEN s[i] ELSE u[i - n]
    <3>1. t \in Seq(Nat) /\ Len(t) = Len(s) + Len(u)
          /\ \A i \in 1 .. Len(s) + Len(u) : t[i] = IF i <= Len(s) THEN s[i] ELSE u[i - Len(s)]
      <4>1. s \in Seq(Nat) /\ u \in Seq(Nat)
        BY <1>1, <2>1
      <4> QED BY <4>1, ConcatProperties, Zenon
    <3> HIDE DEF t
    <3> QED BY <1>1, <2>1, <3>1
  <2>3. ToSet(t) = (1 .. n) \cup {0}
    BY <1>1, <1>2, <2>1, ToSetConcat
  <2>4. DOMAIN t = 1 .. n + 1
    BY <2>2, LenProperties
  <2>5. \A i \in 1 .. n + 1 : t[i] = IF i <= n THEN i ELSE 0
    <3> SUFFICES ASSUME NEW i \in 1 .. n + 1 PROVE t[i] = IF i <= n THEN i ELSE 0
      OBVIOUS
    <3>1. CASE i <= n
      BY <1>1, <2>2, <3>1
    <3>2. CASE ~(i <= n)
      <4>1. i - n = 1
        BY <3>2
      <4> QED BY <2>1, <2>2, <3>2, <4>1
    <3> QED BY <3>1, <3>2
  <2> HIDE DEF t
  <2>6. IsInjective(t)
    BY <2>4, <2>5 DEF IsInjective
  <2> QED BY <1>3, <2>2, <2>3, <2>6 DEF AreOutputs, s, t, u
<1>4. CASE ~(change > 0)
  <2>1. s \o <<>> = s
    BY <1>1, ConcatEmptySeq
  <2>2. IsInjective(s)
    BY <1>1 DEF IsInjective
  <2> QED BY <1>1, <1>2, <1>4, <2>1, <2>2 DEF AreOutputs, s
<1> QED BY <1>3, <1>4

LEMMA InitInv == Init => IInv
<1> SUFFICES ASSUME Init PROVE IInv
  OBVIOUS
<1>1. CandidatesInv
  <2>1. AreNew
    BY CandidatesAssumption DEF Init, NewCandidates, AreNew
  <2> QED BY <2>1, NewCandidatesInv
<1>2. SelectingInv
  BY SelectorAssumption DEF Init, SelectingInv
<1> QED BY <1>1, <1>2 DEF IInv

LEMMA NextInv == IInv /\ [Next]_vars => IInv'
<1> SUFFICES ASSUME IInv, [Next]_vars PROVE IInv'
  OBVIOUS
<1>1. CandidatesInv /\ SelectingInv
  BY DEF IInv
<1>2. ASSUME UNCHANGED candidates PROVE CandidatesInv' /\ must' = must /\ can' = can /\ cs' = cs
  BY <1>1, <1>2 DEF candidates, CandidatesInv, GroupsInv, CacheInv, PolicyInv
<1>3. CASE stage = "candidates" /\ NextCandidates /\ UNCHANGED selecting
  <2>1. CandidatesInv'
    <3>1. CASE \E p \in Policies : Regroup(p)
      BY <1>1, <3>1, RegroupInv
    <3>2. CASE \E keep \in Filters : FilterInputs(keep)
      BY <1>1, <3>2, FilterInv
    <3> QED BY <1>3, <3>1, <3>2 DEF NextCandidates
  <2>2. SelectingInv'
    BY <1>1, <1>3 DEF SelectingInv, selecting
  <2> QED BY <2>1, <2>2 DEF IInv
<1>4. CASE NewSelector
  <2>1. CandidatesInv' /\ must' = must /\ can' = can /\ cs' = cs
    BY <1>2, <1>4 DEF NewSelector
  <2>2. must # <<>> => 1 \in DOMAIN cs
    <3>1. must \in Seq(InputId) /\ can \in Seq(Seq(InputId)) /\ CacheInv
      BY <1>1 DEF CandidatesInv, GroupsInv
    <3>2. must # <<>> => DOMAIN GroupsOf(must, can) = 1 .. Len(can) + 1 /\ Len(can) \in Nat
      BY <3>1, GroupsOfFacts
    <3> QED BY <3>1, <3>2, DomainOfCs
  <2>3. SelectingInv'
    <3>1. stage' # "candidates" /\ stage' # "selected" /\ (stage' = "selecting" <=> NewError = "none")
          /\ stage' \in {"selecting", "failed"} /\ error' = NewError
      BY <1>4 DEF NewSelector
    <3>2. chosen' = IF NewError = "none" /\ must # <<>> THEN {1} ELSE {}
      BY <1>4 DEF NewSelector
    <3>3. request' = request /\ selection' = selection /\ stage = "candidates"
      BY <1>4 DEF NewSelector
    <3> QED BY <1>1, <2>1, <2>2, <3>1, <3>2, <3>3 DEF SelectingInv
  <2> QED BY <2>1, <2>3 DEF IInv
<1>5. CASE \E k \in DOMAIN cs : Select(k)
  <2>1. PICK k \in DOMAIN cs : Select(k)
    BY <1>5
  <2>2. CandidatesInv' /\ must' = must /\ can' = can /\ cs' = cs
    BY <1>2, <2>1 DEF Select
  <2>3. stage = "selecting" /\ chosen' = chosen \cup {k} /\ stage' = stage /\ request' = request
        /\ selection' = selection /\ error' = error
    BY <2>1 DEF Select
  <2>4. SelectingInv'
    BY <1>1, <2>2, <2>3 DEF SelectingInv
  <2> QED BY <2>2, <2>4 DEF IInv
<1>6. CASE TryFinalize
  <2>1. CandidatesInv' /\ must' = must /\ can' = can /\ cs' = cs
    BY <1>2, <1>6 DEF TryFinalize
  <2>2. stage = "selecting" /\ chosen' = chosen /\ request' = request
    BY <1>6 DEF TryFinalize
  <2>3. CASE IsTargetMet
    <3>1. PICK change \in {Drain} \cup (IF request.longterm THEN {0} ELSE {}) :
                  selection' = [inputs |-> FlattenSeq(Subsequence(GroupsOf(must, can), chosen)),
                                outputs |-> [n \in 1 .. request.recipients |-> n]
                                                \o (IF change > 0 THEN <<0>> ELSE <<>>),
                                change |-> change]
      BY <1>6, <2>3 DEF TryFinalize
    <3>2. stage' = "selected" /\ error' = "none"
      BY <1>6, <2>3 DEF TryFinalize
    <3> DEFINE inputs == FlattenSeq(Subsequence(GroupsOf(must, can), chosen))
               outputs == [n \in 1 .. request.recipients |-> n] \o (IF change > 0 THEN <<0>> ELSE <<>>)
    <3>3. selection' = [inputs |-> inputs, outputs |-> outputs, change |-> change] /\ change \in {0, Drain}
      BY <3>1
    <3>4. IsTargetMet' /\ Drain' = Drain
      BY <2>1, <2>2, <2>3 DEF IsTargetMet, Drain, ChosenValue, ChosenWeight
    <3>5. Rearranges(inputs, inputs)
      BY <1>1, ChosenInputs DEF SelectingInv, Rearranges
    <3>6. AreOutputs(outputs, request.recipients, change)
      <4>1. request.recipients \in Nat
        BY <1>1 DEF SelectingInv, SelectorParams
      <4> QED BY <4>1, FreshOutputs
    <3>7. inputs' = inputs
      BY <2>1, <2>2
    <3> HIDE DEF inputs, outputs
    <3>8. /\ IsSelection(selection')
          /\ Rearranges(selection'.inputs, inputs)
          /\ selection'.change \in {0, Drain}
          /\ AreOutputs(selection'.outputs, request.recipients, selection'.change)
      BY <3>3, <3>5, <3>6 DEF IsSelection
    <3>9. /\ IsSelection(selection)'
          /\ Rearranges(selection.inputs, FlattenSeq(Subsequence(GroupsOf(must, can), chosen)))'
          /\ AreOutputs(selection.outputs, request.recipients, selection.change)'
      BY <2>1, <2>2, <3>8 DEF IsSelection, Rearranges, AreOutputs, inputs
    <3> QED BY <1>1, <2>1, <2>2, <3>2, <3>4, <3>8, <3>9 DEF IInv, SelectingInv
  <2>4. CASE ~IsTargetMet
    <3>1. stage' = "failed" /\ error' = "CannotMeetTarget" /\ selection' = selection
      BY <1>6, <2>4 DEF TryFinalize
    <3> QED BY <1>1, <2>1, <2>2, <3>1 DEF IInv, SelectingInv
  <2> QED BY <2>3, <2>4
<1>7. CASE UNCHANGED vars
  <2>1. CandidatesInv' /\ must' = must /\ can' = can /\ cs' = cs
    BY <1>2, <1>7 DEF vars
  <2>2. SelectingInv'
    <3>1. IsTargetMet' = IsTargetMet /\ Drain' = Drain
      BY <1>7, <2>1 DEF vars, selecting, IsTargetMet, Drain, ChosenValue, ChosenWeight
    <3> QED BY <1>1, <1>7, <2>1, <3>1 DEF vars, selecting, SelectingInv, IsSelection, Rearranges, AreOutputs
  <2> QED BY <2>1, <2>2 DEF IInv
<1> QED BY <1>3, <1>4, <1>5, <1>6, <1>7 DEF Next

(***************************************************************************)
(* The strengthened invariant: the groups are disjoint and follow the last *)
(* policy, the caches are those of the groups, and a Selection has the     *)
(* chosen groups and met its target.                                       *)
(***************************************************************************)
THEOREM Invariance == Spec => []IInv
<1>1. Init => IInv
  BY InitInv
<1>2. IInv /\ [Next]_vars => IInv'
  BY NextInv
<1> QED BY <1>1, <1>2, PTL DEF Spec

-----------------------------------------------------------------------------
(* The candidates *)

LEMMA AllDistinct ==
    ASSUME CandidatesInv
    PROVE  /\ AllInputs(must, can) \in Seq(InputId)
           /\ Distinct(PrevOutpoint, AllInputs(must, can))
           /\ Cardinality(OutpointsOf(AllInputs(must, can))) = Len(AllInputs(must, can))
<1>1. must \in Seq(InputId) /\ can \in Seq(Seq(InputId))
  BY DEF CandidatesInv, GroupsInv
<1>2. Separate(PrevOutpoint, GroupsOf(must, can))
  BY <1>1, GroupsOfSeparate DEF CandidatesInv, GroupsInv
<1>3. AllInputs(must, can) \in Seq(InputId) /\ GroupsOf(must, can) \in Seq(Seq(InputId))
  BY <1>1, GroupsOfRange, GroupsOfFacts
<1>4. Distinct(PrevOutpoint, AllInputs(must, can))
  BY <1>2, <1>3, FlattenDistinct DEF AllInputs
<1> QED BY <1>3, <1>4, DistinctCount, OutpointsAreKeys

LEMMA InvCachesAgree == IInv => CachesAgree
BY AllDistinct DEF IInv, CandidatesInv, CacheInv, CachesAgree

(* Whatever was regrouped and filtered, the caches agree with the groups and *)
(* no outpoint is there twice (InputCandidates).                             *)
THEOREM CachesAlwaysAgree == Spec => []CachesAgree
BY InvCachesAgree, Invariance, PTL

KeepsInputs ==
    /\ ToSet(must) \subseteq ToSet(must')
    /\ ToSet(AllInputs(must', can')) \subseteq ToSet(AllInputs(must, can))
    /\ kept' = kept => Len(AllInputs(must', can')) = Len(AllInputs(must, can))

LEMMA StepKeepsInputs == IInv /\ IInv' /\ [Next]_vars => [KeepsInputs]_candidates
<1>1. ASSUME IInv, IInv', [Next]_vars PROVE [KeepsInputs]_candidates
  <2>1. CandidatesInv /\ CandidatesInv'
    BY <1>1 DEF IInv
  <2>2. CASE stage = "candidates" /\ NextCandidates /\ UNCHANGED selecting
    <3>1. /\ ToSet(must) \subseteq ToSet(must')
          /\ ToSet(AllInputs(must', can')) \subseteq ToSet(AllInputs(must, can))
          /\ kept' = kept => ToSet(AllInputs(must', can')) = ToSet(AllInputs(must, can))
      <4>1. CASE \E p \in Policies : Regroup(p)
        BY <2>1, <4>1, RegroupInv
      <4>2. CASE \E keep \in Filters : FilterInputs(keep)
        BY <2>1, <4>2, FilterInv
      <4> QED BY <2>2, <4>1, <4>2 DEF NextCandidates
    <3>2. Cardinality(OutpointsOf(AllInputs(must, can))) = Len(AllInputs(must, can))
          /\ Cardinality(OutpointsOf(AllInputs(must', can'))) = Len(AllInputs(must', can'))
      <4>1. Cardinality(OutpointsOf(AllInputs(must, can))) = Len(AllInputs(must, can))
        BY <2>1, AllDistinct
      <4>2. (Cardinality(OutpointsOf(AllInputs(must, can))) = Len(AllInputs(must, can)))'
        BY <2>1, AllDistinct, PTL
      <4> QED BY <4>1, <4>2 DEF OutpointsOf
    <3> QED BY <3>1, <3>2 DEF OutpointsOf, KeepsInputs
  <2>3. CASE NewSelector \/ (\E k \in DOMAIN cs : Select(k)) \/ TryFinalize \/ UNCHANGED vars
    BY <2>3 DEF NewSelector, Select, TryFinalize, vars
  <2> QED BY <1>1, <2>2, <2>3 DEF Next, KeepsInputs
<1> QED BY <1>1

LEMMA NothingLostMeans == NothingLostByRegroup <=> [][KeepsInputs]_candidates
BY DEF NothingLostByRegroup, KeepsInputs

(* No step loses a must_select input or lets an input back in, and regroup *)
(* keeps all inputs (InputCandidates::regroup, filter).                    *)
THEOREM RegroupLosesNothing == Spec => NothingLostByRegroup
BY StepKeepsInputs, NothingLostMeans, Invariance, PTL DEF Spec

-----------------------------------------------------------------------------
(* The Selection *)

(* What a Selection contains: the chosen groups, each input once *)
LEMMA SelectionFacts ==
    ASSUME IInv, Selected
    PROVE  LET G == GroupsOf(must, can)
           IN  /\ G \in Seq(Seq(InputId)) /\ DOMAIN cs = DOMAIN G /\ chosen \in SUBSET DOMAIN G
               /\ Rearranges(selection.inputs, FlattenSeq(Subsequence(G, chosen)))
               /\ Rearranges(FlattenSeq(Subsequence(G, chosen)), FlattenSeq(Subsequence(G, chosen)))
               /\ selection.inputs \in Seq(InputId)
               /\ ToSet(selection.inputs) = UNION {ToSet(G[k]) : k \in chosen}
               /\ Distinct(PrevOutpoint, selection.inputs)
<1>1. CandidatesInv /\ chosen \subseteq DOMAIN cs
      /\ Rearranges(selection.inputs, FlattenSeq(Subsequence(GroupsOf(must, can), chosen)))
  BY DEF IInv, SelectingInv, Selected
<1> QED BY <1>1, ChosenInputs DEF Rearranges

LEMMA InvRespectsGroups == IInv => SelectionRespectsGroups
<1>1. ASSUME IInv PROVE SelectionRespectsGroups
  <2> SUFFICES ASSUME Selected
               PROVE  LET ins == ToSet(selection.inputs)
                      IN  /\ ToSet(must) \subseteq ins
                          /\ Cardinality({PrevOutpoint[i] : i \in ins}) = Len(selection.inputs)
                          /\ ins \subseteq kept \cup ToSet(must)
                          /\ \A i, j \in ToSet(AllInputs(must, can)) :
                                policy[i] = policy[j] => (i \in ins <=> j \in ins)
    BY DEF SelectionRespectsGroups
  <2> DEFINE ins == ToSet(selection.inputs)
             G == GroupsOf(must, can)
  <2>1. G \in Seq(Seq(InputId)) /\ chosen \in SUBSET DOMAIN G
        /\ selection.inputs \in Seq(InputId)
        /\ ins = UNION {ToSet(G[k]) : k \in chosen}
        /\ Distinct(PrevOutpoint, selection.inputs)
    BY <1>1, SelectionFacts
  <2>2. must \in Seq(InputId) /\ can \in Seq(Seq(InputId)) /\ PolicyInv
    BY <1>1 DEF IInv, CandidatesInv, GroupsInv
  <2>3. \A k \in DOMAIN G : \/ G[k] = must /\ k = 1
                            \/ \E l \in DOMAIN can : G[k] = can[l]
    BY <2>2, GroupsOfRange
  <2>4. ToSet(must) \subseteq ins
    <3>1. CASE must = <<>>
      BY <3>1 DEF ToSet
    <3>2. CASE must # <<>>
      <4>1. G[1] = must
        BY <2>2, <3>2, GroupsOfFacts
      <4>2. 1 \in chosen
        BY <1>1, <3>2 DEF IInv, SelectingInv, Selected
      <4> HIDE DEF G
      <4> QED BY <2>1, <4>1, <4>2
    <3> QED BY <3>1, <3>2
  <2>5. Cardinality({PrevOutpoint[i] : i \in ins}) = Len(selection.inputs)
    BY <2>1, DistinctCount DEF Keys
  <2>6. \A l \in DOMAIN can : ToSet(can[l]) \subseteq kept
    BY <2>2 DEF PolicyInv
  <2>7. ins \subseteq kept \cup ToSet(must)
    <3> HIDE DEF G
    <3> QED BY <2>1, <2>3, <2>6
  <2>8. ASSUME NEW i \in ToSet(AllInputs(must, can)), NEW j \in ToSet(AllInputs(must, can)), policy[i] = policy[j], i \in ins
        PROVE  j \in ins
    <3>1. PICK k \in chosen : i \in ToSet(G[k])
      BY <2>1, <2>8
    <3>2. CASE i \in ToSet(must)
      <4>1. ToSet(AllInputs(must, can)) = ToSet(must) \cup UNION {ToSet(can[l]) : l \in DOMAIN can}
        BY <2>2, GroupsOfRange
      <4>2. ASSUME NEW l \in DOMAIN can, j \in ToSet(can[l]) PROVE i \in ToSet(can[l])
        BY <2>2, <2>8, <4>2 DEF PolicyInv
      <4>3. \A l \in DOMAIN can : ~(i \in ToSet(can[l]))
        BY <1>1, <3>2 DEF IInv, CandidatesInv, GroupsInv, Keys
      <4> QED BY <2>4, <4>1, <4>2, <4>3
    <3>3. CASE i \notin ToSet(must)
      <4>1. PICK l \in DOMAIN can : G[k] = can[l]
        BY <2>1, <2>3, <3>1, <3>3
      <4>2. j \in ToSet(can[l])
        BY <2>2, <2>8, <3>1, <4>1 DEF PolicyInv
      <4> QED BY <2>1, <3>1, <4>1, <4>2
    <3> QED BY <3>2, <3>3
  <2> QED BY <2>4, <2>5, <2>7, <2>8
<1> QED BY <1>1

(* A Selection has all of must_select, no outpoint twice, nothing else a     *)
(* filter rejected, and groups as a whole (Selector::try_finalize).          *)
THEOREM SelectionsRespectGroups == Spec => []SelectionRespectsGroups
BY InvRespectsGroups, Invariance, PTL

-----------------------------------------------------------------------------
(* Fees *)

LEMMA QuotientBounds ==
    ASSUME NEW a \in Int, NEW n \in Nat \ {0}
    PROVE  a \div n \in Int /\ n * (a \div n) <= a /\ a < n * (a \div n) + n
BY SMT

LEMMA QuotientMonotone ==
    ASSUME NEW a \in Int, NEW b \in Int, NEW n \in Nat \ {0}, a <= b
    PROVE  a \div n <= b \div n
<1> DEFINE q == a \div n
           p == b \div n
<1>1. q \in Int /\ n * q <= a /\ p \in Int /\ b < n * p + n
  BY QuotientBounds
<1> HIDE DEF q, p
<1>2. CASE q <= p
  BY <1>2 DEF q, p
<1>3. CASE q >= p + 1
  <2>1. n * q >= n * (p + 1)
    BY <1>1, <1>3
  <2>2. n * (p + 1) = n * p + n
    BY <1>1
  <2> QED BY <1>1, <2>1, <2>2
<1> QED BY <1>1, <1>2, <1>3

LEMMA FeeMonotone ==
    ASSUME NEW rate \in Nat, NEW v \in Int, NEW w \in Int, v <= w
    PROVE  FeeAt(rate, v) \in Int /\ FeeAt(rate, w) \in Int /\ FeeAt(rate, v) <= FeeAt(rate, w)
<1>1. RateUnit \in Nat \ {0}
  BY SelectorAssumption
<1> DEFINE a == rate * v + RateUnit - 1
           b == rate * w + RateUnit - 1
<1>2. a \in Int /\ b \in Int /\ a <= b
  <2>1. rate * v \in Int /\ rate * w \in Int /\ rate * v <= rate * w
    OBVIOUS
  <2> QED BY <1>1, <2>1
<1>3. FeeAt(rate, v) = a \div RateUnit /\ FeeAt(rate, w) = b \div RateUnit
  BY DEF FeeAt
<1> HIDE DEF a, b
<1> QED BY <1>1, <1>2, <1>3, QuotientBounds, QuotientMonotone

LEMMA MaxOfTwo ==
    ASSUME NEW a \in Int, NEW b \in Int
    PROVE  MaxOf({a, b}) \in {a, b} /\ a <= MaxOf({a, b}) /\ b <= MaxOf({a, b})
<1> DEFINE T == {a, b}
<1>1. IsFiniteSet(T) /\ T \subseteq Int /\ T # {} /\ a \in T /\ b \in T
  <2>1. IsFiniteSet({a} \cup {b})
    BY FS_Singleton, FS_AddElement
  <2>2. {a} \cup {b} = T
    OBVIOUS
  <2> QED BY <2>1, <2>2
<1>2. MaxOf(T) = Max(T)
  BY <1>1 DEF MaxOf
<1> HIDE DEF T
<1>3. Max(T) \in T /\ \A y \in T : y <= Max(T)
  BY <1>1, MaxFacts
<1> QED BY <1>1, <1>2, <1>3 DEF T

LEMMA RatesAreNatural ==
    ASSUME NEW r \in SelectorParams
    PROVE  /\ TargetRate(r) \in Nat
           /\ r.replace # NoReplace => ReplacedFee(r) \in Nat /\ r.replace.incremental \in Nat
<1>1. r.feerate \in Nat /\ RateUnit \in Nat \ {0}
  BY SelectorAssumption DEF SelectorParams
<1>2. ASSUME r.replace # NoReplace
      PROVE  MaxFeerate(r) \in Nat /\ ReplacedFee(r) \in Nat /\ r.replace.incremental \in Nat
  <2> DEFINE o == r.replace.original_txs
  <2>1. o \in Seq([fee : Nat, weight : Nat \ {0}]) /\ r.replace.descendant_fee \in Nat /\ r.replace.incremental \in Nat
    BY <1>2 DEF SelectorParams, RbfParams
  <2> HIDE DEF o
  <2>2. DOMAIN o = 1 .. Len(o) /\ Len(o) \in Nat /\ \A n \in DOMAIN o : o[n] \in [fee : Nat, weight : Nat \ {0}]
    <3> DEFINE Stats == [fee : Nat, weight : Nat \ {0}]
    <3>1. o \in Seq(Stats)
      BY <2>1
    <3> HIDE DEF Stats
    <3>2. DOMAIN o = 1 .. Len(o) /\ Len(o) \in Nat
      BY <3>1, LenProperties
    <3>3. \A n \in 1 .. Len(o) : o[n] \in Stats
      BY <3>1, ElementOfSeq
    <3>4. \A n \in DOMAIN o : o[n] \in Stats
      BY <3>2, <3>3
    <3> QED BY <3>2, <3>4 DEF Stats
  <2>3. \A n \in DOMAIN o : o[n].fee \in Nat /\ Feerate(o[n]) \in Nat
    <3> SUFFICES ASSUME NEW n \in DOMAIN o PROVE o[n].fee \in Nat /\ Feerate(o[n]) \in Nat
      OBVIOUS
    <3>1. o[n].fee \in Nat /\ o[n].weight \in Nat \ {0}
      BY <2>2
    <3> DEFINE a == o[n].fee * RateUnit
               d == o[n].weight
    <3>2. a \in Nat /\ d \in Nat \ {0} /\ Feerate(o[n]) = a \div d
      BY <1>1, <3>1 DEF Feerate
    <3> HIDE DEF a, d
    <3> QED BY <3>1, <3>2
  <2>4. IsFiniteSet(DOMAIN o)
    <3> DEFINE L == Len(o)
    <3>1. DOMAIN o = 1 .. L /\ L \in Int /\ 1 \in Int
      BY <2>2
    <3> HIDE DEF L
    <3>2. IsFiniteSet(1 .. L)
      BY <3>1, FS_Interval
    <3> QED BY <3>1, <3>2
  <2>5. SumFunction([n \in DOMAIN o |-> o[n].fee]) \in Nat
    <3> DEFINE g == [n \in DOMAIN o |-> o[n].fee]
    <3>1. (\A n \in DOMAIN o : g[n] \in Nat) /\ DOMAIN g = DOMAIN o
      BY <2>3
    <3> HIDE DEF g
    <3>2. SumFunctionOnSet(g, DOMAIN o) \in Nat
      BY <2>4, <3>1, SumRecursion
    <3> QED BY <3>1, <3>2 DEF SumFunction, g
  <2>6. ReplacedFee(r) \in Nat
    BY <2>1, <2>5 DEF ReplacedFee, o
  <2> DEFINE T == {Feerate(stats) : stats \in ToSet(o)}
             f == [n \in DOMAIN o |-> Feerate(o[n])]
  <2>7. T \subseteq Nat /\ f \in Surjection(DOMAIN o, T)
    BY <2>3 DEF ToSet, Surjection
  <2>8. IsFiniteSet(T)
    <3> HIDE DEF f, T
    <3> QED BY <2>4, <2>7, FS_Surjection
  <2>9. MaxOf(T) \in Nat
    <3> HIDE DEF T
    <3>0. T \subseteq Int
      BY <2>7
    <3>1. T # {} => Max(T) \in T
      BY <2>8, <3>0, MaxFacts
    <3> QED BY <2>7, <3>1 DEF MaxOf
  <2>10. MaxFeerate(r) = MaxOf(T)
    BY <1>2 DEF MaxFeerate, o
  <2> QED BY <2>1, <2>6, <2>9, <2>10
<1>3. MaxFeerate(r) \in Nat
  BY <1>2 DEF MaxFeerate
<1>4. TargetRate(r) \in Nat
  <2> DEFINE a == r.feerate
             b == MaxFeerate(r)
  <2>1. a \in Nat /\ b \in Nat /\ TargetRate(r) = MaxOf({a, b})
    BY <1>1, <1>3 DEF TargetRate
  <2> HIDE DEF a, b
  <2>2. a \in Int /\ b \in Int
    BY <2>1
  <2>3. MaxOf({a, b}) \in {a, b}
    BY <2>2, MaxOfTwo
  <2> QED BY <2>1, <2>3
<1> QED BY <1>2, <1>4

(* A heavier transaction owes no less. *)
LEMMA RequiredFeeMonotone ==
    ASSUME NEW r \in SelectorParams, NEW v \in Int, NEW w \in Int, v <= w
    PROVE  RequiredFee(r, v) \in Int /\ RequiredFee(r, w) \in Int /\ RequiredFee(r, v) <= RequiredFee(r, w)
<1>1. TargetRate(r) \in Nat /\ (r.replace # NoReplace => ReplacedFee(r) \in Nat /\ r.replace.incremental \in Nat)
  BY RatesAreNatural
<1> DEFINE a(x) == FeeAt(TargetRate(r), x)
           b(x) == ReplacedFee(r) + FeeAt(r.replace.incremental, x)
<1>2. a(v) \in Int /\ a(w) \in Int /\ a(v) <= a(w)
  BY <1>1, FeeMonotone
<1>3. CASE r.replace = NoReplace
  <2>1. \A x : {a(x)} \cup {} = {a(x), a(x)}
    OBVIOUS
  <2>2. RequiredFee(r, v) = MaxOf({a(v), a(v)}) /\ RequiredFee(r, w) = MaxOf({a(w), a(w)})
    BY <1>3, <2>1 DEF RequiredFee
  <2>3. MaxOf({a(v), a(v)}) = a(v) /\ MaxOf({a(w), a(w)}) = a(w)
    <3> HIDE DEF a
    <3> QED BY <1>2, MaxOfTwo
  <2> QED BY <1>2, <2>2, <2>3
<1>4. CASE r.replace # NoReplace
  <2>1. b(v) \in Int /\ b(w) \in Int /\ b(v) <= b(w)
    <3>1. FeeAt(r.replace.incremental, v) \in Int /\ FeeAt(r.replace.incremental, w) \in Int
          /\ FeeAt(r.replace.incremental, v) <= FeeAt(r.replace.incremental, w)
      BY <1>1, <1>4, FeeMonotone
    <3> QED BY <1>1, <1>4, <3>1
  <2>2. \A x : {a(x)} \cup {b(x)} = {a(x), b(x)}
    OBVIOUS
  <2>3. RequiredFee(r, v) = MaxOf({a(v), b(v)}) /\ RequiredFee(r, w) = MaxOf({a(w), b(w)})
    BY <1>4, <2>2 DEF RequiredFee
  <2> HIDE DEF a, b
  <2>4. MaxOf({a(v), b(v)}) \in {a(v), b(v)} /\ MaxOf({a(w), b(w)}) \in {a(w), b(w)}
        /\ a(w) <= MaxOf({a(w), b(w)}) /\ b(w) <= MaxOf({a(w), b(w)})
    BY <1>2, <2>1, MaxOfTwo
  <2> QED BY <1>2, <2>1, <2>3, <2>4
<1> QED BY <1>3, <1>4

-----------------------------------------------------------------------------
(* The coin selector's sums over groups are sums over the selected inputs. *)

LEMMA SumOverFacts ==
    ASSUME NEW f \in [InputId -> Nat]
    PROVE  /\ \A s \in Seq(InputId) : SumOver(f, s) \in Nat
           /\ SumOver(f, <<>>) = 0
           /\ \A s, t \in Seq(InputId) : SumOver(f, s \o t) = SumOver(f, s) + SumOver(f, t)
<1>1. \A s : SumOver(f, s) = SeqSum(f, s)
  BY DEF SumOver, SeqSum
<1>2. \A i \in InputId : f[i] \in Nat
  OBVIOUS
<1>3. \A s \in Seq(InputId) : SeqSum(f, s) \in Nat
  BY <1>2, SeqSumType
<1>4. \A s, t \in Seq(InputId) : SeqSum(f, s \o t) = SeqSum(f, s) + SeqSum(f, t)
  BY <1>2, SeqSumConcat
<1> QED BY <1>1, <1>3, <1>4, SeqSumEmpty

LEMMA GroupSums ==
    ASSUME NEW f \in [InputId -> Nat], NEW G \in Seq(Seq(InputId)), NEW at \in SUBSET DOMAIN G
    PROVE  /\ SumOver(f, FlattenSeq(Subsequence(G, at)))
                  = SumFunctionOnSet([k \in DOMAIN G |-> SumOver(f, G[k])], at)
           /\ SumOver(f, FlattenSeq(Subsequence(G, at))) \in Nat
<1> DEFINE m == [s \in Seq(InputId) |-> SumOver(f, s)]
           sub == Subsequence(G, at)
<1>1. /\ \A s \in Seq(InputId) : m[s] \in Nat
      /\ m[<<>>] = 0
      /\ \A s, t \in Seq(InputId) : m[s \o t] = m[s] + m[t]
  <2>1. <<>> \in Seq(InputId) /\ \A s, t \in Seq(InputId) : s \o t \in Seq(InputId)
    BY EmptySeq, ConcatProperties
  <2> QED BY <2>1, SumOverFacts
<1>2. sub \in Seq(Seq(InputId))
  BY SubsequenceType
<1>3. FlattenSeq(sub) \in Seq(InputId)
  BY <1>2, FlattenAppend, EmptySeq
<1>4. m[FlattenSeq(sub)] = SumOver(f, FlattenSeq(sub))
  BY <1>3
<1>5. [k \in DOMAIN G |-> m[G[k]]] = [k \in DOMAIN G |-> SumOver(f, G[k])]
  <2>1. \A k \in DOMAIN G : G[k] \in Seq(InputId)
    <3>1. DOMAIN G = 1 .. Len(G)
      BY LenProperties
    <3>2. \A k \in 1 .. Len(G) : G[k] \in Seq(InputId)
      BY ElementOfSeq
    <3> QED BY <3>1, <3>2
  <2> QED BY <2>1
<1> HIDE DEF m
<1>6. m[FlattenSeq(sub)] = SeqSum(m, sub)
  BY <1>1, <1>2, FlattenSum
<1>7. SeqSum(m, sub) = SumFunctionOnSet([k \in DOMAIN G |-> m[G[k]]], at)
  BY <1>1, SubsequenceSum
<1> QED BY <1>1, <1>3, <1>4, <1>5, <1>6, <1>7

(* The order of the inputs does not matter to a sum. *)
LEMMA SumOfRearranged ==
    ASSUME NEW f \in [InputId -> Nat], NEW s, Rearranges(s, s), NEW t, Rearranges(t, s)
    PROVE  SumOver(f, t) = SumOver(f, s) /\ SumOver(f, s) \in Nat
<1>1. ASSUME NEW u, u \in Seq(InputId), Distinct(PrevOutpoint, u)
      PROVE  SumOver(f, u) = SumFunctionOnSet(f, ToSet(u)) /\ SumOver(f, u) \in Nat
  <2> DEFINE g == [n \in DOMAIN u |-> f[u[n]]]
             D == DOMAIN u
  <2>1. \A i \in InputId : f[i] \in Nat
    OBVIOUS
  <2>2. /\ SeqSum(f, u) \in Nat
        /\ SeqSum(f, u) = SumFunctionOnSet(g, D)
        /\ IsFiniteSet(D)
        /\ \A n \in D : f[u[n]] \in Nat
    BY <1>1, <2>1, SeqSumType
  <2>3. \A x \in D : g[x] \in Nat /\ f[u[x]] = g[x]
    BY <2>2
  <2>4. \A x, y \in D : u[x] = u[y] => x = y
    BY <1>1 DEF Distinct
  <2>5. SumOver(f, u) = SeqSum(f, u)
    BY DEF SumOver, SeqSum
  <2>6. {u[x] : x \in D} = ToSet(u)
    BY DEF ToSet
  <2> HIDE DEF g, D
  <2>7. SumFunctionOnSet(f, {u[x] : x \in D}) = SumFunctionOnSet(g, D)
    BY <2>2, <2>3, <2>4, SumReindex
  <2> QED BY <2>2, <2>5, <2>6, <2>7
<1> QED BY <1>1 DEF Rearranges

LEMMA ChosenTotals ==
    ASSUME IInv, Selected
    PROVE  /\ ChosenValue = SumOver(InputValue, selection.inputs)
           /\ SumFunctionOnSet([k \in DOMAIN cs |-> cs[k].weight], chosen)
                  = SumOver(InputWeight, selection.inputs)
           /\ SumOver(InputValue, selection.inputs) \in Nat
           /\ SumOver(InputWeight, selection.inputs) \in Nat
<1> DEFINE G == GroupsOf(must, can)
           inputs == FlattenSeq(Subsequence(G, chosen))
<1>1. G \in Seq(Seq(InputId)) /\ DOMAIN cs = DOMAIN G /\ chosen \in SUBSET DOMAIN G
      /\ Rearranges(selection.inputs, inputs) /\ Rearranges(inputs, inputs)
  BY SelectionFacts
<1>2. InputValue \in [InputId -> Nat] /\ InputWeight \in [InputId -> Nat]
  BY CandidatesAssumption
<1>3. \A k \in DOMAIN G : cs[k].value = SumOver(InputValue, G[k]) /\ cs[k].weight = SumOver(InputWeight, G[k])
  BY DEF IInv, CandidatesInv, CacheInv, BuildCs
<1> HIDE DEF G
<1>4. [k \in DOMAIN cs |-> cs[k].value] = [k \in DOMAIN G |-> SumOver(InputValue, G[k])]
      /\ [k \in DOMAIN cs |-> cs[k].weight] = [k \in DOMAIN G |-> SumOver(InputWeight, G[k])]
  BY <1>1, <1>3
<1>5. SumOver(InputValue, inputs) = SumFunctionOnSet([k \in DOMAIN G |-> SumOver(InputValue, G[k])], chosen)
      /\ SumOver(InputWeight, inputs) = SumFunctionOnSet([k \in DOMAIN G |-> SumOver(InputWeight, G[k])], chosen)
  BY <1>1, <1>2, GroupSums
<1> HIDE DEF inputs
<1>6. /\ SumOver(InputValue, selection.inputs) = SumOver(InputValue, inputs)
      /\ SumOver(InputWeight, selection.inputs) = SumOver(InputWeight, inputs)
      /\ SumOver(InputValue, inputs) \in Nat /\ SumOver(InputWeight, inputs) \in Nat
  BY <1>1, <1>2, SumOfRearranged
<1> QED BY <1>4, <1>5, <1>6 DEF ChosenValue

-----------------------------------------------------------------------------
(* The weight the coin selector counts *)

LegacyGroups == {k \in chosen : ~cs[k].is_segwit}

(* Legacy inputs a legacy group has one empty witness counted for *)
LEMMA LegacyFacts ==
    ASSUME IInv, Selected
    PROVE  /\ IsFiniteSet(chosen) /\ Cardinality(LegacyGroups) \in Nat /\ Cardinality(LegacyInputs) \in Nat
           /\ LegacyGroups = chosen <=> ToSet(selection.inputs) = LegacyInputs
           /\ (\A group \in ChosenGroups : Len(group) = 1) => Cardinality(LegacyInputs) <= Cardinality(LegacyGroups)
<1> DEFINE G == GroupsOf(must, can)
           ins == ToSet(selection.inputs)
<1>1. G \in Seq(Seq(InputId)) /\ DOMAIN cs = DOMAIN G /\ chosen \in SUBSET DOMAIN G
      /\ selection.inputs \in Seq(InputId)
      /\ ins = UNION {ToSet(G[k]) : k \in chosen}
  BY SelectionFacts
<1>2. \A k \in DOMAIN G : cs[k].is_segwit <=> \E i \in ToSet(G[k]) : i \in Segwit
  BY DEF IInv, CandidatesInv, CacheInv, BuildCs
<1>3. \A group \in ChosenGroups : \E k \in chosen : group = G[k]
  BY DEF ChosenGroups
<1>4. \A k \in chosen : G[k] \in ChosenGroups
  BY DEF ChosenGroups
<1> HIDE DEF G
<1>5. IsFiniteSet(chosen)
  BY <1>1, SubsequenceType
<1>6. IsFiniteSet(ins)
  <2>1. DOMAIN selection.inputs = 1 .. Len(selection.inputs) /\ Len(selection.inputs) \in Nat
    BY <1>1, LenProperties
  <2> DEFINE s == selection.inputs
             L == Len(s)
             f == [n \in 1 .. L |-> s[n]]
  <2>2. IsFiniteSet(1 .. L)
    <3>1. L \in Int /\ 1 \in Int
      BY <2>1
    <3> HIDE DEF L
    <3> QED BY <3>1, FS_Interval
  <2>3. f \in Surjection(1 .. L, ins)
    BY <2>1 DEF Surjection, ToSet
  <2> HIDE DEF f, L
  <2> QED BY <2>2, <2>3, FS_Surjection
<1>7. IsFiniteSet(LegacyGroups) /\ Cardinality(LegacyGroups) \in Nat
  BY <1>5, FS_Subset, FS_CardinalityType DEF LegacyGroups
<1>8. IsFiniteSet(LegacyInputs) /\ Cardinality(LegacyInputs) \in Nat
  <2>1. LegacyInputs \subseteq ins
    BY DEF LegacyInputs
  <2> QED BY <1>6, <2>1, FS_Subset, FS_CardinalityType
<1>9. LegacyGroups = chosen <=> ins = LegacyInputs
  <2>1. LegacyGroups = chosen <=> \A k \in chosen : ~cs[k].is_segwit
    BY DEF LegacyGroups
  <2>2. ins = LegacyInputs <=> \A i \in ins : i \notin Segwit
    BY DEF LegacyInputs
  <2>3. (\A k \in chosen : ~cs[k].is_segwit) <=> \A k \in chosen : \A i \in ToSet(G[k]) : i \notin Segwit
    BY <1>1, <1>2
  <2>4. (\A i \in ins : i \notin Segwit) <=> \A k \in chosen : \A i \in ToSet(G[k]) : i \notin Segwit
    BY <1>1
  <2> QED BY <2>1, <2>2, <2>3, <2>4
<1>10. ASSUME \A group \in ChosenGroups : Len(group) = 1
       PROVE  Cardinality(LegacyInputs) <= Cardinality(LegacyGroups)
  <2>1. \A k \in chosen : ToSet(G[k]) = {G[k][1]}
    <3> SUFFICES ASSUME NEW k \in chosen PROVE ToSet(G[k]) = {G[k][1]}
      OBVIOUS
    <3>1. G[k] \in Seq(InputId)
      <4>1. DOMAIN G = 1 .. Len(G)
        BY <1>1, LenProperties
      <4>2. \A n \in 1 .. Len(G) : G[n] \in Seq(InputId)
        BY <1>1, ElementOfSeq
      <4> QED BY <1>1, <4>1, <4>2
    <3>2. Len(G[k]) = 1
      BY <1>4, <1>10
    <3>3. DOMAIN G[k] = 1 .. 1
      BY <3>1, <3>2, LenProperties
    <3> QED BY <3>3 DEF ToSet
  <2> DEFINE f == [k \in LegacyGroups |-> G[k][1]]
  <2>2. f \in Surjection(LegacyGroups, LegacyInputs)
    <3>0. ASSUME NEW k \in chosen PROVE G[k][1] \in ins /\ (cs[k].is_segwit <=> G[k][1] \in Segwit)
      <4>1. ToSet(G[k]) = {G[k][1]} /\ ToSet(G[k]) \subseteq ins /\ k \in DOMAIN G
        BY <1>1, <2>1
      <4>2. cs[k].is_segwit <=> \E i \in ToSet(G[k]) : i \in Segwit
        BY <1>2, <4>1
      <4> QED BY <4>1, <4>2
    <3>1. \A k \in LegacyGroups : k \in chosen /\ G[k][1] \in LegacyInputs
      BY <3>0 DEF LegacyGroups, LegacyInputs
    <3>2. ASSUME NEW i \in LegacyInputs PROVE \E k \in LegacyGroups : G[k][1] = i
      <4>1. i \in ins /\ i \notin Segwit
        BY DEF LegacyInputs
      <4>2. PICK k \in chosen : i \in ToSet(G[k])
        BY <1>1, <4>1
      <4>3. G[k][1] = i
        BY <2>1, <4>2
      <4> QED BY <3>0, <4>1, <4>3 DEF LegacyGroups
    <3> QED BY <3>1, <3>2 DEF Surjection
  <2> HIDE DEF f
  <2> QED BY <1>7, <2>2, FS_Surjection
<1> QED BY <1>5, <1>7, <1>8, <1>9, <1>10

LEMMA WeightIsCounted ==
    ASSUME IInv, Selected,
           NEW uncounted, uncounted = IF \A group \in ChosenGroups : Len(group) = 1
                                      THEN 0 ELSE Cardinality(LegacyInputs)
    PROVE  /\ ChosenWeight \in Nat /\ ActualWeight \in Int /\ ActualWeight - uncounted \in Int
           /\ ActualWeight - uncounted <= ChosenWeight + (IF selection.change > 0 THEN ChangeWeight ELSE 0)
<1> DEFINE total == SumOver(InputWeight, selection.inputs)
           legacy == Cardinality(LegacyGroups)
           inputs == Cardinality(LegacyInputs)
           change == IF selection.change > 0 THEN ChangeWeight ELSE 0
           single == \A group \in ChosenGroups : Len(group) = 1
           mixed == LegacyGroups # chosen
<1>1. total \in Nat /\ SumFunctionOnSet([k \in DOMAIN cs |-> cs[k].weight], chosen) = total
  BY ChosenTotals
<1>2. legacy \in Nat /\ inputs \in Nat /\ (single => inputs <= legacy)
      /\ (LegacyGroups = chosen <=> ToSet(selection.inputs) = LegacyInputs)
  BY LegacyFacts
<1>3. request.weight \in Nat /\ BaseWeight \in Nat /\ ChangeWeight \in Nat
  BY SelectorAssumption DEF IInv, SelectingInv, SelectorParams
<1>4. ChosenWeight = BaseWeight + request.weight + total + IF mixed THEN 2 + legacy ELSE 0
  <2>1. ChosenWeight = BaseWeight + request.weight + total + IF LegacyGroups = chosen THEN 0 ELSE 2 + Cardinality(LegacyGroups)
    BY <1>1 DEF ChosenWeight, LegacyGroups
  <2> QED BY <2>1
<1>5. ActualWeight = BaseWeight + request.weight + total + (IF mixed THEN 2 + inputs ELSE 0) + change
  BY <1>2 DEF ActualWeight
<1>6. change \in Nat
  BY <1>3
<1>7. single => uncounted = 0
  OBVIOUS
<1>8. ~single => uncounted = inputs
  OBVIOUS
<1>9. uncounted \in Nat /\ inputs - uncounted <= legacy
  <2> HIDE DEF single, inputs, legacy
  <2>1. CASE single
    BY <1>2, <1>7, <2>1
  <2>2. CASE ~single
    BY <1>2, <1>8, <2>2
  <2> QED BY <2>1, <2>2
<1> DEFINE rest == BaseWeight + request.weight + total
<1>10. rest \in Nat
  BY <1>1, <1>3
<1> SUFFICES ChosenWeight \in Nat /\ ActualWeight \in Int /\ ActualWeight - uncounted \in Int
             /\ ActualWeight - uncounted <= ChosenWeight + change
  OBVIOUS
<1>11. CASE mixed
  <2>1. ChosenWeight = rest + (2 + legacy)
    BY <1>4, <1>11
  <2>2. ActualWeight = rest + (2 + inputs) + change
    BY <1>5, <1>11
  <2> HIDE DEF rest, legacy, inputs, change
  <2> QED BY <1>2, <1>6, <1>9, <1>10, <2>1, <2>2
<1>12. CASE ~mixed
  <2>1. ChosenWeight = rest + 0
    BY <1>4, <1>12
  <2>2. ActualWeight = rest + 0 + change
    BY <1>5, <1>12
  <2> HIDE DEF rest, legacy, inputs, change
  <2> QED BY <1>6, <1>9, <1>10, <2>1, <2>2
<1> QED BY <1>11, <1>12

-----------------------------------------------------------------------------
(* The fee of a Selection *)

(* What is left for change, and the fee of a transaction that has it *)
Left == ChosenValue - request.value - RequiredFee(request, ChosenWeight + ChangeWeight)

LEMMA DrainFacts ==
    ASSUME IInv, ChosenWeight \in Nat, ChosenValue \in Nat
    PROVE  /\ Left \in Int /\ Drain \in Nat /\ request.min_change \in Nat /\ request.value \in Nat
           /\ Drain > 0 => Drain = Left /\ Drain > request.min_change
<1>1. request \in SelectorParams /\ request.min_change \in Nat /\ request.value \in Nat /\ ChangeWeight \in Nat
  BY SelectorAssumption DEF IInv, SelectingInv, SelectorParams
<1>2. ChosenWeight + ChangeWeight \in Int /\ ChosenWeight + ChangeWeight <= ChosenWeight + ChangeWeight
  BY <1>1
<1>3. RequiredFee(request, ChosenWeight + ChangeWeight) \in Int
  BY <1>1, <1>2, RequiredFeeMonotone
<1>4. Left \in Int
  BY <1>1, <1>3 DEF Left
<1>5. Drain = IF Left > request.min_change THEN Left ELSE 0
  BY DEF Drain, Left
<1> QED BY <1>1, <1>4, <1>5

LEMMA InvPaysFee == IInv => SelectionPaysItsFee
<1>1. ASSUME IInv PROVE SelectionPaysItsFee
  <2> DEFINE uncounted == IF \A group \in ChosenGroups : Len(group) = 1
                          THEN 0 ELSE Cardinality(LegacyInputs)
  <2> SUFFICES ASSUME Selected
               PROVE  /\ PaidFee >= RequiredFee(request, ActualWeight - uncounted)
                      /\ selection.change > 0 => selection.change > request.min_change
    BY DEF SelectionPaysItsFee
  <2>1. ChosenValue = SumOver(InputValue, selection.inputs) /\ ChosenValue \in Nat
    BY <1>1, ChosenTotals
  <2>2. /\ ChosenWeight \in Nat /\ ActualWeight - uncounted \in Int
        /\ ActualWeight - uncounted <= ChosenWeight + (IF selection.change > 0 THEN ChangeWeight ELSE 0)
    BY <1>1, WeightIsCounted
  <2> HIDE DEF uncounted
  <2> DEFINE weight == ActualWeight - uncounted
             due == RequiredFee(request, weight)
  <2>3. request \in SelectorParams /\ IsTargetMet /\ selection.change \in {0, Drain} /\ ChangeWeight \in Nat
    BY <1>1, SelectorAssumption DEF IInv, SelectingInv, Selected
  <2>4. Left \in Int /\ Drain \in Nat /\ request.min_change \in Nat /\ request.value \in Nat
        /\ (Drain > 0 => Drain = Left /\ Drain > request.min_change)
    BY <1>1, <2>1, <2>2, DrainFacts
  <2>5. PaidFee = ChosenValue - request.value - selection.change
    BY <2>1 DEF PaidFee
  <2>6. CASE selection.change > 0
    <3>1. selection.change = Left /\ selection.change > request.min_change
      BY <2>3, <2>4, <2>6
    <3> DEFINE w == ChosenWeight + ChangeWeight
    <3>2. weight \in Int /\ w \in Int /\ weight <= w
      BY <2>2, <2>3, <2>6
    <3> HIDE DEF weight, w
    <3>3. due \in Int /\ RequiredFee(request, w) \in Int /\ due <= RequiredFee(request, w)
      BY <2>3, <3>2, RequiredFeeMonotone
    <3>4. Left = ChosenValue - request.value - RequiredFee(request, w)
      BY DEF Left, w
    <3> HIDE DEF due
    <3>5. PaidFee = RequiredFee(request, w)
      BY <2>1, <2>4, <2>5, <3>1, <3>3, <3>4
    <3>6. PaidFee >= due
      BY <3>3, <3>5
    <3> QED BY <3>1, <3>6 DEF due, weight
  <2>7. CASE ~(selection.change > 0)
    <3>1. selection.change = 0
      BY <2>3, <2>4, <2>7
    <3>2. weight \in Int /\ ChosenWeight \in Int /\ weight <= ChosenWeight
      BY <2>2, <2>7
    <3> HIDE DEF weight
    <3>3. due \in Int /\ RequiredFee(request, ChosenWeight) \in Int /\ due <= RequiredFee(request, ChosenWeight)
      BY <2>3, <3>2, RequiredFeeMonotone
    <3>4. ChosenValue >= request.value + RequiredFee(request, ChosenWeight)
      BY <2>3 DEF IsTargetMet
    <3> HIDE DEF due
    <3>5. PaidFee >= due
      BY <2>1, <2>4, <2>5, <3>1, <3>3, <3>4
    <3> QED BY <2>7, <3>5 DEF due, weight
  <2> QED BY <2>6, <2>7
<1> QED BY <1>1

(* The transaction of a Selection pays the target feerate and what it      *)
(* replaces, with and without change (Selector::try_finalize).             *)
THEOREM SelectionsPayTheirFee == Spec => []SelectionPaysItsFee
BY InvPaysFee, Invariance, PTL

LEMMA InvTypeOK == IInv => TypeOK
<1>1. ASSUME IInv PROVE TypeOK
  <2>1. must \in Seq(InputId) /\ \A k \in DOMAIN can : can[k] \in Seq(InputId) \ {<<>>}
    <3>1. can \in Seq(Seq(InputId)) /\ must \in Seq(InputId) /\ \A k \in DOMAIN can : can[k] # <<>>
      BY <1>1 DEF IInv, CandidatesInv, GroupsInv
    <3>2. DOMAIN can = 1 .. Len(can)
      BY <3>1, LenProperties
    <3>3. \A k \in 1 .. Len(can) : can[k] \in Seq(InputId)
      BY <3>1, ElementOfSeq
    <3> QED BY <3>1, <3>2, <3>3
  <2>2. selection.inputs \in Seq(InputId) /\ selection.change \in Nat
    <3>1. CASE Selected
      <4>1. ChosenValue \in Nat /\ selection.inputs \in Seq(InputId)
        BY <1>1, <3>1, ChosenTotals, SelectionFacts
      <4>2. ChosenWeight \in Nat
        BY <1>1, <3>1, WeightIsCounted
      <4>3. Drain \in Nat
        BY <1>1, <4>1, <4>2, DrainFacts
      <4> QED BY <1>1, <3>1, <4>1, <4>3 DEF IInv, SelectingInv, Selected
    <3>2. CASE ~Selected
      <4>1. selection = NoSelection
        BY <1>1, <3>2 DEF IInv, SelectingInv, Selected
      <4> QED BY <4>1, EmptySeq DEF NoSelection
    <3> QED BY <3>1, <3>2
  <2> QED BY <1>1, <2>1, <2>2 DEF IInv, SelectingInv, TypeOK
<1> QED BY <1>1

(* The variables of the selector have their types: groups are not empty,   *)
(* the choices are indices of candidates, change is a natural number, and  *)
(* a selector that failed has an error (Selector).                         *)
THEOREM TypeCorrect == Spec => []TypeOK
BY InvTypeOK, Invariance, PTL
=============================================================================
