--------------------------- MODULE InputCandidates ---------------------------
(***************************************************************************)
(* The candidates of a coin selection (input_candidates.rs): one group of  *)
(* inputs that must be selected and a list of groups that can be, with the *)
(* two caches the crate keeps beside them.                                 *)
(***************************************************************************)
EXTENDS Arrangement, SequencesExt

CONSTANTS InputId,      \* the Inputs a caller may offer
          PrevOutpoint, \* PrevOutpoint[i]: Inputs may share an outpoint
          InputValue,   \* prev_txout.value
          InputWeight,  \* TXIN_BASE_WEIGHT + satisfaction weight
          Segwit,       \* the Inputs that are segwit spends
          Policies,     \* group policies: functions from inputs to group ids
          Filters,      \* filter policies: the sets of inputs they keep
          Offers,       \* what a caller passes to new: [must, can]
          MaxSteps      \* bound: regroup and filter calls

ASSUME CandidatesAssumption ==
    /\ InputValue \in [InputId -> Nat] /\ InputWeight \in [InputId -> Nat]
    /\ InputId = DOMAIN PrevOutpoint /\ Segwit \subseteq InputId
    /\ \A policy \in Policies : DOMAIN policy = InputId
    /\ Filters \subseteq SUBSET InputId
    /\ Offers \subseteq [must : Seq(InputId), can : Seq(InputId)]

VARIABLES must,     \* must_select: its inputs, <<>> for None
          can,      \* can_select: a sequence of groups
          cs,       \* cs_candidates
          contains, \* the cached outpoints
          policy,   \* history: the policy of the last regroup
          kept,     \* history: the inputs every filter so far has kept
          steps     \* history: calls made

candidates == <<must, can, cs, contains, policy, kept, steps>>

-----------------------------------------------------------------------------

OutpointsOf(s) == {PrevOutpoint[i] : i \in ToSet(s)}

SumOver(f, group) == SumFunction([n \in DOMAIN group |-> f[group[n]]])

GroupsOf(m, c) == IF m = <<>> THEN c ELSE <<m>> \o c

(* build_cs_candidates *)
BuildCs(m, c) ==
    LET groups == GroupsOf(m, c)
    IN  [k \in DOMAIN groups |->
            [value |-> SumOver(InputValue, groups[k]),
             weight |-> SumOver(InputWeight, groups[k]),
             input_count |-> Len(groups[k]),
             is_segwit |-> \E i \in ToSet(groups[k]) : i \in Segwit]]

AllInputs(m, c) == FlattenSeq(GroupsOf(m, c))

(* The default policy of new: every optional input is a group of its own. *)
NoPolicy == [i \in InputId |-> i]

(* new keeps the first input of each outpoint, must_select before the others. *)
NewFrom(offer) ==
    LET first == FirstBy(PrevOutpoint, offer.must, {})
        rest == FirstBy(PrevOutpoint, offer.can, OutpointsOf(first))
    IN  [must |-> first,
         can |-> [k \in DOMAIN rest |-> <<rest[k]>>],
         contains |-> OutpointsOf(first \o rest)]

NewCandidates ==
    \E offer \in Offers :
        LET new == NewFrom(offer)
        IN  /\ must = new.must
            /\ can = new.can
            /\ cs = BuildCs(must, can)
            /\ contains = new.contains
            /\ policy = NoPolicy
            /\ kept = InputId
            /\ steps = 0

(***************************************************************************)
(* regroup: the optional inputs in the order in which their group ids      *)
(* first occur; groups that share an id with a must_select input join it.  *)
(***************************************************************************)
InGroup(p, s, id) == Subsequence(s, {k \in DOMAIN s : p[s[k]] = id})

GroupsInOrder(p, s, leaders) == [n \in DOMAIN leaders |-> InGroup(p, s, p[leaders[n]])]

(* Plausible bug: inputs grouped with a must_select input leave the optional *)
(* groups and are not added to it.                                           *)
Absorbed_Nothing(p, s) == <<>>

Absorbed(p, s) == FlattenSeq(GroupsInOrder(p, s, FirstBy(p, must, {})))

Regrouped(p, s) ==
    GroupsInOrder(p, s, FirstBy(p, s, {p[i] : i \in ToSet(must)}))

Regroup(p) ==
    LET flat == FlattenSeq(can)
    IN  /\ steps < MaxSteps
        /\ must' = must \o Absorbed(p, flat)
        /\ can' = Regrouped(p, flat)
        /\ cs' = BuildCs(must', can')
        /\ policy' = p
        /\ steps' = steps + 1
        /\ UNCHANGED <<contains, kept>>

(* Plausible bug: one input that passes lets its whole group through. *)
Passes_Any(group, keep) == ToSet(group) \cap keep # {}

(* filter: a group with one input that fails goes as a whole. *)
Passes(group, keep) == ToSet(group) \subseteq keep

(* Plausible bug: the coin selector keeps the candidates it had. *)
FilterInputs_StaleCs(keep) ==
    LET passing == {k \in DOMAIN can : Passes(can[k], keep)}
        dropped == Subsequence(can, DOMAIN can \ passing)
    IN  /\ steps < MaxSteps
        /\ can' = Subsequence(can, passing)
        /\ contains' = contains \ OutpointsOf(FlattenSeq(dropped))
        /\ kept' = kept \cap keep
        /\ steps' = steps + 1
        /\ UNCHANGED <<must, cs, policy>>

FilterInputs(keep) ==
    LET passing == {k \in DOMAIN can : Passes(can[k], keep)}
        dropped == Subsequence(can, DOMAIN can \ passing)
    IN  /\ steps < MaxSteps
        /\ can' = Subsequence(can, passing)
        /\ contains' = contains \ OutpointsOf(FlattenSeq(dropped))
        /\ cs' = BuildCs(must, can')
        /\ kept' = kept \cap keep
        /\ steps' = steps + 1
        /\ UNCHANGED <<must, policy>>

NextCandidates ==
    \/ \E p \in Policies : Regroup(p)
    \/ \E keep \in Filters : FilterInputs(keep)

-----------------------------------------------------------------------------
(* Properties *)

(***************************************************************************)
(* The caches agree with the groups after any regroup and filter: the      *)
(* coin selector works on cs by index while inputs are taken from the      *)
(* groups, and contains answers for exactly the outpoints still there, of  *)
(* which none occurs twice.                                                *)
(***************************************************************************)
CachesAgree ==
    LET all == AllInputs(must, can)
    IN  /\ cs = BuildCs(must, can)
        /\ contains = OutpointsOf(all)
        /\ Cardinality(OutpointsOf(all)) = Len(all)

(***************************************************************************)
(* regroup and filter never lose a must_select input, never let an input   *)
(* back in, and regroup keeps every input there is.                        *)
(***************************************************************************)
NothingLostByRegroup ==
    [][/\ ToSet(must) \subseteq ToSet(must')
       /\ ToSet(AllInputs(must', can')) \subseteq ToSet(AllInputs(must, can))
       /\ kept' = kept => Len(AllInputs(must', can')) = Len(AllInputs(must, can))]_candidates
=============================================================================
