# A TLA+ model of bdk-tx

bdk-tx builds Bitcoin transactions: from a wallet's view of its transactions to
inputs, from inputs to a coin selection, from a selection to a psbt, and from a
signed psbt to a final one. This directory holds TLA+ modules for these stages,
TLC configurations that check them on small instances, and TLAPS proofs of the
properties that matter most, for every instance. Paths below are relative to the
crate (`src/` is the crate's source directory).

Run `tlc -config MCExtraction.cfg MCCanonicalUnspents` for a run (the table below
pairs them) and `tlapm CreatePsbtProof.tla` for a proof module. `PROJECT.json`
lists components, runs, hazards and theorems, and maps each definition to the
lines it models.

## 1. The system

bdk-tx is a library of one thread. It has no locks, no persistence and no
network. What makes it hard is *sequences of legal calls over data that changes
underneath*: a caller keeps an `Input` while the view it came from loses
transactions; the chain grows between a filter and the psbt made from what it let
through; a filter follows a regroup follows a filter; several wallets sign and
finalize one psbt in any order. The models therefore take the caller, the chain
and the co-signers as environment actions, and let them act between any two calls.

| Component | State | Operations | What makes it correct |
|---|---|---|---|
| `CanonicalUnspents` (`src/canonical_unspents.rs`) | `txs`, `statuses`, `spends` | `new`, `extract_replacements`, `is_unspent`, `try_get_unspent(s)`, `try_get_foreign_unspent(s)` | the index is exact; an extraction takes a transaction with everything that depends on it and nothing else; an error changes nothing |
| `RbfSet` (`src/rbf.rs`) | originals, their previous outputs, the descendants' fee | `candidate_filter`, `must_select_largest_input_of_each_original_tx`, `selector_rbf_params` | the replacement conflicts with every original, introduces no unconfirmed input of its own, and knows the exact fee it has to beat |
| `Input` (`src/input.rs`) | previous output, plan or psbt input, status, sequence | constructors, timelock and maturity queries, `set_sequence` | what is called spendable can be mined in the next block; no sequence makes a script unsatisfiable |
| `InputGroup`, `InputCandidates` (`src/input.rs`, `src/input_candidates.rs`) | must-select group, optional groups, two caches | `new`, `regroup`, `filter`, `into_selection` | caches agree with the groups, nothing is lost or doubled, groups stay whole |
| `Selector` (`src/selector.rs`) | target, change policy, the coin selector of `bdk_coin_select` | `new`, `select_all`, `select_until_target_met`, `select_with_algorithm`, `try_finalize`, `inner_mut` | the selection pays its feerate and what it replaces, and contains what it must |
| `Selection`, anti-fee-sniping (`src/selection.rs`, `src/afs.rs`) | inputs and outputs | `input_mut`, sorting, shuffling, `create_psbt`, `into_finalizer` | locktime and sequences satisfy every script; anti-fee-sniping neither delays nor invalidates the transaction and does protect it; every order is equally likely |
| `Finalizer`, `FinalizeMap` (`src/finalizer.rs`) | plans by outpoint; acts on a psbt | `finalize_input`, `finalize`, `is_finalized` | final inputs are fully signed, failures cost nothing, outputs are cleared last |
| `Signer` (`src/signer.rs`) | none | `get_key` | answers exactly the requests its keys can answer |
| random helpers (`src/no_std_rand.rs`) | none | `random_range`, `random_probability`, `shuffle_slice` | uniform, in range, terminating |
| `Output`, conversions (`src/output.rs`, `src/lib.rs`) | none | accessors | - |
| callers (`examples/synopsis.rs`, `examples/common.rs`) | a wallet, a chain | `rbf_candidates`, cancelling a transaction | the replacement is one by the mempool's rules |

How they interact:

* `CanonicalUnspents::extract_replacements` cuts the view and returns an `RbfSet`;
  the caller makes `Input`s from the view before or after that, passes
  `RbfSet::candidate_filter` to `InputCandidates::filter` and
  `selector_rbf_params` to the `Selector`.
* `Selector::new` borrows the `InputCandidates` and hands the cached
  `cs_candidates` to `bdk_coin_select`; `try_finalize` maps the chosen *indices*
  back to groups. The cache and the groups are two copies of one thing.
* `Selection::create_psbt` computes locktime and sequences from the inputs, then
  `apply_anti_fee_sniping` rewrites the transaction, after all checks were made.
* `Selection::into_finalizer` keeps the plans; psbt inputs that came from
  elsewhere have none.

The hazards this code has are in `PROJECT.json` at the line where each bites,
with the properties that guard against it or the reason there is none.

## 2. Modules

    Ledger ── CanonicalView                        (abstract)
       ├───── CanonicalUnspents ── CanonicalUnspentsProof      implements CanonicalView
       └───── DescendantSearch  ── DescendantSearchProof       the loop inside extract_replacements
    Arrangement ── InputCandidates ── Selector ── SelectorProof
                                         └── Selection ── SelectionProof
    NoStdRand ───────────────────────────────────┘
    CanonicalUnspents + Selector ── Replacement ── ReplacementProof
    InputLocks ── CreatePsbt ── InputGroup ── CreatePsbtProof
    Signer ── Finalizer ── FinalizerProof
    DataFacts      lemmas about folds and sequences, for CanonicalUnspentsProof and SelectorProof

A line leads from a module to one that extends it. Each `...Proof` module extends
the module it is about; `SelectionProof` and `ReplacementProof` also extend the
proofs of the parts they put together.

**Ledger** is external data: transactions as txids with the outpoints they spend
and the values of their outputs. `Canonical` and `Descendants` say what a
conflict-free set and its descendants are, without any index. The null outpoint
that all coinbases share is in it: it is the one key of `spends` that several
transactions have (`canonical_unspents.rs:37`).

**CanonicalView** is what `CanonicalUnspents` promises: a set of transactions with
its unspent outputs, and one action, `Evict(R)`.

**CanonicalUnspents** has the fields of the struct under their names, the `RbfSet` the
caller works with, the outpoints `picked` from it, the `Input`s the caller holds,
and one action per method; its specification is `ViewSpec`. An `RbfSet` owns what it
needs, so after an extraction the caller takes the new one or goes on with the one it
had, and with what was picked for that, on a view that has been cut again.
`ExtractReplacements` is the whole method: the error returns that precede every
mutation, the descendants found *through `spends`*, the fee, and the removal from
three maps. `TryGetForeignUnspent` has the checks against the view and those of
`Input::from_psbt_input`; a foreign psbt input is described by which of its fields
agree with the output it names. `evicted`, everything ever removed, and `replaced`, what
the extraction removed that returned the `RbfSet` at hand, are history variables.

**DescendantSearch** is the `while let` loop of `extract_replacements` one step at
a time: pop, one look-up per output, end of the outputs. In `CanonicalUnspents` the
loop is its result, the least set closed under `ChildrenOf`; the two are tied
together by proofs that both are the ledger's `Descendants`.

**InputLocks** has the timelock queries as `input.rs` computes them, with the early
return after an absolute lock and the three-valued time lock, and beside them
the consensus rules they stand for: `IsFinalTx`, BIP 68, BIP 65, BIP 112, coinbase
maturity. Heights and median times are small numbers; `Granularity` stands for
512 seconds.

**CreatePsbt** is the way from candidates to a transaction: filter, `set_sequence`,
`Selector::new`'s unit check, `create_psbt` with `accumulate_max_locktime` and
`apply_anti_fee_sniping`, while `NewBlock` may happen between any two. Every result
of the random choices is a nondeterministic one (`Offsets`, the locktime or the
sequence path, the taproot input). The height given for anti-fee-sniping is the tip
or one the caller saw earlier.

**InputGroup** has the predicates of a group on top of that: they ask the inputs in
order, some inputs answer "unknown" (`None`), and the first input that does not let
the loop go on decides. The groups are all orders of the inputs at hand.

**Arrangement** says what `filter`, a first-of-its-kind filter and a stable sort do to a
sequence: each is a choice of indices and their ranks. **InputCandidates** has both
vectors and both caches. Group policies are functions to group ids, filters are sets
of inputs; `NewFrom` is the removal of doubled outpoints in `new`. **Selector** extends
it with
`Selector::new`, an arbitrary order of choices by the selection algorithm, and
`try_finalize`. The target arithmetic of `bdk_coin_select` is external and exact:
feerate times weight, and for a replacement the replaced fees plus the incremental
relay fee. `OriginalTxStats::feerate` truncates, as in the code.

**NoStdRand** has `random_range` over words of any number and a turn of
`fisher_yates_shuffle`. **Selection** extends the selector with what a caller does to
a `Selection`: stable sorts, and shuffles one turn at a time with every word the
random source may give. A rejected word changes nothing.

**Replacement** is the caller of `examples/common.rs` and `examples/synopsis.rs` that
connects `CanonicalUnspents` and `Selector`, both of which it extends: one
extraction, the largest input of each original, all other unspent outputs of the
wallet as candidates, the filter of rule 2, `selector_rbf_params`, any choice of the
algorithm. The fees an original paid are known twice: as the view computed them and
from the ledger.

**Signer** is `get_key`. Keys are places in key trees, a fingerprint is the key it is
of. Paths are compared by how they are *written*, as in the code: `StartsWith` says
which paths' strings start with which, in terms of child numbers and decimal digits.
A multipath key stands in a KeyMap as the keys it is split into: they have one key and
one origin, and the paths they differ in are not looked at.
`SignWith` is how `Psbt::sign` asks: by derivation first, by public key then.

**Finalizer** has one psbt with several wallets and cosigners, who sign through
`Signer`. A signature has the key it is filed under and the key it was made by; a
Schnorr signature is filed under the key that was asked for. `finalize` calls
`finalize_input` for inputs in index order; as one input's result does not depend on
another's, the model makes them one step.

Operators named `X_Something` next to `X` ("Plausible bug") are mutants: variants of
`X` with a mistake, used to see that each property can fail.

## 3. Runs

| Run (cfg, module) | Question | Bounds | Distinct states |
|---|---|---|---|
| `MCExtraction`, MCCanonicalUnspents | Do `spends`, the eviction and the fees stay exact through any sequence of extractions, and is the result the abstract view? Does an older `RbfSet` stay replaceable? | 6 transactions and a second coinbase, requests up to 3 | 7 053 |
| `MCHeldInputs`, MCCanonicalUnspents | Are inputs genuine, own and foreign, and does the filter of a new or an old `RbfSet` keep rule 2, whenever they were obtained? | 6 transactions, heights 1 and 2 at tip 1, requests up to 2, one Input held, 6 kinds of foreign input | 15 427 |
| `MCDescendantSearch` | Does the loop find exactly the descendants, and end? | the same 6 transactions, every request, every stack order | 23 308 |
| `MCCreatePsbt` | Are scripts satisfied, is what was filtered minable, does anti-fee-sniping protect, and does a spendable group stay spendable? | 2 inputs of 27 kinds, tips 3 and 4, one override | 668 319 |
| `MCSelector` | Do caches, groups and fees agree after any regroups and filters, and is every order of a shuffle equally likely? | 5 inputs on 4 outpoints, 3 calls, 6 requests, words of 3 bits | 410 396 |
| `MCFinalizer` | Three cosigners, two wallets, any order, too early and again | 4 inputs, 4 keys, 5 KeyMap entries | 176 |
| `MCReplacement` | Does a replacement beat what it evicts, from the view to the selection? | 6 transactions and a second coinbase, requests up to 2, 2 targets | 9 640 |
| `MCSpendable`, MCCreatePsbt | finding 1 | - | violated |
| `MCAfsFuture`, MCCreatePsbt | finding 2 | - | violated |
| `MCOverride`, MCCreatePsbt | finding 3 | - | violated |
| `MCRule6`, MCReplacement | finding 4 | - | violated |
| `MCSignerPrefix`, MCFinalizer | finding 5 | - | violated |

What the passing runs show beside the obvious: a shuffle after `SelectionPaysItsFee`
holds still holds it, since the selection is only reordered; `OrderTellsDraws` says
that no two ways through a shuffle give one order, which with uniform draws is
uniformity of the orders; `ReplacesWhatItEvicts` joins two components: the conflicts
of the transaction the selector made are what the view was told to evict, which
depends on the required inputs, the rule 2 filter and the exactness of `spends`.

`MCSelector` sorts and shuffles a `Selection` in any order of calls, a slice that was
shuffled before included.

Why the bounds are enough:

* The ledger of `MCLedger` has a chain of three, a diamond (one transaction with two
  evicted parents, pushed twice), two spenders of one parent, two conflicting
  transactions, an output of value 0 and a coinbase; `MCExtraction` and `MCReplacement`
  add a second coinbase, which shares the null key of `spends` with the first.
  `ViewInit` takes every canonical subset, so also views where a parent is missing
  (`PreviousOutputNotFound`) and every assignment of confirmations. Requests of three can name an ancestor, its
  descendant and something unrelated; several extractions follow each other until
  the view is empty. A held Input matters only with respect to the extractions
  around it, so one is enough; extractions with three requested transactions and no
  held input are the other run. `MCHeldInputs` has an input confirmed at the tip given to
  the filter and one above it. Its states are told apart by a `VIEW` of all variables but
  the outcome of the last call, which no call and none of its invariants looks at.
* `CreatePsbt`'s properties are about one lock against one locktime or sequence, and
  about the units of two inputs: two inputs of every kind show every conflict.
  Tips 3 and 4 with a maturity of 3, a relative limit of 3 and offsets 0 and 1 put
  every comparison on both sides of its boundary; a coinbase at height 2 is immature at
  tip 3 and mature at tip 4. Locks of both units, in one plan
  and in two, are there.
* In `InputGroup` two inputs in both orders bring every pair of answers together,
  "unknown" before and after "unspendable" included.
* In `Selector` the two policies and two filters cut across each other, one output is
  offered twice with different values, and the requests need one, two or all inputs,
  cannot be met, have a change script without a satisfaction weight, for either reason,
  or replace two transactions.
* Three calls are the shortest sequence that filters, regroups and filters again.
* `WordSize` 8: selections have up to five inputs and three outputs, so ranges that
  divide the number of words (2, 4) and ranges that do not (3, 5) occur, with
  threshold 0 and with rejected words.
* In `Finalizer` alice has accounts whose numbers start alike, bob an extended key
  without an origin, carol a single key; one input needs two cosigners and both
  wallets have a plan for it, one came in presigned.
* In `Replacement` requests of two give two originals, with and without evicted
  descendants of their own, and of one the other's descendant.

`CHECK_DEADLOCK FALSE` stands where the modelled caller is done: after the search,
after `create_psbt`, after `try_finalize`.

### Fairness

* `DescendantSearch`: `WF_vars(Next)`. A loop of one thread that waits for nothing.
* `Finalizer`: weak fairness of each cosigner and of each wallet's `finalize`. This is
  not scheduling but what the users have to do: every cosigner signs, and every wallet
  calls `finalize` again after a failure. `finalize_input` has no fairness: nobody
  has to call it.
* Everything else is safety only; callers may stop at any time.

### Findings

1. `src/input.rs:482`: with an absolute *and* a relative lock of one unit,
   `is_block_timelocked` (and `is_time_timelocked`, line 510) looks at the absolute
   one alone. An unmet CSV is reported spendable, against "Whether this output can be
   spent at the given height and mtp time" (line 575). The run `MCSpendable` shows the
   unminable transaction; `FilteredIsMinable` holds where no plan has both in one unit.
2. `src/selection.rs:58-60` says that a locktime above the tip leaves the transaction
   unchanged by anti-fee-sniping; the sequence path does not look at the locktime
   (`MCAfsFuture`).
3. `src/input.rs:617` says that `set_sequence` overrides the sequence in the resulting
   transaction; anti-fee-sniping may overwrite it (`MCOverride`). `ScriptsSatisfied`
   shows that this never breaks a script.
4. `src/selector.rs:206` rounds the feerate of an original down, and the target asks
   for at least the largest of them. "The replacement tx must have a feerate larger
   than this value" (line 239) and "This ensures that we satisfy mempool-replacement
   policy rules 4 and 6" (`examples/synopsis.rs:144`) are more than that: in `MCRule6`
   a replacement pays no more per weight than an original. What the absolute fee
   promises, rules 3 and 4, holds (`PaysForEvicted`).
5. `src/signer.rs:48` compares paths as strings, against "The key origin is a strict
   prefix of the request derivation" (line 46). The origin path `1` starts the written
   derivation `10/0`: the Signer answers with a key that was not asked for, and the
   psbt gets a signature that is not valid (`MCSignerPrefix`). Origins that end in a
   hardened step, those of usual accounts, are safe, because the apostrophe ends the
   number; this is proved.

## 4. Proofs

All theorems hold for every value of the constants that meets the named assumptions:
any ledger, any number of requests and of held inputs, any candidates, policies,
filters and payments, any heights, offsets, keys, KeyMaps and wallets, words of any
width. Every safety property of the passing runs is a theorem, two of them
(`SignedByTheRightKeys`, `FinalIsSigned`) for cosigners whose key origins are hardened,
which finding 5 shows to be necessary. `PROJECT.json` pairs properties and theorems.

What is assumed of the constants:

| Assumption | What it says | Why it holds |
|---|---|---|
| `LedgerAssumption` | finitely many transactions, inputs name outputs that exist, only a coinbase has the null outpoint | consensus |
| `ConsensusAssumption` | no transaction but a coinbase creates value; no set of transactions rests on itself | consensus; a transaction commits to the txids it spends |
| `CallerAssumption`, `CandidatesAssumption` | types of what a caller passes; a policy answers for every input | types |
| `SelectorAssumption` | types; a request is a `SelectorParams` whose originals have a weight | types, no transaction has weight zero |
| `SelectionAssumption` | outpoints are compared by number; no more inputs and outputs than words | lengths fit in the machine's word |
| `ReplacementAssumption` | the candidates are outputs of the ledger at their values; the wallet is a segwit one | what `try_get_unspent` returns; the example's descriptors |
| `LockAssumption`, `CreateAssumption` | median times do not fall; what `from_prev_tx` and `from_psbt_input` guarantee of a fresh `Input` | consensus; the constructors |
| `FinalizerAssumption`, `WordAssumption` | types; there is a word | types |

### Sums, sequences, folds (DataFacts)

The folds of the community modules choose a recursive function. That such a function
exists is an induction, and the induction theorems of the library take an operator.
Here induction is over *sets*: a set of naturals that has 0 and every successor has all
of them, because otherwise there is a least one that it lacks (`LeastNatural`,
`Induction`); from it follow `Recursion`, the existence of a fold over a finite set
(`FoldExists`, `SumExists`) and over a sequence (`FlattenExists`), and what sums and
flattened sequences do when an element is added (`SumRemove`, `FlattenAppend`). The
other lemmas are those the components keep asking for: a sum over a disjoint union, a
sum under a renaming of indices, the range, length and distinctness of a flattened
sequence, `Subsequence`, `FirstBy` and `SortedBy` (`SubsequenceLists`, `FirstByFacts`,
`SortLists`: each lists the chosen indices once).

### The view (CanonicalUnspentsProof)

That an extraction removes enough cannot be shown from the properties alone: the code
finds descendants through `spends`, so it needs `SpendsIndexesView`, which in turn
survives the removal only if nobody else spends what is removed. The inductive
invariant `ViewInv` is therefore `ViewTypeOK`, `Canonical(txs)`, `SpendsIndexesView`,
`NothingRestsOnEvicted`, `OriginalsStayReplaceable`, `RbfIsEvicted` (the `RbfSet` is
made of what was evicted with it and of true output values),
`MustReplacesEveryOriginal` and `InputsKeepStatus` (an `Input` has the status its
transaction has in the view, if it is there). An `RbfSet` that is kept while the view is
cut again is no easier than a new one: an original's input that is no longer unspent went
with the transaction that made it, which the invariant says in these words. The lemma `SearchFindsDescendants` says that the set found
through `spends` is the ledger's `Descendants`. From it: `ViewTypeCorrect`,
`IndexStaysExact`, `EvictionIsClosed`, `OriginalsReplaceable`, `MustSelectReplaces`,
`Rule2Kept`, `InputsGenuine` (inductive by itself), and `Refinement`: every extraction is
an `Evict` of `CanonicalView`, every other call a stutter.

`Rule2Kept` follows from `OriginalsStayReplaceable`, which says that what an original spent
was not evicted with it, and `InputsKeepStatus`: confirmations at the tip above zero mean
a height no greater than it (`ConfirmedByTip`). The filter is no guard against an
extraction of confirmed transactions: their `Input`s pass still.

`ExtractionReturnsFees` is about sums: the unspent outputs after an extraction,
together with what the evicted transactions made, are the unspent outputs before it,
together with what they spent; both unions are disjoint because the view is canonical
and the descendants are closed. So the value that comes back is the sum of the fees of
all that is evicted, and `FeeToBeat`, originals from `prev_txouts` plus
`descendant_fee`, is that sum split in two. `FeeIsNat`, that no transaction but a coinbase
has a negative fee, is in the property too: neither `input_sum - output_sum` of a
descendant nor the unchecked subtraction of `RbfSet::_fee` goes below zero.

### The search (DescendantSearchProof)

`SearchInv` is inductive as it stands: what is found is a descendant (`Sound`), and a
child of a visited transaction has been found unless it hangs on an output still to be
looked up (`NothingSkipped`). With an empty stack the set found is closed, so it is all
of `Descendants` (`SearchIsCorrect`).

### Candidates and selection (SelectorProof)

The invariant `IInv` is `CandidatesInv /\ SelectingInv`. `CandidatesInv` has three parts:
`GroupsInv`, the groups are sequences of inputs and no outpoint is in two places;
`CacheInv`, `cs_candidates` and `contains` are those of the groups; `PolicyInv`, an
optional group has all inputs of its id in the last policy, those of `must_select`
included, and has only inputs that every filter kept. `GroupsInv` says
group by group what `CachesAgree` says by counting: `filter` takes from `contains` the
outpoints of the groups it drops, and `regroup` lists anew what `can_select` flattened,
and both are right because no other group has these outpoints. `PolicyInv` relates the
groups to arguments of earlier calls, which `SelectionRespectsGroups` is about.
`SelectingInv` adds the coin selector:
the indices chosen are in range, the first group is chosen when there is a
`must_select` (`Selector::new` selects "the next" candidate), and a Selection is a
rearrangement of the chosen groups whose change is zero or the drain.
`SelectionsRespectGroups`, `CachesAlwaysAgree`, `TypeCorrect` and, as an action property,
`RegroupLosesNothing` follow.

`SelectionsPayTheirFee` needs two facts more. The required fee is monotone in the weight
(`RequiredFeeMonotone`, from `FeeMonotone` for the rounded quotient), so a transaction
no heavier than the coin selector assumed has paid enough; and it is no heavier, but for
the witness lengths of legacy inputs in groups of several that the crate does not count
(`WeightIsCounted`, which counts these inputs, `LegacyFacts`).

### Sorting and shuffling (SelectionProof)

`Threshold(n)` is `WordSize % n`, so that between it and the last word there are whole
runs of `n` words (`WholeRuns`), and each remainder is found once in each
(`OneWordPerRun`): all draws of a shuffle have the same number of words, and no more than
half of the words are rejected (`ShufflesAreUniform`).

`OrderAlwaysTellsDraws`: what was drawn can be told from the order since every turn puts
an element where no later turn reaches. The property says so with a recursive function
from the front; the invariant `ShuffleInv` has a witness, a *history* of the slice at
every turn (`IsHistory`), which a turn extends (`HistoryGrows`) and which can only be the
one the property computes (`HistoryTells`). It needs the elements of a slice to be
distinct, which `SelectingInv` says of inputs and of outputs. `SelectionInv` is `IInv`
with `ShuffleInv`; that `IInv` survives (`ReorderingKeepsSelections`,
`ReorderingLosesNothing`) is `ReorderKeepsInv`: sorts and swaps rearrange.

### A replacement, end to end (ReplacementProof)

The invariant of the composition `ReplacementInv` is `ViewInv` and the selector's
`CandidatesInv` and `SelectingInv` from the stage on in which there are candidates, tied
together: `HistoryInv` says that what was evicted is the originals and their descendants
in the view as it was, and `descendant_fee` the fees of the latter; `OfferInv` that
`must_select` is what was picked, all candidates are unspent in the view, and the
parameters are those of this `RbfSet`; and after the filter all inputs left pass rule 2.

* `EvictsWhatItReplaces`. One half: the replacement spends an input of every original,
  since `must_select` is chosen as a whole. The other half: it conflicts with nothing
  else that was not evicted, since every candidate is unspent *after* the eviction. That
  the descendants of the originals are all that was evicted is not obvious from the code,
  which drops an original that is a descendant of another one (`rbf.txs` are the
  requested ones that do not rest on each other): `OriginalsReachAll` takes a transaction
  out of a least counterexample, and needs that no set of transactions rests on itself.
* `SpendsNothingNewUnconfirmed`. The filter let each input pass that is not required;
  those required were spent by an original.
* `ReplacementsPay`. `SelectionsPayTheirFee` with the `RbfParams` of this `RbfSet`, whose
  sum over a *sequence* of originals in whatever order is the sum over the set
  (`RbfParamsFacts`), and `TotalFee` of the evicted from `ExtractionReturnsFees`. In a
  segwit wallet no witness is left out of the weight.

### Creating the psbt (CreatePsbtProof)

`IInv` adds to `TypeOK` and the two properties `InputsKeepLocks` (`set_sequence` refuses
what would break an input's own locks) and `UnitsAgree` (`Selector::new` refuses mixed
units, which `create_psbt` relies on). `MaxLocktimeCovers` shows that
`accumulate_max_locktime` satisfies every CLTV; `LocktimePath` and `SequencePath` that
anti-fee-sniping keeps CLTV and CSV and that its result is not final in a block more
than the offset below its height. Results: `TypeCorrect`, `ScriptsAreSatisfied`,
`AfsKeepsOutOfOldBlocks`.

That what was filtered can be mined (`FilteredCanBeMined`) needs more: median times do
not fall, and what the filter found of an input stays true while blocks arrive.
`MinableInv` says so: absolute locks and maturity have passed, and so have relative
locks of inputs that were not overridden (`FilterHolds`). The locktime `create_psbt`
computes is then either a lock that has passed or the caller's, and a sequence is the
plan's own lock or one that anti-fee-sniping made from confirmations.

Groups build on `FilterHolds`' lemmas. `TheLoop` says what a walk over a group returns
without its order: the default when all inputs give it, otherwise one of the other
answers. `PredicatesAgree` and `SpendableGroupsStay` follow by cases over one input, for
groups of any size. What stays while blocks arrive is `Some(true)`; `Some(false)` may turn
with a new tip, and with nothing else.

### Signing and finalizing (FinalizerProof)

Of key maps whose origins are true: an origin that ends in a hardened step starts the
derivations below it and no others (`HardenedPrefix`), so `get_key` answers a request
with the key it is for or not at all (`GetKeyIsRight`), and it does answer when one of its
origins is a prefix (`GetKeyFinds`).

`IInv` has `TypeOK`, `ClearedWhenAllFinal`, and, when all origins are hardened,
`SignedByTheRightKeys` and `FinalIsSigned`. Neither of the last two is inductive without
the Signer's theorem: `finalize_input` takes the signatures it finds and does not verify
them. The action property `FailureKeepsSignatures` follows from `IInv`.

### Only model-checked

* `Terminates` and `EventuallyFinalized`: liveness is out of the prover's reach.
* The five findings are counterexamples.

## 5. What is not modelled

* `Selector::inner_mut`, through which a caller may do anything to the coin selector,
  and `bdk_coin_select` itself.
* Whether a foreign segwit input that is not final yet counts as segwit
  (`src/input.rs:178`): being segwit is a constant of the candidates. The model has one
  weight per input.
* Feerates as 32-bit floating point numbers (`src/lib.rs`); TLA+ has none.
* Of `Signer`: the error of a child derivation that fails. Requests by x-only public key
  are answered like those by public key.
* An `RbfSet` made by hand with `RbfSet::new`: its previous outputs need not be those of
  any view. `Input::from_prev_txout` for the same reason.
* Psbt fields other than those named above: no property here tells them apart. The
  contents of witnesses. Which fields of the outputs `finalize` clears: the model has one
  flag, and `src/finalizer.rs:20-22` does not say which fields are essential.
* Algorithms for random numbers other than `src/no_std_rand.rs` (with `std`, the `rand`
  crate): anti-fee-sniping is checked for every result they may have.
* Overflow of amounts: consensus bounds them by 21 million coins.
* The rest of `examples/`, which talks to a regtest node, and `ci/`.

## 6. Plan

Done: the view and its extraction, the search, psbt creation with timelocks and groups,
candidates and selection, sorting and shuffling, replacement end to end, signing and
finalization; and the proofs of all their safety properties. What is left, in order of
use:

1. `Selection` implements a shuffle that takes one of all orders in one step: the abstract
   specification, the mapping, and the proof from `OrderAlwaysTellsDraws`.
2. `DescendantSearch` as the step inside `ExtractReplacements`: `EvictedDescendants` is the
   loop's result in every run of the loop that ends.
3. `CreatePsbt` after `Replacement`: locks and confirmations of the inputs of a
   replacement, with blocks that confirm an original in between.
4. `from_prev_txout` and a hand-made `RbfSet`: which of the properties of
   `CanonicalUnspents` survive data that comes from no view.
5. Outputs of a finalized psbt by field, once it is documented which are essential.
