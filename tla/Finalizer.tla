------------------------------ MODULE Finalizer ------------------------------
(***************************************************************************)
(* Several wallets sign and finalize one psbt (finalizer.rs, signer.rs):   *)
(* each wallet has a Finalizer with the plans of its own inputs, cosigners *)
(* add signatures in any order, and finalize or finalize_input may be      *)
(* called too early, repeatedly and by anyone.                             *)
(***************************************************************************)
EXTENDS Signer, FiniteSets

CONSTANTS InputIndex,  \* inputs of the psbt
          Key,         \* keys of the plans
          Source,      \* Source[k]: the derivation the psbt gives for k
          PlanKeys,    \* PlanKeys[i]: the keys whose signatures i's plan needs
          Taproot,     \* the inputs with Schnorr signatures
          Cosigner,
          KeyMaps,     \* KeyMaps[s]: the KeyMap of the Signer of s
          Wallet,
          Plans,       \* Plans[w]: the inputs w's Finalizer has plans for
          Presigned    \* inputs that came in as final psbt inputs

ASSUME FinalizerAssumption ==
    /\ Key \subseteq Node
    /\ Source \in [Key -> KeySource] /\ \A k \in Key : Leads(Source[k], k)
    /\ PlanKeys \in [InputIndex -> SUBSET Key]
    /\ Taproot \subseteq InputIndex
    /\ KeyMaps \in [Cosigner -> Seq(Entry)] /\ \A s \in Cosigner : TrueOrigins(KeyMaps[s])
    /\ Plans \in [Wallet -> SUBSET InputIndex]
    /\ Presigned \subseteq InputIndex
    /\ \A w \in Wallet : Plans[w] \cap Presigned = {}   \* into_finalizer

VARIABLES sigs,     \* sigs[i]: the signatures in psbt input i
          metadata, \* inputs that still have scripts and key origins
          final,    \* inputs with final_script_sig or final_script_witness
          used,     \* used[i]: the signatures in i's final fields
          cleared,  \* whether the key origins of the outputs are gone
          results   \* the FinalizeMap of the last finalize

vars == <<sigs, metadata, final, used, cleared, results>>

Outcome == {"true", "false", "error"}

(***************************************************************************)
(* A signature stands for a key and is made by one; it is valid when they  *)
(* are the same. An ECDSA signature is filed under the key that made it, a *)
(* Schnorr signature under the key that was asked for.                     *)
(***************************************************************************)
Signature == [slot : Node, by : Node]

Valid(keys) == {[slot |-> k, by |-> k] : k \in keys}

Filled(i) == {t.slot : t \in sigs[i]}

Init ==
    /\ sigs = [i \in InputIndex |-> {}]
    /\ metadata = InputIndex \ Presigned
    /\ final = Presigned
    /\ used = [i \in InputIndex |-> IF i \in Presigned THEN Valid(PlanKeys[i]) ELSE {}]
    /\ cleared = FALSE
    /\ results = [i \in {} |-> "true"]

(***************************************************************************)
(* Psbt::sign (external): for each key with a derivation in an input that  *)
(* still has them, the signature of the key the Signer of s answers with.  *)
(* A Schnorr signature that is there already is kept.                      *)
(***************************************************************************)
Signatures(s, i) ==
    UNION {{[slot |-> IF i \in Taproot THEN k ELSE g, by |-> g] :
                g \in SignWith(KeyMaps[s], k, Source[k])} : k \in PlanKeys[i]}

Added(s, i) ==
    IF i \notin metadata \ final THEN {}
    ELSE {t \in Signatures(s, i) \ sigs[i] : i \in Taproot => t.slot \notin Filled(i)}

Sign(s) ==
    /\ \E i \in InputIndex : Added(s, i) # {}
    /\ sigs' = [i \in InputIndex |-> sigs[i] \cup Added(s, i)]
    /\ UNCHANGED <<metadata, final, used, cleared, results>>

-----------------------------------------------------------------------------

(* Plausible bug: one signature is taken for all. *)
Satisfied_ByOne(i) == PlanKeys[i] \cap Filled(i) # {}

(* Plan::satisfy (external) looks signatures up and does not verify them. *)
Satisfied(i) == PlanKeys[i] \subseteq Filled(i)

(* What finalize_input returns for input i of wallet w *)
ResultOf(w, i) ==
    IF i \in final THEN "true"
    ELSE IF i \notin Plans[w] THEN "false"
    ELSE IF Satisfied(i) THEN "true" ELSE "error"

(* The signatures that go into the final fields *)
Taken(i) == {t \in sigs[i] : t.slot \in PlanKeys[i]}

(* Plausible bug: the scripts and key origins of a finalized input stay. *)
Finish_KeepsMetadata(done) ==
    /\ used' = [i \in InputIndex |-> IF i \in done THEN Taken(i) ELSE used[i]]
    /\ sigs' = [i \in InputIndex |-> IF i \in done THEN {} ELSE sigs[i]]
    /\ final' = final \cup done
    /\ UNCHANGED metadata

(* Its effect on the inputs in done: everything but the utxos is taken. *)
Finish(done) ==
    /\ used' = [i \in InputIndex |-> IF i \in done THEN Taken(i) ELSE used[i]]
    /\ sigs' = [i \in InputIndex |-> IF i \in done THEN {} ELSE sigs[i]]
    /\ metadata' = metadata \ done
    /\ final' = final \cup done

(* Plausible bug: the psbt input is emptied before the plan is satisfied. *)
FinalizeInput_TakesFirst(w, i) ==
    IF ResultOf(w, i) = "error"
    THEN /\ sigs' = [sigs EXCEPT ![i] = {}]
         /\ metadata' = metadata \ {i}
         /\ UNCHANGED <<final, used, cleared, results>>
    ELSE /\ Finish(IF ResultOf(w, i) = "true" THEN {i} \ final ELSE {})
         /\ UNCHANGED <<cleared, results>>

FinalizeInput(w, i) ==
    /\ Finish(IF ResultOf(w, i) = "true" THEN {i} \ final ELSE {})
    /\ UNCHANGED <<cleared, results>>

(* Plausible bug: only errors count, not inputs without a plan. *)
IsFinalized_NoError(map) == \A i \in DOMAIN map : map[i] # "error"

(* Plausible bug: a psbt with nothing left to finalize is not a success. *)
IsFinalized_NonEmpty(map) == DOMAIN map # {} /\ \A i \in DOMAIN map : map[i] = "true"

(* FinalizeMap::is_finalized *)
IsFinalized(map) == \A i \in DOMAIN map : map[i] = "true"

Finalize(w) ==
    LET map == [i \in InputIndex \ final |-> ResultOf(w, i)]
    IN  /\ Finish({i \in DOMAIN map : map[i] = "true"})
        /\ results' = map
        /\ cleared' = (cleared \/ IsFinalized(map))

Next ==
    \/ \E s \in Cosigner : Sign(s)
    \/ \E w \in Wallet, i \in InputIndex : FinalizeInput(w, i)
    \/ \E w \in Wallet : Finalize(w)

(***************************************************************************)
(* The users' side of the protocol: every cosigner signs in the end, and     *)
(* every wallet calls finalize again after a failure.                      *)
(***************************************************************************)
Spec == /\ Init /\ [][Next]_vars
        /\ \A s \in Cosigner : WF_vars(Sign(s))
        /\ \A w \in Wallet : WF_vars(Finalize(w))

-----------------------------------------------------------------------------
(* Properties *)

(* The variables have their types; final inputs have no metadata left. *)
TypeOK ==
    /\ sigs \in [InputIndex -> SUBSET Signature]
    /\ used \in [InputIndex -> SUBSET Signature]
    /\ metadata = InputIndex \ final
    /\ final \subseteq InputIndex
    /\ cleared \in BOOLEAN
    /\ DOMAIN results \subseteq InputIndex
    /\ \A i \in DOMAIN results : results[i] \in Outcome

(***************************************************************************)
(* A signature in the psbt is made by the key it stands for, and the plan  *)
(* asks for that key: a Signer with several extended keys never answers    *)
(* for one of them with a key below another.                               *)
(***************************************************************************)
SignedByTheRightKeys ==
    \A i \in InputIndex : sigs[i] \subseteq Valid(PlanKeys[i])

(***************************************************************************)
(* A final input carries a valid signature of every key of its plan, and   *)
(* no other, whoever called finalize and however early.                    *)
(***************************************************************************)
FinalIsSigned == \A i \in final : used[i] = Valid(PlanKeys[i])

(***************************************************************************)
(* The outputs lose their key origins, and finalize reports success, only  *)
(* when every input of the psbt is final, those of other wallets and       *)
(* presigned ones included: a co-signer that still has to verify change    *)
(* finds the origins.                                                      *)
(***************************************************************************)
ClearedWhenAllFinal == cleared => final = InputIndex

(***************************************************************************)
(* A failed or refused finalization costs nothing: an input that is not    *)
(* made final keeps its signatures and its metadata for the next attempt,  *)
(* and a final input never changes again.                                  *)
(***************************************************************************)
FailureKeepsSignatures ==
    [][\A i \in InputIndex :
          /\ i \notin final' => sigs[i] \subseteq sigs'[i] /\ (i \in metadata => i \in metadata')
          /\ i \in final => i \in final' /\ used'[i] = used[i]]_vars

(***************************************************************************)
(* When every input has a plan in some wallet or came in final, and every  *)
(* key of the plans is in some KeyMap, the psbt is finalized and its       *)
(* outputs are cleared once everybody signs and retries, also when inputs  *)
(* were finalized one by one before.                                       *)
(***************************************************************************)
Held(k) == \E s \in Cosigner : k \in SignWith(KeyMaps[s], k, Source[k])

EventuallyFinalized ==
    /\ UNION {Plans[w] : w \in Wallet} \cup Presigned = InputIndex
    /\ \A k \in UNION {PlanKeys[i] : i \in InputIndex \ Presigned} : Held(k)
        => <>[](final = InputIndex /\ cleared)
=============================================================================
