-------------------------- MODULE DescendantSearch --------------------------
(***************************************************************************)
(* The loop of extract_replacements that collects the descendants of the   *)
(* requested transactions (canonical_unspents.rs:75-100): a stack of       *)
(* transactions still to visit, one output of the visited transaction      *)
(* looked up per step.                                                     *)
(***************************************************************************)
EXTENDS Ledger

VARIABLES view,        \* the transactions of the view, fixed during the call
          requested,   \* the keys of rbf_txs before descendants leave it
          toVisit,     \* to_visit, popped at its end
          visited,
          descendants,
          current,     \* the transaction whose outputs are looked up, or NoTxid
          vout         \* the output looked up next

input == <<view, requested>>
vars == <<view, requested, toVisit, visited, descendants, current, vout>>

Elems(s) == {s[i] : i \in DOMAIN s}

(* to_visit starts with the requested txids in the order of a HashMap: any. *)
Orders(S) == {s \in [1 .. Cardinality(S) -> S] : Elems(s) = S}

Init ==
    /\ view \in {S \in SUBSET Txid : Canonical(S)}
    /\ requested \in SUBSET view
    /\ toVisit \in Orders(requested)
    /\ visited = {}
    /\ descendants = {}
    /\ current = NoTxid
    /\ vout = 0

(* Plausible bug: a spender visited before is passed over, so that a requested *)
(* transaction is not recognised as a descendant.                              *)
SpendersOf_Unvisited(op) == {t \in view \ visited : op \in Inputs[t]}

(* spends.get(op), then txs.get of the spender *)
SpendersOf(op) == {t \in view : op \in Inputs[t]}

(* Plausible bug: the top of the stack is read and not removed. *)
Pop_Peeks ==
    /\ current = NoTxid
    /\ toVisit # <<>>
    /\ visited' = visited \cup {toVisit[Len(toVisit)]}
    /\ current' = toVisit[Len(toVisit)]
    /\ vout' = 0
    /\ UNCHANGED <<input, descendants, toVisit>>

Pop ==
    /\ current = NoTxid
    /\ toVisit # <<>>
    /\ toVisit' = SubSeq(toVisit, 1, Len(toVisit) - 1)
    /\ LET top == toVisit[Len(toVisit)]
       IN  IF top \in visited
           THEN UNCHANGED <<visited, current, vout>>
           ELSE /\ visited' = visited \cup {top}
                /\ current' = top
                /\ vout' = 0
    /\ UNCHANGED <<input, descendants>>

LookUp ==
    /\ current # NoTxid
    /\ vout < Len(Outputs[current])
    /\ LET children == SpendersOf([txid |-> current, vout |-> vout])
       IN  \/ /\ children = {}
              /\ UNCHANGED <<descendants, toVisit>>
           \/ \E child \in children :
                /\ descendants' = descendants \cup {child}
                /\ toVisit' = Append(toVisit, child)
    /\ vout' = vout + 1
    /\ UNCHANGED <<input, visited, current>>

(* Plausible bug: the last output is not looked up. *)
EndOutputs_OneEarly ==
    /\ current # NoTxid
    /\ vout + 1 >= Len(Outputs[current])
    /\ current' = NoTxid
    /\ UNCHANGED <<input, toVisit, visited, descendants, vout>>

EndOutputs ==
    /\ current # NoTxid
    /\ vout = Len(Outputs[current])
    /\ current' = NoTxid
    /\ UNCHANGED <<input, toVisit, visited, descendants, vout>>

Next == Pop \/ LookUp \/ EndOutputs

(* A loop of one thread that nothing blocks: it runs as long as it can. *)
Spec == Init /\ [][Next]_vars /\ WF_vars(Next)

Finished == current = NoTxid /\ toVisit = <<>>

-----------------------------------------------------------------------------

TypeOK ==
    /\ view \subseteq Txid
    /\ requested \subseteq view
    /\ toVisit \in Seq(view)
    /\ visited \subseteq view
    /\ descendants \subseteq view
    /\ current \in visited \cup {NoTxid}
    /\ vout \in Nat

(* Whatever is still to be found is behind the stack or the current outputs. *)
Sound ==
    /\ visited \cup Elems(toVisit) \subseteq requested \cup descendants
    /\ descendants \subseteq Descendants(view, requested)

NothingSkipped ==
    /\ requested \cup descendants \subseteq visited \cup Elems(toVisit)
    /\ \A p \in visited : \A c \in view : \A op \in Inputs[c] :
          /\ op.txid = p
          /\ p = current => op.vout < vout
          => c \in descendants

(***************************************************************************)
(* The invariant of the search: everything found is a descendant, and the  *)
(* children of every visited transaction have been found.                  *)
(***************************************************************************)
SearchInv == TypeOK /\ Sound /\ NothingSkipped

(***************************************************************************)
(* The loop returns the descendants of the requested transactions, all of  *)
(* them and nothing else, whatever the order of the HashMap and the shape  *)
(* of the graph.                                                           *)
(***************************************************************************)
FindsDescendants == Finished => descendants = Descendants(view, requested)

(***************************************************************************)
(* The loop ends although a transaction is pushed once for each output it  *)
(* spends: a visited one is dropped.                                       *)
(***************************************************************************)
Terminates == <>Finished
=============================================================================
