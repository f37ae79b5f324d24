---------------------------- MODULE MCCreatePsbt ----------------------------
(***************************************************************************)
(* Two inputs out of plans with every combination of an absolute and a     *)
(* relative lock that the wallet's descriptors can ask for, a coinbase     *)
(* output and foreign psbt inputs.  Tips 3 and 4; blocks are 1.5 time      *)
(* units apart.                                                            *)
(***************************************************************************)
EXTENDS InputGroup

CONSTANT none

MCMTP == [h \in 0 .. 9 |-> (3 * h) \div 2]

Time(n) == [unit |-> "time", value |-> n]

Plan(abs, rel, h, w) ==
    [kind |-> "plan", absolute |-> abs, relative |-> rel, sequence |-> none, height |-> h,
     prev_mtp_known |-> TRUE, coinbase |-> FALSE, witness |-> w, has_tx |-> TRUE]

Foreign(abs, seq, h) ==
    [Plan(abs, none, h, "v1") EXCEPT !.kind = "psbt", !.sequence = seq]

MCCandidates ==
    {Plan(none, none, h, w) : h \in 0 .. 3, w \in {"v0", "v1"}}
    \cup {Plan(Blocks(n), none, 2, "v1") : n \in {3, 4, 5}}
    \cup {Plan(Time(n), none, 2, "v0") : n \in {4, 5}}
    \cup {Plan(none, Blocks(n), 2, "v1") : n \in {2, 3}}
    \cup {Plan(none, Time(1), h, "v0") : h \in {0, 2, 3}}
    \cup {Plan(Blocks(4), Time(2), 2, "v0"), Plan(Time(3), Blocks(3), 2, "v1")}
    \cup {[Plan(none, Time(1), 1, "v0") EXCEPT !.prev_mtp_known = FALSE],
          [Plan(none, none, 1, "v1") EXCEPT !.coinbase = TRUE],
          [Plan(none, none, 2, "v1") EXCEPT !.coinbase = TRUE],
          [Plan(none, none, 1, "v0") EXCEPT !.has_tx = FALSE],
          Foreign(none, SeqMax, 1), Foreign(none, Blocks(3), 2), Foreign(Blocks(2), SeqDefault, 1)}

MCOverrides == {SeqMax, SeqDefault, Blocks(3), Time(1)}

MCMinLocktimes == {Blocks(0), Blocks(4), Time(4)}

(* A plan locked absolutely and relatively in one unit. *)
MCTwiceLocked == {Plan(Blocks(3), Blocks(3), 2, "v0"), Plan(none, none, 1, "v1"),
                  Plan(Time(3), Time(3), 2, "v1")}

MCFuture == {Plan(none, none, h, "v1") : h \in 1 .. 3}
            \cup {Plan(Blocks(n), none, 2, "v0") : n \in {3, 4, 5}}
=============================================================================
