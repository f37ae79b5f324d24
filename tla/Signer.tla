-------------------------------- MODULE Signer --------------------------------
(***************************************************************************)
(* How a Signer finds the private key a psbt asks for (signer.rs): its     *)
(* KeyMap is searched in order, and an extended key with an origin answers *)
(* for the derivations whose written form starts with the origin's.        *)
(* A key is the place in its tree, and a fingerprint the key it is of.     *)
(***************************************************************************)
EXTENDS Naturals, Sequences

CONSTANTS Master,   \* roots of the key trees
          NoOrigin  \* an extended key without an origin

ChildNumber == [index : Nat, hardened : BOOLEAN]
Path == Seq(ChildNumber)
Node == [master : Master, path : Path]
KeySource == [fp : Node, path : Path]

(* KeyMap entries: a single key, or an extended key and where it comes from. *)
(* The keys a multipath key is split into are entries with one key and origin. *)
Entry == [kind : {"single"}, key : Node]
             \cup [kind : {"xprv"}, key : Node, origin : KeySource \cup {NoOrigin}]

Request == [kind : {"bip32"}, source : KeySource] \cup [kind : {"pubkey"}, key : Node]

Below(n, path) == [master |-> n.master, path |-> n.path \o path]

From(path, n) == SubSeq(path, n + 1, Len(path))

-----------------------------------------------------------------------------

(***************************************************************************)
(* The written form of c starts that of d: decimal digits, and an          *)
(* apostrophe at the end of a hardened number.                             *)
(***************************************************************************)
Begins(c, d) ==
    \/ c = d
    \/ /\ ~c.hardened
       /\ \/ c.index = d.index
          \/ c.index > 0 /\ \E n \in 1..9 : d.index \div 10^n = c.index

(* derivation.to_string().starts_with(path.to_string()) *)
StartsWith(derivation, path) ==
    \/ path = <<>>
    \/ /\ Len(path) <= Len(derivation)
       /\ \A n \in 1..Len(path) - 1 : path[n] = derivation[n]
       /\ Begins(path[Len(path)], derivation[Len(path)])

(***************************************************************************)
(* GetKey of an extended key (external): the request starts at the key     *)
(* itself, or at its parent and its own child number.                      *)
(***************************************************************************)
IsChildOf(key, fp, path) ==
    /\ path # <<>>
    /\ key = Below(fp, <<Head(path)>>)

XprivGetKey(key, source) ==
    IF source.fp = key THEN {Below(key, source.path)}
    ELSE IF IsChildOf(key, source.fp, source.path)
         THEN {Below(key, From(source.path, 1))}
         ELSE {}

(* Plausible bug: the fingerprint of the origin is enough. *)
IsFromOrigin_Fingerprint(origin, source) == source.fp = origin.fp

IsFromOrigin(origin, source) ==
    /\ source.fp = origin.fp
    /\ StartsWith(source.path, origin.path)

XprvAnswer(entry, source) ==
    IF XprivGetKey(entry.key, source) # {} THEN XprivGetKey(entry.key, source)
    ELSE IF entry.origin # NoOrigin /\ IsFromOrigin(entry.origin, source)
         THEN {Below(entry.key, From(source.path, Len(entry.origin.path)))}
         ELSE {}

(* What one entry of the KeyMap answers: a set of at most one key *)
Answer(entry, req) ==
    IF entry.kind = "xprv"
    THEN UNION {XprvAnswer(entry, source) : source \in IF req.kind = "bip32" THEN {req.source} ELSE {}}
    ELSE {key \in {entry.key} : req.kind = "pubkey" /\ req.key = key}

(* Signer::get_key: the first entry that answers *)
GetKey(keymap, req) ==
    LET answering == {n \in DOMAIN keymap : Answer(keymap[n], req) # {}}
    IN  UNION {Answer(keymap[n], req) : n \in {m \in answering : \A l \in answering : m <= l}}

(***************************************************************************)
(* What Psbt::sign (external) signs with for a key of the psbt: it asks by *)
(* the key's derivation and, without an answer, by the key itself.         *)
(***************************************************************************)
SignWith(keymap, key, source) ==
    LET byDerivation == GetKey(keymap, [kind |-> "bip32", source |-> source])
    IN  IF byDerivation # {} THEN byDerivation
        ELSE GetKey(keymap, [kind |-> "pubkey", key |-> key])

-----------------------------------------------------------------------------

(* The key source names the key: what the psbt and the origins claim is true *)
Leads(source, key) == Below(source.fp, source.path) = key

TrueOrigins(keymap) ==
    \A n \in DOMAIN keymap :
        keymap[n].kind = "xprv" /\ keymap[n].origin # NoOrigin
            => Leads(keymap[n].origin, keymap[n].key)

(***************************************************************************)
(* Every origin ends in a hardened step, as those of BIP 44 accounts do:   *)
(* the apostrophe makes the written form unambiguous.                      *)
(***************************************************************************)
HardenedOrigins(keymap) ==
    \A n \in DOMAIN keymap :
        LET e == keymap[n]
        IN  e.kind = "xprv" /\ e.origin # NoOrigin /\ e.origin.path # <<>>
                => e.origin.path[Len(e.origin.path)].hardened
=============================================================================
