----------------------------- MODULE TrustTable -----------------------------
(***************************************************************************)
(* bootloader_trust.c: the table of public keys at a fixed place of the    *)
(* bootloader, decoded once, and what the host tool that makes the table   *)
(* (tools/image_trust.py) says it means.                                   *)
(***************************************************************************)
EXTENDS Naturals, Sequences, SequencesExt

CONSTANTS
    Keys,       \* public keys
    MaxKeys     \* TRUST_MAX_KEYS

TrustAssumption == MaxKeys \in Nat \ {0}

VARIABLES
    table,          \* what the flash holds
    active_keys,    \* the keys decoded from it, the current one first
    active_loaded

tvars == <<table, active_keys, active_loaded>>

\* An entry: a key, whether the id is the one of the key, its flags, its zero bytes.
Flags == {"current", "next", "revoked", "unknown"}
Entries == [key : Keys, named : BOOLEAN, flags : SUBSET Flags, zeros : BOOLEAN]

\* plain: the magic, the schema and the flags of the table are the known ones;
\* whole: all of it is there and its CRC-32 fits.
Tables == [plain : BOOLEAN, whole : BOOLEAN, entries : BoundedSeq(Entries, MaxKeys)]
          \cup [plain : {TRUE}, whole : {TRUE}, entries : {[i \in 1 .. MaxKeys + 1 |-> e] : e \in Entries}]

\* hydra_trust_dev.h and hydra_trust_release.h hold one; the flash may be damaged.
Init == table \in Tables /\ active_keys = <<>> /\ active_loaded = FALSE

-----------------------------------------------------------------------------
StatesOfAKey == {{"current"}, {"next"}, {"revoked"}}

\* trust_entry_ok.
EntryOk(e) == e.flags \in StatesOfAKey /\ e.zeros /\ e.named

Kept(e) == "revoked" \notin e.flags
Current(e) == "current" \in e.flags

\* Two passes over the entries: the current key, then the next one.
Order(entries) == SelectSeq(entries, Current) \o SelectSeq(entries, LAMBDA e : ~Current(e))

\* Trust_Parse: no keys for a closed table and for any doubt.
Parse(t) ==
    IF t.plain /\ t.whole /\ Len(t.entries) <= MaxKeys /\ \A i \in DOMAIN t.entries : EntryOk(t.entries[i])
    THEN LET kept == Order(SelectSeq(t.entries, Kept)) IN [i \in DOMAIN kept |-> kept[i].key]
    ELSE <<>>

\* Trust_Active: the table is decoded at the first question, and never again.
Active ==
    /\ active_keys' = IF active_loaded THEN active_keys ELSE Parse(table)
    /\ active_loaded' = TRUE
    /\ UNCHANGED table

Spec == Init /\ [][Active]_tvars
-----------------------------------------------------------------------------
\* What the host makes and reads back: parse_table refuses a key listed twice and two
\* current keys, and a table without a key.
HostReads(t) ==
    /\ t.plain /\ t.whole /\ Len(t.entries) \in 1 .. MaxKeys
    /\ \A i, j \in DOMAIN t.entries :
        /\ t.entries[i].flags \in StatesOfAKey /\ t.entries[i].zeros /\ t.entries[i].named
        /\ i # j => t.entries[i].key # t.entries[j].key /\ {t.entries[i].flags, t.entries[j].flags} # {{"current"}}

\* A bootloader trusts exactly the keys of its table that are not revoked, the current one
\* first, and of a table with any doubt none that the host would not have named
\* (Trust_Parse, image_trust.py trusted_keys).
TrustsWhatTheHostMeans ==
    active_loaded =>
       /\ HostReads(table) =>
            /\ ToSet(active_keys) = {e.key : e \in {x \in ToSet(table.entries) : "revoked" \notin x.flags}}
            /\ \A e \in ToSet(table.entries) : "current" \in e.flags => Head(active_keys) = e.key
       /\ \A i \in DOMAIN active_keys : \E e \in ToSet(table.entries) : e.key = active_keys[i] /\ e.named
=============================================================================
