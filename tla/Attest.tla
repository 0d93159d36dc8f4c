------------------------------ MODULE Attest ------------------------------
(***************************************************************************)
(* lua/e2ee_attest.lua: what a TDX evidence document proves about a key.   *)
(*                                                                         *)
(* A quote is reduced to what check_quote looks at:                        *)
(*   tdx       the header is a TDX quote's (version, key type, tee type)   *)
(*   ours      report_data was made from the nonce of THIS verification    *)
(*   key       the public key report_data was made from, or NoKey when it  *)
(*             was made from the nonce alone                               *)
(*   debug     the TD debug attribute                                      *)
(*   measured  MRTD and RTMR0-3 agree with every configured value          *)
(* A document is [entries, failed, other]: its per-instance evidence list, *)
(* failed_instance_ids, and the quotes found anywhere else in it.  NoDoc   *)
(* stands for "no endpoint returned a JSON document".  Documents hold at   *)
(* most MAX_QUOTES quotes, none nested deeper than find_quotes descends.   *)
(***************************************************************************)
EXTENDS Integers, Sequences

CONSTANTS
    Key,                   \* e2e_pubkey strings discovery may hand out
    NoKey,                 \* "no key": the empty string in report_data
    NoDoc,                 \* fetch_evidence returned nil
    Decodable,             \* the keys that are base64
    Sealable,              \* the keys that decode to an ML-KEM-768 public key
    GenuineKey,            \* the keys generated inside a genuine, measured TD
    MODE,                  \* E2EE_ATTEST
    ATTEST_TTL_S,          \* how long a verification is trusted
    ATTEST_FAIL_TTL_S,     \* how long observe mode remembers a failure
    ATTEST_ALLOW_DEBUG_TD  \* E2EE_ATTEST_ALLOW_DEBUG_TD

ASSUME AttestAssumption ==
    /\ NoKey \notin Key
    /\ Sealable \subseteq Decodable
    /\ Decodable \subseteq Key
    /\ GenuineKey \subseteq Key
    /\ MODE \in {"enforce", "observe", "off"}
    /\ ATTEST_TTL_S \in Nat
    /\ ATTEST_FAIL_TTL_S \in Nat
    /\ ATTEST_ALLOW_DEBUG_TD \in BOOLEAN

\* The strings a binding candidate may have hashed with the nonce: the key as
\* it travels, and its decoded form, which is empty when it is not base64.
bound_strings(key) == {key} \cup (IF key \in Decodable THEN {} ELSE {NoKey})

check_quote(q, key) ==
    /\ q.tdx
    /\ q.ours /\ q.key \in bound_strings(key)
    /\ ~q.debug \/ ATTEST_ALLOW_DEBUG_TD
    /\ q.measured

\* Only strings with a TDX header count as quotes.
find_quotes(strings) == {q \in strings : q.tdx}

doc_quotes(doc) ==
    find_quotes(doc.other \cup UNION {doc.entries[i].quotes : i \in DOMAIN doc.entries})

\* The quotes that verify tries: those of the first entry for the instance,
\* of the whole document when that entry has none or when there is no entry,
\* and none when the instance is listed as failed instead.
select_evidence(doc, id) ==
    LET mine  == {i \in DOMAIN doc.entries : doc.entries[i].instance_id = id}
        entry == {i \in mine : \A j \in mine : i <= j}
        found == find_quotes(UNION {doc.entries[i].quotes : i \in entry})
    IN  IF mine # {}
        THEN IF found # {} THEN found ELSE doc_quotes(doc)
        ELSE IF id \in doc.failed THEN {} ELSE doc_quotes(doc)

\* Does the document that answers a verification's nonce vouch for the key?
verify(doc, id, key) ==
    /\ doc # NoDoc
    /\ \E q \in select_evidence(doc, id) : check_quote(q, key)

\* seal: build_e2ee_request refuses a key of the wrong length or encoding.
can_seal(key) == key \in Sealable
===========================================================================
