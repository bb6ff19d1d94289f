---------------------------- MODULE AttestedClock ----------------------------
(***************************************************************************)
(* The attested clock of pfc/attested_clock.py: a k-of-n quorum of time     *)
(* authorities that stamps its own clock and radius on a caller's nonce,   *)
(* and the auditor's check of such a proof.                                *)
(*                                                                         *)
(* A signature is the pair of the key id it claims and whether it verifies *)
(* over the proof's {nonce, midpoint, radius_ms} under that key.           *)
(***************************************************************************)
EXTENDS ChainTime, Ledgers

TIME_AUTHORITY_OWNER == "time-authority"

\* What a SHA-256/JCS digest keeps of an artifact: all of it, since the chain
\* compares digests only for equality and collisions are out of its model.
HashArtifact(artifact) == [sha256 |-> artifact]

\* The content of an ExecutionResultReceipt that its upper-bound proof binds.
MutRESULT_NONCE_FIELDS == {"receiptId", "outcome", "effectRef", "timeProof"}

RESULT_NONCE_FIELDS ==
    {"receiptId", "boundaryReceiptId", "boundaryReceiptHash", "executingAgent",
     "executingAgentKeyId", "observedRequest", "outcome", "effectRef", "completedAt"}

ResultProofNonce(result) ==
    HashArtifact([f \in DOMAIN result \cap RESULT_NONCE_FIELDS |-> result[f]])

\* prove(nonce): the midpoint is the quorum's own reading of the time.  The
\* authorities signerIds sign it, the corrupt ones among them badly.  prove()
\* asks each authority once, so the list of signatures is a set.
TimeProof(nonce, midpoint, radiusMs, signerIds, corruptIds) ==
    [nonce |-> nonce, midpoint |-> midpoint, radiusMs |-> radiusMs,
     signatures |-> {[keyId |-> k, valid |-> k \notin corruptIds] : k \in signerIds}]

MutTUpper(proof) == proof.midpoint
TUpper(proof) == AddMs(proof.midpoint, proof.radiusMs)

MutTLower(proof) == proof.midpoint
TLower(proof) == AddMs(proof.midpoint, -proof.radiusMs)

\* The set holding code when cond holds: errors are collected, never raised.
When(cond, code) == {c \in {code} : cond}

AuthoritySignatures(keys, proof) ==
    {s \in proof.signatures : /\ s.keyId \in DOMAIN keys
                              /\ keys[s.keyId].owner = TIME_AUTHORITY_OWNER}

MutValidAuthorities(keys, proof) == {s.keyId : s \in AuthoritySignatures(keys, proof)}

ValidAuthorities(keys, proof) ==
    {s.keyId : s \in {x \in AuthoritySignatures(keys, proof) : x.valid}}

VerifyTimeProof(keys, threshold, maxRadiusMs, proof, expectedNonce) ==
    LET quorumMet == Cardinality(ValidAuthorities(keys, proof)) >= threshold
    IN  When(proof.nonce # expectedNonce, "ATTESTATION_NONCE_UNBOUND")
        \cup When(\/ proof.radiusMs < 0
                    \/ (maxRadiusMs # None /\ proof.radiusMs > maxRadiusMs),
                  "ATTESTATION_INTERVAL_INCONSISTENT")
        \cup When(~quorumMet, "ATTESTATION_QUORUM_NOT_MET")
        \cup When(~quorumMet /\ \E s \in AuthoritySignatures(keys, proof) : ~s.valid,
                  "ATTESTATION_INVALID_SIGNATURE")

==============================================================================
