------------------------------- MODULE Verifier -------------------------------
(***************************************************************************)
(* pfc/verifier.py: the issuance-time decision of the mediator              *)
(* (evaluate_authorization) and the auditor's replay of the stored chain    *)
(* (verify_chain).  Errors are sets of codes; the empty set is a pass.      *)
(*                                                                         *)
(* An artifact is a record; artifact.signedBy is the id of the key whose   *)
(* signature verifies over it as it stands (None if there is none).        *)
(***************************************************************************)
EXTENDS AttestedClock

CONSTANTS Keys,                     \* the KeyRegistry: key id -> KeyRecord
          ClockSkewToleranceMs,
          ActionRisk,               \* the signed policy: action -> risk class
          AttestationThreshold,     \* 0 switches attestation off
          MaxAttestationWindowMs,
          MaxAttestationRadiusMs

ASSUME VerifierAssumption ==
    /\ AttestationThreshold \in Nat
    /\ MaxAttestationRadiusMs \in Int \cup {None}

GOVERNANCE_OWNER == "governance-layer"
REVOCATION_SERVICE_OWNER == "revocation-service"

VerifySignature(keyId, artifact) == keyId \in DOMAIN Keys /\ artifact.signedBy = keyId

OwnedBy(keyId, owner) == keyId \in DOMAIN Keys /\ Keys[keyId].owner = owner

CheckKey(keyId, expectedOwner, atTime, revokedCode, expiredCode) ==
    LET status == KeyStatusAt(Keys, keyId, atTime)
    IN  When(status # "UNKNOWN_KEY" /\ ~OwnedBy(keyId, expectedOwner), "KEY_OWNER_MISMATCH")
        \cup When(status = "KEY_REVOKED", revokedCode)
        \cup When(status = "KEY_EXPIRED", expiredCode)
        \cup When(status \in {"KEY_NOT_YET_ACTIVE", "UNKNOWN_KEY"}, status)

RiskOf(action) == IF action \in DOMAIN ActionRisk THEN ActionRisk[action] ELSE None

PolicyHash(har, tok) ==
    HashArtifact([permittedActions  |-> tok.permittedActions,
                  permittedTargets  |-> tok.permittedTargets,
                  actionRiskClasses |-> [a \in tok.permittedActions |-> RiskOf(a)],
                  skew              |-> ClockSkewToleranceMs,
                  rootReceiptId     |-> har.receiptId,
                  tokenId           |-> tok.tokenId])

-----------------------------------------------------------------------------
(* evaluate_authorization, without the ledgers it consumes on a pass.      *)

UpstreamErrors(har, tok, storedRootHash) ==
    When(~VerifySignature(har.issuerKeyId, har), "INVALID_SIGNATURE")
    \cup When(~VerifySignature(tok.issuerKeyId, tok), "INVALID_SIGNATURE")
    \cup CheckKey(har.issuerKeyId, GOVERNANCE_OWNER, har.issuedAt,
                  "ISSUER_KEY_REVOKED", "ISSUER_KEY_EXPIRED")
    \cup CheckKey(tok.issuerKeyId, tok.issuerAgent, tok.issuedAt,
                  "ISSUER_KEY_REVOKED", "ISSUER_KEY_EXPIRED")
    \cup CheckKey(tok.delegateeKeyId, tok.delegateeAgent, tok.issuedAt,
                  "DELEGATEE_KEY_REVOKED", "DELEGATEE_KEY_EXPIRED")
    \cup When(tok.issuerAgent # har.authorizedAgent, "AGENT_MISMATCH")
    \cup When(storedRootHash = None, "ROOT_RECEIPT_NOT_FOUND")
    \cup When(storedRootHash # None /\ tok.parentReceiptHash # storedRootHash,
              "PARENT_HASH_MISMATCH")

ScopeErrors(har, tok, request) ==
    When(~ (/\ tok.permittedActions \subseteq har.permittedActions
            /\ tok.permittedTargets \subseteq har.permittedTargets), "SCOPE_EXCEEDS_PARENT")
    \cup When(request.action \notin tok.permittedActions, "ACTION_NOT_PERMITTED")
    \cup When(request.target \notin tok.permittedTargets, "TARGET_NOT_PERMITTED")

ExpiryErrors(har, tok, verifiedAt) ==
    When(MsBetween(verifiedAt, har.expiresAt) > ClockSkewToleranceMs, "ROOT_RECEIPT_EXPIRED")
    \cup When(MsBetween(verifiedAt, tok.expiresAt) > ClockSkewToleranceMs, "TOKEN_EXPIRED")

MutRevocationErrors(log, har, tok, asOf) ==
    When(IsRevokedAt(log, tok.tokenId, asOf), "TOKEN_REVOKED")

MutRevocationErrorsInMs(log, har, tok, asOf) ==
    When(\E e \in AllEntries(log) :
            e.artifactId = har.receiptId /\ MsBetween(asOf, e.revokedAt) >= 0,
         "ROOT_RECEIPT_REVOKED")
    \cup When(IsRevokedAt(log, tok.tokenId, asOf), "TOKEN_REVOKED")

RevocationErrors(log, har, tok, asOf) ==
    When(IsRevokedAt(log, har.receiptId, asOf), "ROOT_RECEIPT_REVOKED")
    \cup When(IsRevokedAt(log, tok.tokenId, asOf), "TOKEN_REVOKED")

FreshnessErrors(tok, head, verifiedAt, maxAgeMs) ==
    When(\/ maxAgeMs > tok.maxAgeMs
         \/ MsBetween(verifiedAt, head.capturedAt) > maxAgeMs, "FRESHNESS_VIOLATION")

AuthorizationErrors(log, har, tok, storedRootHash, request, head, verifiedAt, maxAgeMs, asOf) ==
    UpstreamErrors(har, tok, storedRootHash)
    \cup ScopeErrors(har, tok, request)
    \cup ExpiryErrors(har, tok, verifiedAt)
    \cup RevocationErrors(log, har, tok, asOf)
    \cup FreshnessErrors(tok, head, verifiedAt, maxAgeMs)

\* SINGLE_USE receipts count as one use whatever maxUses says.
MaxUses(har) == IF har.usagePolicy = "MULTI_USE" THEN har.maxUses ELSE 1

-----------------------------------------------------------------------------
(* verify_chain: b is the boundary receipt, r the result receipt or None.   *)

\* chainIntact: cryptography and structure only.
IntactErrors(har, tok, b, r) ==
    When(~ (/\ VerifySignature(har.issuerKeyId, har)
            /\ VerifySignature(tok.issuerKeyId, tok)
            /\ VerifySignature(b.executingAgentKeyId, b)), "INVALID_SIGNATURE")
    \cup When(~ (/\ OwnedBy(har.issuerKeyId, GOVERNANCE_OWNER)
                 /\ OwnedBy(b.executingAgentKeyId, b.executingAgent)), "KEY_OWNER_MISMATCH")
    \cup When(\/ b.rootReceiptHash # HashArtifact(har)
              \/ b.tokenHash # HashArtifact(tok), "PARENT_HASH_MISMATCH")
    \cup When(b.rootReceiptId # tok.parentReceiptId, "CHAIN_INTEGRITY_VIOLATION")
    \cup When(b.executingAgent # tok.delegateeAgent, "AGENT_MISMATCH")
    \cup When(b.policyHash # PolicyHash(har, tok), "POLICY_NOT_FOUND")
    \cup When(\/ (b.status = "PRE_EFFECT") # (b.verdict = "PASS")
              \/ (b.status = "BLOCKED") # (b.verdict = "FAIL"), "MALFORMED_ARTIFACT")
    \cup IF r = None THEN {}
         ELSE When(~VerifySignature(r.executingAgentKeyId, r), "INVALID_SIGNATURE")
              \cup When(r.boundaryReceiptHash # HashArtifact(b), "PARENT_HASH_MISMATCH")
              \cup When(r.observedRequest # b.request, "OBSERVED_REQUEST_MISMATCH")

HeadErrors(b, lastSequence) ==
    When(\/ ~ (/\ OwnedBy(b.ledgerHead.keyId, REVOCATION_SERVICE_OWNER)
               /\ VerifySignature(b.ledgerHead.keyId, b.ledgerHead))
         \/ MsBetween(b.verifiedAt, b.ledgerHead.capturedAt) > b.maxAgeMs
         \/ b.ledgerHead.sequenceNumber < lastSequence, "FRESHNESS_VIOLATION")

\* The chain whose effective instant must be attested: the risk is the signed
\* policy's, never the one the boundary states.
NeedsAttestation(b, r) ==
    /\ AttestationThreshold > 0
    /\ RiskOf(b.request.action) = "HIGH"
    /\ b.status = "PRE_EFFECT"
    /\ r # None

ProofErrors(proof, expectedNonce) ==
    VerifyTimeProof(Keys, AttestationThreshold, MaxAttestationRadiusMs, proof, expectedNonce)

UpperProofErrors(r) ==
    IF r.timeProof = None THEN {"ATTESTATION_MISSING"}
    ELSE ProofErrors(r.timeProof, ResultProofNonce(r))

\* Without an upper-bound proof the lower one is not looked at.
LowerProofErrors(b, r) ==
    IF r.timeProof = None \/ b.lowerBoundProof = None THEN {}
    ELSE ProofErrors(b.lowerBoundProof, b.nonce)

\* t_lb <= verifiedAt <= completedAt <= t_ub, and t_ub - t_lb within the cap.
SandwichErrors(b, r) ==
    LET tLb == TLower(b.lowerBoundProof)
        tUb == TUpper(r.timeProof)
        cap == IF b.maxAttestationWindowMs # None THEN b.maxAttestationWindowMs
               ELSE MaxAttestationWindowMs
    IN  When(cap # None /\ MsBetween(tUb, tLb) > cap, "ATTESTATION_WINDOW_EXCEEDED")
        \cup When(~ (/\ MsBetween(b.verifiedAt, tLb) >= 0
                     /\ MsBetween(r.completedAt, b.verifiedAt) >= 0
                     /\ MsBetween(tUb, r.completedAt) >= 0), "ATTESTATION_INTERVAL_INCONSISTENT")

AttestationErrors(b, r) ==
    IF ~NeedsAttestation(b, r) THEN {}
    ELSE When(r.effectRef = None, "ATTESTATION_MISSING")
         \cup UpperProofErrors(r)
         \cup LowerProofErrors(b, r)
         \cup IF /\ b.lowerBoundProof # None
                 /\ UpperProofErrors(r) = {}
                 /\ LowerProofErrors(b, r) = {}
              THEN SandwichErrors(b, r) ELSE {}

\* The instant revocation is evaluated at: the attested upper bound, else the
\* completion (or verification) the receipts state.
EffectiveInstant(b, r) ==
    IF NeedsAttestation(b, r) /\ UpperProofErrors(r) = {} THEN TUpper(r.timeProof)
    ELSE IF r # None THEN r.completedAt ELSE b.verifiedAt

MutStaleHeadErrors(log, head, instant) ==
    When(\E e \in AllEntries(log) : head.sequenceNumber < e.sequence,
         "STALE_HEAD_VS_KNOWN_REVOCATION")

\* For every revocation, of any artifact, effective by the instant, the head
\* must have been captured at or after it and count it.
StaleHeadErrors(log, head, instant) ==
    When(\E e \in AllEntries(log) :
            /\ MsBetween(instant, e.revokedAt) >= 0
            /\ \/ MsBetween(head.capturedAt, e.revokedAt) < 0
               \/ head.sequenceNumber < e.sequence, "STALE_HEAD_VS_KNOWN_REVOCATION")

MutRecomputedErrors(log, har, tok, b, r) ==
    AuthorizationErrors(log, har, tok, HashArtifact(har), b.request, b.ledgerHead,
                        b.verifiedAt, b.maxAgeMs, EffectiveInstant(b, r))
        \ {"ROOT_RECEIPT_EXPIRED", "TOKEN_EXPIRED"}

\* The decision the ledgers imply, replayed without consuming any of them.
RecomputedErrors(log, har, tok, b, r) ==
    AuthorizationErrors(log, har, tok, HashArtifact(har), b.request, b.ledgerHead,
                        b.verifiedAt, b.maxAgeMs, EffectiveInstant(b, r))

StatusErrors(log, har, tok, b, r) ==
    LET implied == IF RecomputedErrors(log, har, tok, b, r) = {} THEN "PRE_EFFECT" ELSE "BLOCKED"
    IN  When(implied # b.status, "CHAIN_INTEGRITY_VIOLATION")

ResultErrors(b, r) ==
    IF r = None THEN {}
    ELSE When(b.status = "BLOCKED", "RESULT_FOR_BLOCKED_BOUNDARY")
         \cup When(b.status \notin {"BLOCKED", "PRE_EFFECT"}, "RESULT_WITHOUT_VALID_BOUNDARY")
         \cup When(MsBetween(r.completedAt, b.issuedAt) < 0, "TIMING_VIOLATION")

AuthErrors(log, har, tok, b, r, lastSequence) ==
    HeadErrors(b, lastSequence)
    \cup AttestationErrors(b, r)
    \cup StaleHeadErrors(log, b.ledgerHead, EffectiveInstant(b, r))
    \cup RecomputedErrors(log, har, tok, b, r)
    \cup StatusErrors(log, har, tok, b, r)
    \cup ResultErrors(b, r)

ChainIntact(har, tok, b, r) == IntactErrors(har, tok, b, r) = {}

AuthorizedAtExecution(log, har, tok, b, r, lastSequence) ==
    /\ ChainIntact(har, tok, b, r)
    /\ AuthErrors(log, har, tok, b, r, lastSequence) = {}
    /\ b.status = "PRE_EFFECT"

AuthorityLiveNow(log, har, tok, now) ==
    /\ ~IsRevokedAt(log, har.receiptId, now)
    /\ ~IsRevokedAt(log, tok.tokenId, now)

==============================================================================
