----------------------------- MODULE AuditBundle -----------------------------
(***************************************************************************)
(* The revocation snapshot of governed/auditor.py: bundle_from_world lists  *)
(* the live log's entries, build_audit_config replays the list through     *)
(* revoke() of an empty log that holds no signing key.                     *)
(***************************************************************************)
EXTENDS RevocationLog

\* A dict lists its keys in the order they were first inserted, which for an
\* artifact revoked twice is the order of its first revocation.
FirstRecorded(artifactId) ==
    CHOOSE i \in 1..Len(log.headHash) :
        /\ log.headHash[i].artifactId = artifactId
        /\ \A j \in 1..(i - 1) : log.headHash[j].artifactId # artifactId

PlaceInDict(artifactId) ==
    Cardinality({b \in DOMAIN log.entries : FirstRecorded(b) <= FirstRecorded(artifactId)})

Revocations ==
    [i \in 1..Cardinality(DOMAIN log.entries) |->
        log.entries[CHOOSE a \in DOMAIN log.entries : PlaceInDict(a) = i]]

\* The auditor's log after its first n calls of revoke().
Replayed[n \in 0..Len(Revocations)] ==
    IF n = 0 THEN EmptyLog ELSE Recorded(Replayed[n - 1], Revocations[n])

AuditLog == Replayed[Len(Revocations)]

-----------------------------------------------------------------------------
\* The auditor's rebuilt log gives every answer verify_chain asks of a log as
\* the live one does: what is revoked as of any instant, and each entry's
\* original sequence, which the quoted heads are compared with (auditor.py:57).
SnapshotAnswersAsLive ==
    /\ \A a \in Revocable, t \in Instants :
          IsRevokedAt(AuditLog, a, t) <=> IsRevokedAt(log, a, t)
    /\ AllEntries(AuditLog) = AllEntries(log)

==============================================================================
