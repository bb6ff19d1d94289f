------------------------------- MODULE Ledgers -------------------------------
(***************************************************************************)
(* The ledgers of pfc/ledgers.py as values and the operations on them: what *)
(* each method answers and the ledger it leaves behind.  A Python dict is a *)
(* function whose domain is the set of its keys.                           *)
(***************************************************************************)
EXTENDS Integers, Sequences, FiniteSets

CONSTANT None           \* Python's None

(* Operators named Mut... are faulty variants of the operator they precede. *)
(* No specification uses them: each shows that a property can fail.         *)

MutPutAlone(d, k, v) == [x \in {k} |-> v]

\* A dict after d[k] = v.
Put(d, k, v) == [x \in DOMAIN d \cup {k} |-> IF x = k THEN v ELSE d[x]]

EmptyDict == [x \in {} |-> None]

(* ------------------------------ KeyRegistry ----------------------------- *)

\* Why the key does not answer for timestamp t; "ACTIVE" when it does.
KeyStatusAt(keys, keyId, t) ==
    IF keyId \notin DOMAIN keys THEN "UNKNOWN_KEY"
    ELSE IF keys[keyId].registeredAt > t THEN "KEY_NOT_YET_ACTIVE"
    ELSE IF keys[keyId].expiresAt <= t THEN "KEY_EXPIRED"
    ELSE IF keys[keyId].revokedAt # None /\ keys[keyId].revokedAt <= t THEN "KEY_REVOKED"
    ELSE "ACTIVE"

(* ----------------------------- RevocationLog ---------------------------- *)

\* The head hash is a SHA-256 chain over (previous hash, artifactId,
\* revokedAt).  A collision-free chain identifies the sequence it digests.
Genesis == <<>>
MutUnchainedHash(hash, artifactId, revokedAt) ==
    <<[artifactId |-> artifactId, revokedAt |-> revokedAt]>>
ChainHash(hash, artifactId, revokedAt) ==
    Append(hash, [artifactId |-> artifactId, revokedAt |-> revokedAt])

EmptyLog == [entries |-> EmptyDict, seq |-> 0, headHash |-> Genesis]

Entered(log, entry, sequence, seq) ==
    [entries  |-> Put(log.entries, entry.artifactId, [entry EXCEPT !.sequence = sequence]),
     seq      |-> seq,
     headHash |-> ChainHash(log.headHash, entry.artifactId, entry.revokedAt)]

MutRecordedUnstamped(log, entry) == Entered(log, entry, entry.sequence, log.seq + 1)
MutRecordedStampedEarly(log, entry) == Entered(log, entry, log.seq, log.seq + 1)
MutRecordedRenumbered(log, entry) == Entered(log, entry, log.seq + 1, log.seq + 1)
MutRecordedCountsArtifacts(log, entry) ==
    Entered(log, entry, log.seq + 1,
            IF entry.artifactId \in DOMAIN log.entries THEN log.seq ELSE log.seq + 1)

\* The log after revoke(entry).  An entry that already carries a sequence
\* (one replayed from an audit bundle) keeps it; an earlier entry of the same
\* artifact is replaced.
Recorded(log, entry) ==
    Entered(log, entry,
            IF entry.sequence = None THEN log.seq + 1 ELSE entry.sequence, log.seq + 1)

NewRevocation(artifactId, revokedAt) ==
    [artifactId |-> artifactId, revokedAt |-> revokedAt, sequence |-> None]

AllEntries(log) == {log.entries[a] : a \in DOMAIN log.entries}

IsRevokedAt(log, artifactId, asOf) ==
    /\ artifactId \in DOMAIN log.entries
    /\ log.entries[artifactId].revokedAt <= asOf

\* head(captured_at): the authority's signed view.  The caller supplies the
\* instant the head is stamped with.
LedgerHead(log, capturedAt, keyId) ==
    [sequenceNumber |-> log.seq, headHash |-> log.headHash, capturedAt |-> capturedAt,
     keyId |-> keyId, signedBy |-> keyId]

(* ------------------------- UsageLedger, NonceLog ------------------------- *)

MutUsageAllowed(count, maxUses) == maxUses = None \/ count <= maxUses

\* The check of UsageLedger.record on the receipt's count.
UsageAllowed(count, maxUses) == maxUses = None \/ count + 1 <= maxUses

\* The check of NonceLog.record.
NonceIsNew(seen, nonce) == nonce \notin seen

==============================================================================
