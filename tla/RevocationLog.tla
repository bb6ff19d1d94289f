---------------------------- MODULE RevocationLog ----------------------------
(***************************************************************************)
(* The revocation service: the live RevocationLog of pfc/ledgers.py and the *)
(* calls to revoke() that reach it.  A revocation may be recorded before   *)
(* it takes effect, at that instant, or after it (revokedAt is data).      *)
(***************************************************************************)
EXTENDS Ledgers

CONSTANTS Revocable,        \* ids of the artifacts that may be revoked
          Instants,         \* instants a timestamp may name
          MaxRevocations,   \* bound on revoke() calls
          RevokeOnce        \* TRUE: an artifact is revoked at most once

ASSUME RevocationAssumption ==
    /\ Instants \subseteq Int
    /\ MaxRevocations \in Nat
    /\ RevokeOnce \in BOOLEAN
    /\ None \notin Int

VARIABLE log

LogInit == log = EmptyLog

Revoke(artifactId, revokedAt) ==
    /\ log.seq < MaxRevocations
    /\ RevokeOnce => artifactId \notin DOMAIN log.entries
    /\ log' = Recorded(log, NewRevocation(artifactId, revokedAt))

LogNext == \E a \in Revocable, t \in Instants : Revoke(a, t)

LogSpec == LogInit /\ [][LogNext]_log

-----------------------------------------------------------------------------
Entry == [artifactId : Revocable, revokedAt : Instants, sequence : Nat \ {0}]

LogTypeOK ==
    /\ DOMAIN log.entries \subseteq Revocable
    /\ \A a \in DOMAIN log.entries : log.entries[a] \in Entry
    /\ log.seq \in Nat
    /\ log.headHash \in Seq([artifactId : Revocable, revokedAt : Instants])

\* A head quotes (sequenceNumber, headHash): the sequence number is the length
\* of the hashed history, so two heads of one number are the same head and a
\* regression of the number is a rollback of the history.
HeadNamesHistory == log.seq = Len(log.headHash)

\* An entry's sequence is the place in the hashed history where that very
\* revocation was recorded, and no later place records the same artifact.  So
\* "head.sequenceNumber < entry.sequence", the auditor's stale-head test, says
\* exactly that the head was captured before the revocation was recorded.
EntryPinned ==
    \A a \in DOMAIN log.entries :
        LET e == log.entries[a] IN
        /\ e.artifactId = a
        /\ e.sequence \in 1..Len(log.headHash)
        /\ log.headHash[e.sequence] = [artifactId |-> a, revokedAt |-> e.revokedAt]
        /\ \A i \in (e.sequence + 1)..Len(log.headHash) : log.headHash[i].artifactId # a

\* Nothing recorded is dropped from the table: every artifact of the hashed
\* history has an entry.
NothingForgotten ==
    \A i \in 1..Len(log.headHash) : log.headHash[i].artifactId \in DOMAIN log.entries

\* ledgers.py:120 calls the log append-only: an artifact revoked as of an
\* instant stays revoked as of that instant.
RevokedStaysRevoked ==
    [][ \A a \in Revocable, t \in Instants :
            IsRevokedAt(log, a, t) => IsRevokedAt(log', a, t) ]_log

==============================================================================
