------------------------- MODULE RevocationLog_proofs -------------------------
(***************************************************************************)
(* The revocation log's invariants hold for every set of artifacts and      *)
(* instants and any number of revocations, repeated ones included.         *)
(***************************************************************************)
EXTENDS RevocationLog, TLAPS

LogInv == LogTypeOK /\ HeadNamesHistory /\ EntryPinned /\ NothingForgotten

\* What revoke() writes: the entry, stamped with its place in the history.
LEMMA RevokeWrites ==
    ASSUME NEW a, NEW t, Revoke(a, t)
    PROVE  /\ log'.entries = Put(log.entries, a, [artifactId |-> a, revokedAt |-> t,
                                                  sequence |-> log.seq + 1])
           /\ log'.seq = log.seq + 1
           /\ log'.headHash = Append(log.headHash, [artifactId |-> a, revokedAt |-> t])
  BY DEF Revoke, Recorded, Entered, NewRevocation, ChainHash

\* The empty log names its empty history.
LEMMA LogInitInv == LogInit => LogInv
  BY DEF LogInit, LogInv, LogTypeOK, HeadNamesHistory, EntryPinned, NothingForgotten,
         EmptyLog, EmptyDict, Genesis

\* A revocation, of a new artifact or of one revoked before, keeps table and
\* history together.
LEMMA RevokePreserves ==
    ASSUME LogInv, NEW a \in Revocable, NEW t \in Instants, Revoke(a, t)
    PROVE  LogInv'
<1> DEFINE place == [artifactId |-> a, revokedAt |-> t]
           entry == [artifactId |-> a, revokedAt |-> t, sequence |-> log.seq + 1]
           hist  == log.headHash
<1>1. /\ log'.entries = Put(log.entries, a, entry)
      /\ log'.seq = log.seq + 1
      /\ log'.headHash = Append(hist, place)
  BY RevokeWrites
<1>2. /\ DOMAIN log'.entries = DOMAIN log.entries \cup {a}
      /\ log'.entries[a] = entry
      /\ \A x \in DOMAIN log.entries \ {a} : log'.entries[x] = log.entries[x]
  BY <1>1 DEF Put
<1>3. /\ log.seq \in Nat
      /\ hist \in Seq([artifactId : Revocable, revokedAt : Instants])
      /\ log.seq = Len(hist)
  BY DEF LogInv, LogTypeOK, HeadNamesHistory
<1>4. /\ Len(log'.headHash) = Len(hist) + 1
      /\ \A i \in 1..Len(hist) : log'.headHash[i] = hist[i]
      /\ log'.headHash[Len(hist) + 1] = place
  BY <1>1, <1>3
<1>5. LogTypeOK'
  <2>1. \A x \in DOMAIN log'.entries : log'.entries[x] \in Entry
    BY <1>2, <1>3 DEF LogInv, LogTypeOK, Entry
  <2>2. log'.headHash \in Seq([artifactId : Revocable, revokedAt : Instants])
    BY <1>1, <1>3
  <2> QED
    BY <2>1, <2>2, <1>1, <1>2, <1>3 DEF LogInv, LogTypeOK
<1>6. HeadNamesHistory'
  BY <1>1, <1>3, <1>4 DEF HeadNamesHistory
<1>7. EntryPinned'
  <2> SUFFICES ASSUME NEW x \in DOMAIN log'.entries
               PROVE  /\ log'.entries[x].artifactId = x
                      /\ log'.entries[x].sequence \in 1..Len(log'.headHash)
                      /\ log'.headHash[log'.entries[x].sequence]
                            = [artifactId |-> x, revokedAt |-> log'.entries[x].revokedAt]
                      /\ \A i \in (log'.entries[x].sequence + 1)..Len(log'.headHash) :
                            log'.headHash[i].artifactId # x
    BY DEF EntryPinned
  <2>1. CASE x = a
    BY <2>1, <1>2, <1>3, <1>4
  <2>2. CASE x # a
    <3>1. x \in DOMAIN log.entries /\ log'.entries[x] = log.entries[x]
      BY <2>2, <1>2
    <3>2. /\ log.entries[x].artifactId = x
          /\ log.entries[x].sequence \in 1..Len(hist)
          /\ hist[log.entries[x].sequence]
                = [artifactId |-> x, revokedAt |-> log.entries[x].revokedAt]
          /\ \A i \in (log.entries[x].sequence + 1)..Len(hist) : hist[i].artifactId # x
      BY <3>1 DEF LogInv, EntryPinned
    <3>3. \A i \in (log.entries[x].sequence + 1)..Len(log'.headHash) :
              log'.headHash[i].artifactId # x
      <4> SUFFICES ASSUME NEW i \in (log.entries[x].sequence + 1)..Len(log'.headHash)
                   PROVE  log'.headHash[i].artifactId # x
        OBVIOUS
      <4>1. CASE i = Len(hist) + 1
        BY <4>1, <2>2, <1>4
      <4>2. CASE i # Len(hist) + 1
        <5>1. i \in (log.entries[x].sequence + 1)..Len(hist) /\ i \in 1..Len(hist)
          BY <4>2, <3>2, <1>3, <1>4
        <5> QED
          BY <5>1, <3>2, <1>4
      <4> QED
        BY <4>1, <4>2
    <3> QED
      BY <3>1, <3>2, <3>3, <1>3, <1>4
  <2> QED
    BY <2>1, <2>2
<1>8. NothingForgotten'
  BY <1>2, <1>3, <1>4 DEF LogInv, NothingForgotten
<1> QED
  BY <1>5, <1>6, <1>7, <1>8 DEF LogInv

\* The log's table is the last-writer view of a history whose length a head
\* quotes, for any number of revocations (ledgers.py:132-139).
THEOREM LogInvariant == LogSpec => []LogInv
<1>1. LogInit => LogInv
  BY LogInitInv
<1>2. LogInv /\ [LogNext]_log => LogInv'
  <2> SUFFICES ASSUME LogInv, [LogNext]_log PROVE LogInv'
    OBVIOUS
  <2>1. CASE LogNext
    BY <2>1, RevokePreserves DEF LogNext
  <2>2. CASE UNCHANGED log
    BY <2>2 DEF LogInv, LogTypeOK, HeadNamesHistory, EntryPinned, NothingForgotten
  <2> QED
    BY <2>1, <2>2
<1> QED
  BY <1>1, <1>2, PTL DEF LogSpec

\* revoke() leaves a table of well-formed entries and a history of well-formed
\* places, for any number of revocations.
THEOREM LogTypeCorrect == LogSpec => []LogTypeOK
  BY LogInvariant, PTL DEF LogInv

\* A head's sequence number is the length of the history its hash covers
\* (ledgers.py:132-146), for any number of revocations.
THEOREM HeadsNameHistory == LogSpec => []HeadNamesHistory
  BY LogInvariant, PTL DEF LogInv

\* No revocation in the hashed history is missing from the table.
THEOREM RevocationsAreKept == LogSpec => []NothingForgotten
  BY LogInvariant, PTL DEF LogInv

\* Every entry's sequence is the place of that very revocation in the history
\* a head's sequence number counts: the stale-head test compares like with like.
THEOREM EntriesArePinned == LogSpec => []EntryPinned
  BY LogInvariant, PTL DEF LogInv

\* ledgers.py:120: as long as no artifact is revoked twice, what is revoked as of
\* an instant stays revoked as of it.  The replaced entry of a second revocation
\* is the only way out.
THEOREM RevokedOnceStaysRevoked == ASSUME RevokeOnce PROVE LogSpec => RevokedStaysRevoked
<1>1. [LogNext]_log =>
        [ \A a \in Revocable, t \in Instants :
              IsRevokedAt(log, a, t) => IsRevokedAt(log', a, t) ]_log
  <2> SUFFICES ASSUME NEW b \in Revocable, NEW u \in Instants, Revoke(b, u),
                      NEW a \in Revocable, NEW t \in Instants, IsRevokedAt(log, a, t)
               PROVE  IsRevokedAt(log', a, t)
    BY DEF LogNext
  <2>1. b \notin DOMAIN log.entries /\ a # b
    BY DEF Revoke, IsRevokedAt
  <2>2. \E e : log'.entries = Put(log.entries, b, e)
    BY RevokeWrites
  <2> QED
    BY <2>1, <2>2 DEF Put, IsRevokedAt
<1> QED
  BY <1>1, PTL DEF LogSpec, RevokedStaysRevoked

==============================================================================
