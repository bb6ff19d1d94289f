-------------------------- MODULE AuditBundle_proofs --------------------------
(***************************************************************************)
(* The auditor's rebuilt log answers as the live one after any number of    *)
(* revocations.  The replay is recursive; facts about all of its steps are  *)
(* proved from a smallest step that would fail them.                       *)
(***************************************************************************)
EXTENDS AuditBundle, RevocationLog_proofs, FiniteSetTheorems

-----------------------------------------------------------------------------
(* Numbers.                                                                *)

\* A set of numbers has a smallest one.
LEMMA SmallestOf ==
    ASSUME NEW S \in SUBSET Nat, S # {}
    PROVE  \E m \in S : \A x \in S : m <= x
<1>1. PICK m \in S : \A x \in S : <<x, m>> \notin OpToRel(<, Nat)
  BY NatLessThanWellFounded, WFMin
<1>2. \A x \in S : ~(x < m)
  BY <1>1 DEF OpToRel
<1> QED
  BY <1>2

-----------------------------------------------------------------------------
(* The bundle's list.                                                      *)

\* An entry is where its sequence says.
LEMMA EntryPlace ==
    ASSUME LogInv, NEW a \in DOMAIN log.entries
    PROVE  /\ log.entries[a].artifactId = a
           /\ log.entries[a].sequence \in 1..Len(log.headHash)
           /\ log.headHash[log.entries[a].sequence].artifactId = a
           /\ log.entries[a] \in Entry
<1>1. /\ log.entries[a].artifactId = a
      /\ log.entries[a].sequence \in 1..Len(log.headHash)
      /\ log.headHash[log.entries[a].sequence]
            = [artifactId |-> a, revokedAt |-> log.entries[a].revokedAt]
  BY DEF LogInv, EntryPinned
<1> QED
  BY <1>1 DEF LogInv, LogTypeOK

\* The log's table is finite, although nothing bounds its artifacts.
LEMMA EntriesFinite == ASSUME LogInv PROVE IsFiniteSet(DOMAIN log.entries)
<1> DEFINE n == Len(log.headHash)
           f == [i \in 1..n |-> log.headHash[i].artifactId]
           S == {log.headHash[i].artifactId : i \in 1..n}
<1>1. n \in Nat
  BY DEF LogInv, LogTypeOK, HeadNamesHistory
<1>2. f \in Surjection(1..n, S)
  BY DEF Surjection
<1>3. IsFiniteSet(S)
  <2> HIDE DEF f, S
  <2>1. IsFiniteSet(1..n)
    BY <1>1, FS_Interval
  <2> QED
    BY <1>2, <2>1, FS_Surjection
<1>4. \A a \in DOMAIN log.entries : \E i \in 1..n : log.headHash[i].artifactId = a
  BY EntryPlace
<1>5. DOMAIN log.entries \subseteq S
  BY <1>4
<1> QED
  BY <1>3, <1>5, FS_Subset

\* Every artifact of the table has a first place in the hashed history, and no
\* two have the same.
LEMMA FirstRecordedPlace ==
    ASSUME LogInv, NEW a \in DOMAIN log.entries
    PROVE  /\ FirstRecorded(a) \in 1..Len(log.headHash)
           /\ log.headHash[FirstRecorded(a)].artifactId = a
<1> DEFINE n == Len(log.headHash)
           at == {i \in 1..n : log.headHash[i].artifactId = a}
<1>1. n \in Nat
  BY DEF LogInv, LogTypeOK, HeadNamesHistory
<1>2. log.entries[a].sequence \in at
  BY EntryPlace
<1>3. at \subseteq Nat
  BY <1>1
<1>4. PICK m \in at : \A x \in at : m <= x
  BY <1>2, <1>3, SmallestOf
<1>5. \A j \in 1..(m - 1) : log.headHash[j].artifactId # a
  <2> SUFFICES ASSUME NEW j \in 1..(m - 1), log.headHash[j].artifactId = a PROVE FALSE
    OBVIOUS
  <2>1. j \in at
    BY <1>1, <1>4
  <2> QED
    BY <2>1, <1>1, <1>4
<1> QED
  BY <1>4, <1>5 DEF FirstRecorded

\* Places in the dict number its artifacts from one.
LEMMA PlacesNumberArtifacts ==
    ASSUME LogInv
    PROVE  LET D == DOMAIN log.entries
           IN  /\ Cardinality(D) \in Nat
               /\ \A i \in 1..Cardinality(D) : \E a \in D : PlaceInDict(a) = i
               /\ \A a \in D : PlaceInDict(a) \in 1..Cardinality(D)
               /\ \A a, b \in D : PlaceInDict(a) = PlaceInDict(b) => a = b
<1> DEFINE D == DOMAIN log.entries
           n == Cardinality(D)
           upTo(a) == {b \in D : FirstRecorded(b) <= FirstRecorded(a)}
           place == [a \in D |-> PlaceInDict(a)]
<1>1. IsFiniteSet(D) /\ n \in Nat
  BY EntriesFinite, FS_CardinalityType
<1>2. Len(log.headHash) \in Nat
  BY DEF LogInv, LogTypeOK, HeadNamesHistory
<1>3. \A a \in D : /\ FirstRecorded(a) \in Int
                   /\ log.headHash[FirstRecorded(a)].artifactId = a
  BY <1>2, FirstRecordedPlace
<1>4. ASSUME NEW a \in D
      PROVE  /\ IsFiniteSet(upTo(a)) /\ PlaceInDict(a) = Cardinality(upTo(a))
             /\ PlaceInDict(a) \in 1..n
  <2>1. upTo(a) \subseteq D /\ a \in upTo(a)
    BY <1>3
  <2>2. PlaceInDict(a) = Cardinality(upTo(a))
    BY DEF PlaceInDict
  <2> HIDE DEF upTo
  <2>3. /\ IsFiniteSet(upTo(a)) /\ Cardinality(upTo(a)) <= n
        /\ Cardinality(upTo(a)) \in Nat
    BY <1>1, <2>1, FS_Subset, FS_CardinalityType
  <2>4. Cardinality(upTo(a)) # 0
    BY <2>1, <2>3, FS_EmptySet
  <2> QED
    BY <1>1, <2>2, <2>3, <2>4
<1>5. ASSUME NEW a \in D, NEW b \in D, PlaceInDict(a) = PlaceInDict(b)
      PROVE  a = b
  <2>1. upTo(a) \subseteq upTo(b) \/ upTo(b) \subseteq upTo(a)
    BY <1>3
  <2>2. upTo(a) = upTo(b)
    <3> HIDE DEF upTo
    <3> QED
      BY <1>4, <1>5, <2>1, FS_Subset
  <2>3. a \in upTo(b) /\ b \in upTo(a)
    BY <1>3, <2>2
  <2>4. FirstRecorded(a) = FirstRecorded(b)
    BY <1>3, <2>3
  <2> QED
    BY <1>3, <2>4
<1>6. place \in Injection(D, 1..n)
  BY <1>4, <1>5 DEF Injection, IsInjective
<1>7. IsFiniteSet(1..n) /\ Cardinality(1..n) = n
  BY <1>1, FS_Interval
<1>8. place \in Surjection(D, 1..n)
  BY <1>6, <1>7, FS_Injection
<1> QED
  BY <1>1, <1>4, <1>5, <1>8 DEF Surjection

\* The bundle lists every entry, and each under its own artifact.
LEMMA BundleListsEntries ==
    ASSUME LogInv
    PROVE  /\ Len(Revocations) \in Nat
           /\ \A i \in 1..Len(Revocations) :
                 /\ Revocations[i].artifactId \in DOMAIN log.entries
                 /\ Revocations[i] = log.entries[Revocations[i].artifactId]
           /\ \A a \in DOMAIN log.entries : \E i \in 1..Len(Revocations) :
                 Revocations[i].artifactId = a
<1> DEFINE D == DOMAIN log.entries
           n == Cardinality(D)
           listed(i) == CHOOSE a \in D : PlaceInDict(a) = i
<1>1. /\ n \in Nat
      /\ \A i \in 1..n : \E a \in D : PlaceInDict(a) = i
      /\ \A a \in D : PlaceInDict(a) \in 1..n
      /\ \A a, b \in D : PlaceInDict(a) = PlaceInDict(b) => a = b
  BY PlacesNumberArtifacts
<1>2. Revocations = [i \in 1..n |-> log.entries[listed(i)]]
  BY DEF Revocations
<1>3. Len(Revocations) = n
  BY <1>1, <1>2
<1>4. \A i \in 1..n : listed(i) \in D /\ PlaceInDict(listed(i)) = i
  BY <1>1
<1>5. \A a \in D : log.entries[a].artifactId = a
  BY EntryPlace
<1>6. \A i \in 1..n : Revocations[i].artifactId = listed(i)
                      /\ Revocations[i] = log.entries[listed(i)]
  BY <1>2, <1>4, <1>5
<1>7. \A a \in D : \E i \in 1..n : listed(i) = a
  <2> SUFFICES ASSUME NEW a \in D PROVE listed(PlaceInDict(a)) = a
    BY <1>1
  <2> QED
    BY <1>1, <1>4
<1> HIDE DEF n, listed
<1>8. \A i \in 1..n : /\ Revocations[i].artifactId \in D
                      /\ Revocations[i] = log.entries[Revocations[i].artifactId]
  BY <1>4, <1>6
<1>9. \A a \in D : \E i \in 1..n : Revocations[i].artifactId = a
  BY <1>6, <1>7
<1> QED
  BY <1>1, <1>3, <1>8, <1>9

-----------------------------------------------------------------------------
(* The replay.                                                             *)

\* The recursion is defined at each of its steps.
LEMMA ReplaySteps ==
    ASSUME Len(Revocations) \in Nat
    PROVE  /\ Replayed[0] = EmptyLog
           /\ \A n \in 1..Len(Revocations) :
                 Replayed[n] = Recorded(Replayed[n - 1], Revocations[n])
<1> DEFINE L == Len(Revocations)
           step(f, n) == IF n = 0 THEN EmptyLog ELSE Recorded(f[n - 1], Revocations[n])
           Upto(f, k) == f = [n \in 0..k |-> step(f, n)]
           Stuck == {k \in 0..L : \A f : ~Upto(f, k)}
<1>1. Stuck = {}
  <2> SUFFICES ASSUME Stuck # {} PROVE FALSE
    OBVIOUS
  <2>1. Stuck \subseteq Nat
    OBVIOUS
  <2>2. PICK m \in Stuck : \A x \in Stuck : m <= x
    <3> HIDE DEF Stuck
    <3> QED
      BY <2>1, SmallestOf
  <2>3. m \in 0..L
    OBVIOUS
  <2>4. m # 0
    <3>1. Upto([n \in 0..0 |-> EmptyLog], 0)
      OBVIOUS
    <3> QED
      BY <3>1
  <2>5. m - 1 \in 0..L /\ m - 1 \notin Stuck
    BY <2>2, <2>3, <2>4
  <2>6. PICK f : Upto(f, m - 1)
    BY <2>5
  <2> DEFINE g == [n \in 0..m |-> IF n = m THEN step(f, m) ELSE f[n]]
  <2>7. \A n \in 0..(m - 1) : g[n] = f[n] /\ f[n] = step(f, n)
    BY <2>3, <2>6
  <2>8. ASSUME NEW n \in 0..m PROVE g[n] = step(g, n)
    <3>1. n # 0 => g[n - 1] = f[n - 1]
      BY <2>3, <2>7
    <3>2. step(g, n) = step(f, n)
      <4> HIDE DEF g
      <4> QED
        BY <3>1
    <3>3. CASE n = m
      BY <3>2, <3>3
    <3>4. CASE n # m
      <4>1. n \in 0..(m - 1)
        BY <2>3, <3>4
      <4> HIDE DEF step, g
      <4> QED
        BY <2>7, <3>2, <4>1
    <3> QED
      BY <3>3, <3>4
  <2>9. Upto(g, m)
    <3>1. g = [n \in 0..m |-> g[n]]
      OBVIOUS
    <3> HIDE DEF g, step
    <3> QED
      BY <2>8, <3>1
  <2> QED
    BY <2>2, <2>9
<1>2. \E f : Upto(f, L)
  BY <1>1
<1>3. Replayed = CHOOSE f : Upto(f, L)
  BY DEF Replayed
<1>4. Upto(Replayed, L)
  <2> HIDE DEF Upto
  <2> QED
    BY <1>2, <1>3
<1> QED
  BY <1>4

\* After n replayed entries the auditor's table holds exactly these, as they
\* are in the live log.
LEMMA ReplayedEntries ==
    ASSUME LogInv, NEW n \in 0..Len(Revocations)
    PROVE  /\ DOMAIN Replayed[n].entries = {Revocations[i].artifactId : i \in 1..n}
           /\ \A a \in DOMAIN Replayed[n].entries : Replayed[n].entries[a] = log.entries[a]
<1> DEFINE L == Len(Revocations)
           Held(k) == /\ DOMAIN Replayed[k].entries = {Revocations[i].artifactId : i \in 1..k}
                      /\ \A a \in DOMAIN Replayed[k].entries :
                            Replayed[k].entries[a] = log.entries[a]
           Wrong == {k \in 0..L : ~Held(k)}
<1> SUFFICES ASSUME Wrong # {} PROVE FALSE
  OBVIOUS
<1>1. /\ L \in Nat
      /\ \A i \in 1..L : /\ Revocations[i].artifactId \in DOMAIN log.entries
                         /\ Revocations[i] = log.entries[Revocations[i].artifactId]
  BY BundleListsEntries
<1>2. PICK m \in Wrong : \A x \in Wrong : m <= x
  <2>1. Wrong \subseteq Nat
    OBVIOUS
  <2> HIDE DEF Wrong
  <2> QED
    BY <2>1, SmallestOf
<1>3. m \in 0..L /\ ~Held(m)
  OBVIOUS
<1>4. m # 0
  <2>1. DOMAIN Replayed[0].entries = {}
    BY <1>1, ReplaySteps DEF EmptyLog, EmptyDict
  <2>2. Held(0)
    BY <2>1
  <2> QED
    BY <1>3, <2>2
<1>5. m \in 1..L /\ m - 1 \in 0..L /\ m - 1 \notin Wrong
  BY <1>2, <1>3, <1>4
<1>6. Held(m - 1)
  BY <1>5
<1> DEFINE e == Revocations[m]
           a == e.artifactId
           before == Replayed[m - 1]
<1>7. e = log.entries[a] /\ a \in DOMAIN log.entries
  BY <1>1, <1>5
<1>8. e \in Entry /\ e.sequence # None
  <2>1. e \in Entry
    BY <1>7, EntryPlace
  <2> QED
    BY <2>1, RevocationAssumption DEF Entry
<1>9. Replayed[m].entries = Put(before.entries, a, e)
  <2>1. Replayed[m] = Recorded(before, e)
    BY <1>1, <1>5, ReplaySteps
  <2>2. [e EXCEPT !.sequence = e.sequence] = e
    BY <1>8 DEF Entry
  <2> HIDE DEF e, before
  <2> QED
    BY <1>8, <2>1, <2>2 DEF Recorded, Entered, a
<1>10. /\ DOMAIN Replayed[m].entries = DOMAIN before.entries \cup {a}
       /\ \A x \in DOMAIN Replayed[m].entries :
             Replayed[m].entries[x] = IF x = a THEN e ELSE before.entries[x]
  <2> HIDE DEF before, a, e
  <2> QED
    BY <1>9 DEF Put
<1>11. {Revocations[i].artifactId : i \in 1..m}
          = {Revocations[i].artifactId : i \in 1..(m - 1)} \cup {a}
  <2>1. 1..m = 1..(m - 1) \cup {m}
    BY <1>1, <1>5
  <2> QED
    BY <2>1
<1> QED
  BY <1>3, <1>6, <1>7, <1>10, <1>11

\* The whole replay gives back the table.
LEMMA ReplayRestoresTable ==
    ASSUME LogInv
    PROVE  /\ DOMAIN AuditLog.entries = DOMAIN log.entries
           /\ \A a \in DOMAIN log.entries : AuditLog.entries[a] = log.entries[a]
<1> DEFINE L == Len(Revocations)
           table == Replayed[L].entries
<1>1. /\ L \in Nat
      /\ \A i \in 1..L : Revocations[i].artifactId \in DOMAIN log.entries
      /\ \A a \in DOMAIN log.entries : \E i \in 1..L : Revocations[i].artifactId = a
  BY BundleListsEntries
<1>2. /\ DOMAIN table = {Revocations[i].artifactId : i \in 1..L}
      /\ \A a \in DOMAIN table : table[a] = log.entries[a]
  BY <1>1, ReplayedEntries
<1>3. DOMAIN table = DOMAIN log.entries
  <2> HIDE DEF table
  <2> QED
    BY <1>1, <1>2
<1> QED
  BY <1>2, <1>3 DEF AuditLog

\* auditor.py:53-58: the log the auditor rebuilds from a bundle answers as the
\* live log does, whatever was revoked, how often and in which order.
THEOREM SnapshotsAnswerAsLive == LogSpec => []SnapshotAnswersAsLive
<1>1. LogInv => SnapshotAnswersAsLive
  BY ReplayRestoresTable DEF SnapshotAnswersAsLive, IsRevokedAt, AllEntries
<1> QED
  BY <1>1, LogInvariant, PTL

==============================================================================
