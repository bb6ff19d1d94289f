-------------------------- MODULE Enforcement_proofs --------------------------
(***************************************************************************)
(* What the mediator enforces for every set of calls: the grant's limit on *)
(* uses, and the revocation that lands on the next request.                *)
(***************************************************************************)
EXTENDS Audit_proofs, FiniteSetTheorems

-----------------------------------------------------------------------------
(* The limit on uses.                                                      *)

Passed == {c \in Calls : Nonce(c) \in nonces /\ work[c].errors = {}}

\* Before its evaluation a call's nonce has not been seen.
NonceFresh(c) == pc[c] \in {"idle", "capture", "evaluate"} => Nonce(c) \notin nonces

UsesCounted ==
    /\ IsFiniteSet(Passed)
    /\ used = Cardinality(Passed)
    /\ MaxUses(HumanAuth) # None => used <= MaxUses(HumanAuth)

UsageInv == TypeOK /\ UsesCounted /\ \A c \in Calls : NonceFresh(c)

\* No use is recorded when the world is built.
LEMMA UsageInit == Init => UsageInv
<1> SUFFICES ASSUME Init PROVE UsageInv
  OBVIOUS
<1>1. Passed = {} /\ used = 0 /\ nonces = {}
  BY DEF Init, Passed
<1> QED
  BY <1>1, TypeInit, FS_EmptySet, MediatorAssumption DEF UsageInv, UsesCounted, NonceFresh

\* A step that leaves nonces, uses and verdicts alone keeps the invariant.
LEMMA UsageFrame ==
    ASSUME UsageInv, TypeOK', UNCHANGED <<nonces, used>>,
           \A d \in Calls : work'[d].errors = work[d].errors,
           \A d \in Calls : pc'[d] \in {"idle", "capture", "evaluate"}
                            => pc[d] \in {"idle", "capture", "evaluate"}
    PROVE  UsageInv'
<1>1. Passed' = Passed
  BY DEF Passed, Nonce
<1> QED
  BY <1>1 DEF UsageInv, UsesCounted, NonceFresh, Nonce

\* The evaluation consumes the call's nonce, and a use exactly when it passes.
LEMMA EvaluateCounts ==
    ASSUME UsageInv, TypeOK', NEW c \in Calls, Evaluate(c)
    PROVE  UsageInv'
<1>1. /\ TypeOK /\ UsesCounted /\ NonceFresh(c)
      /\ pc \in [Calls -> PcValues] /\ DOMAIN work = Calls /\ DOMAIN work[c] = DOMAIN NoWork
  BY DEF UsageInv, TypeOK
<1>2. /\ pc[c] = "evaluate" /\ pc'[c] = "issue"
      /\ nonces' \in {nonces, nonces \cup {Nonce(c)}}
  BY <1>1 DEF Evaluate, Step
<1>3. Nonce(c) \notin nonces
  BY <1>1, <1>2 DEF NonceFresh
<1>4. /\ nonces' \in {nonces, nonces \cup {Nonce(c)}}
      /\ IF work'[c].errors = {}
         THEN /\ nonces' = nonces \cup {Nonce(c)}
              /\ UsageAllowed(used, MaxUses(HumanAuth))
              /\ used' = used + 1
         ELSE used' = used
  <2> DEFINE denied == AuthorizationErrors(log, HumanAuth, Token, HashArtifact(HumanAuth),
                           ConnectorCall(c), work[c].head, work[c].verifiedAt,
                           FreshnessBound[Row(c).risk], work[c].verifiedAt)
             replay == When(denied = {} /\ ~NonceIsNew(nonces, Nonce(c)), "NONCE_ALREADY_SEEN")
             spent  == When(denied \cup replay = {} /\ ~UsageAllowed(used, MaxUses(HumanAuth)),
                            "USAGE_LIMIT_EXCEEDED")
             errs   == denied \cup replay \cup spent
  <2> HIDE DEF denied
  <2>1. /\ work' = [work EXCEPT ![c].errors = errs]
        /\ nonces' = IF denied = {} THEN nonces \cup {Nonce(c)} ELSE nonces
        /\ used' = IF errs = {} THEN used + 1 ELSE used
    BY DEF Evaluate, denied
  <2>2. work'[c].errors = errs
    BY <2>1, <1>1 DEF NoWork
  <2>3. errs = {} => denied = {} /\ UsageAllowed(used, MaxUses(HumanAuth))
    BY DEF When
  <2> QED
    BY <2>1, <2>2, <2>3
<1>5. \A d \in Calls \ {c} : /\ Nonce(d) \in nonces' <=> Nonce(d) \in nonces
                             /\ work'[d].errors = work[d].errors
                             /\ pc'[d] = pc[d]
  BY <1>1, <1>2, OthersUntouched DEF Continue, Nonce
<1>6. c \notin Passed
  BY <1>3 DEF Passed
<1>7. UsesCounted'
  <2>1. CASE work'[c].errors = {}
    <3>1. Passed' = Passed \cup {c}
      BY <2>1, <1>4, <1>5 DEF Passed, Nonce
    <3>2. IsFiniteSet(Passed') /\ Cardinality(Passed') = Cardinality(Passed) + 1
      BY <3>1, <1>1, <1>6, FS_AddElement DEF UsesCounted
    <3> QED
      BY <2>1, <3>2, <1>1, <1>4, MediatorAssumption DEF UsesCounted, UsageAllowed
  <2>2. CASE work'[c].errors # {}
    <3>1. Passed' = Passed
      BY <2>2, <1>3, <1>5 DEF Passed, Nonce
    <3> QED
      BY <2>2, <3>1, <1>1, <1>4 DEF UsesCounted
  <2> QED
    BY <2>1, <2>2
<1>8. \A d \in Calls : NonceFresh(d)'
  BY <1>2, <1>5 DEF UsageInv, NonceFresh, Nonce
<1> QED
  BY <1>7, <1>8 DEF UsageInv

\* Only an evaluation counts uses, and it counts them right.
LEMMA UsageNext == UsageInv /\ [Next]_vars => UsageInv'
<1> SUFFICES ASSUME UsageInv, [Next]_vars PROVE UsageInv'
  OBVIOUS
<1>1. TypeOK /\ TypeOK'
  BY TypeNext DEF UsageInv
<1>2. CASE \E c \in Calls : Begin(c) \/ Continue(c)
  <2>1. PICK c \in Calls : Begin(c) \/ Continue(c)
    BY <1>2
  <2>2. CASE Evaluate(c)
    BY <2>2, <1>1, EvaluateCounts
  <2>3. CASE ~Evaluate(c)
    <3>1. /\ pc \in [Calls -> PcValues] /\ DOMAIN work = Calls /\ DOMAIN work[c] = DOMAIN NoWork
      BY <1>1 DEF TypeOK
    <3>2. /\ UNCHANGED <<nonces, used>>
          /\ work'[c].errors = work[c].errors
          /\ pc'[c] \in {"idle", "capture", "evaluate"} => pc[c] \in {"idle", "capture", "evaluate"}
      BY <2>1, <2>3, <3>1 DEF Begin, Continue, Bypass, ReadClock, CaptureHead, Issue, Execute,
                              Complete, Record, Step, NoWork
    <3>3. \A d \in Calls \ {c} : work'[d] = work[d] /\ pc'[d] = pc[d]
      BY <1>1, <2>1, OthersUntouched
    <3> QED
      BY <1>1, <3>2, <3>3, UsageFrame
  <2> QED
    BY <2>2, <2>3
<1>3. CASE RecordRevocation \/ Tick \/ UNCHANGED vars
  BY <1>3, <1>1, UsageFrame DEF RecordRevocation, Tick, vars
<1> QED
  BY <1>2, <1>3 DEF Next

\* The uses recorded are exactly the passed evaluations and never exceed the
\* grant (ledgers.py:180-187), for any number of overlapping calls.
THEOREM UsesStayWithinGrant == Spec => []UsageWithinGrant
<1>1. UsageInv => UsageWithinGrant
  BY DEF UsageInv, UsesCounted, Passed, UsageWithinGrant
<1> QED
  BY <1>1, UsageInit, UsageNext, PTL DEF Spec

-----------------------------------------------------------------------------
(* The revocation lands on the next request.                               *)

\* A call begun under revoked authority is denied at its evaluation: what was
\* revoked when it read its clock is revoked as of that reading.
Doomed(c) ==
    /\ effectAt[c] = None
    /\ pc[c] \in {"capture", "evaluate", "issue", "returned"}
    /\ pc[c] \in {"capture", "evaluate"}
         => ~AuthorityLiveNow(log, HumanAuth, Token, work[c].verifiedAt)
    /\ pc[c] = "issue" => work[c].errors # {}

LateInv == AuditInv /\ \A c \in late : Doomed(c)

\* A mediator whose clock has no error reads true time.
LEMMA RightClock ==
    ASSUME ClockErrorMs = 0, now \in Instants, NEW t \in ClockReadings
    PROVE  t = now
  BY RevocationAssumption, UnitsPerMsAssumption DEF ClockReadings, AddMs

\* A reading is behind true time by the clock's error at most.
LEMMA ClockBehind ==
    ASSUME now \in Instants, NEW t \in ClockReadings
    PROVE  /\ t \in Int
           /\ AddMs(now, -ClockErrorMs) \in Int
           /\ AddMs(now, -ClockErrorMs) <= t
<1>1. now \in Int /\ t \in Int /\ now <= t + ClockErrorMs * UnitsPerMs
  BY RevocationAssumption DEF ClockReadings, AddMs
<1>2. ClockErrorMs \in Int /\ UnitsPerMs \in Int
  BY MediatorAssumption, UnitsPerMsAssumption
<1>3. (-ClockErrorMs) * UnitsPerMs = -(ClockErrorMs * UnitsPerMs)
      /\ ClockErrorMs * UnitsPerMs \in Int
  BY <1>2
<1>4. AddMs(now, -ClockErrorMs) = now - ClockErrorMs * UnitsPerMs
  BY <1>1, <1>3 DEF AddMs
<1> QED
  BY <1>1, <1>3, <1>4

\* What is revoked stays so as of any later instant.
LEMMA RevokedLater ==
    ASSUME LogTypeOK, NEW t \in Int, NEW u \in Int, t <= u,
           ~AuthorityLiveNow(log, HumanAuth, Token, t)
    PROVE  ~AuthorityLiveNow(log, HumanAuth, Token, u)
<1>1. \A a \in DOMAIN log.entries : log.entries[a].revokedAt \in Int
  BY RevocationAssumption DEF LogTypeOK, Entry
<1> QED
  BY <1>1 DEF AuthorityLiveNow, IsRevokedAt

\* With one revocation per artifact, what is revoked stays so.
LEMMA RevokedStays ==
    ASSUME RevokeOnce, RecordRevocation, NEW t,
           ~AuthorityLiveNow(log, HumanAuth, Token, t)
    PROVE  ~AuthorityLiveNow(log', HumanAuth, Token, t)
<1>1. PICK a \in Revocable, at \in Instants : Revoke(a, at)
  BY DEF RecordRevocation, LogNext
<1>2. /\ a \notin DOMAIN log.entries
      /\ log'.entries = Put(log.entries, a, [artifactId |-> a, revokedAt |-> at,
                                             sequence |-> log.seq + 1])
  BY <1>1 DEF Revoke, Recorded, Entered, NewRevocation
<1>3. /\ DOMAIN log.entries \subseteq DOMAIN log'.entries
      /\ \A x \in DOMAIN log.entries : log'.entries[x] = log.entries[x]
  BY <1>2 DEF Put
<1> QED
  BY <1>3 DEF AuthorityLiveNow, IsRevokedAt

\* A step of a doomed call leaves it doomed.
LEMMA LateStep ==
    ASSUME LateInv, NEW c \in Calls, Begin(c) \/ Continue(c), c \in late'
    PROVE  Doomed(c)'
<1>1. /\ TypeOK /\ CallInv(c) /\ now \in Instants
      /\ pc \in [Calls -> PcValues] /\ DOMAIN work = Calls /\ DOMAIN work[c] = DOMAIN NoWork
      /\ effectAt \in [Calls -> Instants \cup {None}]
  BY DEF LateInv, AuditInv, TypeOK
<1>2. CASE Bypass(c)
  <2>1. c \in late /\ pc[c] = "idle"
    BY <1>2 DEF Bypass, Step
  <2> QED
    BY <2>1 DEF LateInv, Doomed
<1>3. CASE ReadClock(c)
  <2>1. pc[c] = "idle" /\ pc'[c] = "capture" /\ UNCHANGED <<log, now, effectAt>>
    BY <1>1, <1>3 DEF ReadClock, Step
  <2>2. ~LiveForClock
    BY <1>3, <2>1 DEF ReadClock, LateInv, Doomed
  <2>3. PICK t \in ClockReadings : work' = [work EXCEPT ![c].verifiedAt = t]
    BY <1>3 DEF ReadClock
  <2>4. work'[c].verifiedAt = t
    BY <1>1, <2>3 DEF NoWork
  <2>5. effectAt[c] = None
    BY <1>1, <2>1 DEF CallInv, CallOrdered
  <2>6. ~AuthorityLiveNow(log, HumanAuth, Token, t)
    BY <1>1, <2>2, ClockBehind, RevokedLater DEF LiveForClock, TypeOK
  <2> QED
    BY <2>1, <2>4, <2>5, <2>6 DEF Doomed, AuthorityLiveNow, IsRevokedAt
<1>4. CASE CaptureHead(c)
  <2>1. c \in late /\ Doomed(c)
    BY <1>4 DEF CaptureHead, LateInv
  <2>2. /\ pc[c] = "capture" /\ pc'[c] = "evaluate" /\ UNCHANGED <<log, effectAt>>
        /\ work'[c].verifiedAt = work[c].verifiedAt
    BY <1>1, <1>4 DEF CaptureHead, Step, NoWork
  <2> QED
    BY <2>1, <2>2 DEF Doomed, AuthorityLiveNow, IsRevokedAt
<1>5. CASE Evaluate(c)
  <2> DEFINE denied == AuthorizationErrors(log, HumanAuth, Token, HashArtifact(HumanAuth),
                           ConnectorCall(c), work[c].head, work[c].verifiedAt,
                           FreshnessBound[Row(c).risk], work[c].verifiedAt)
  <2>1. c \in late /\ Doomed(c)
    BY <1>5 DEF Evaluate, LateInv
  <2>2. pc[c] = "evaluate" /\ pc'[c] = "issue" /\ UNCHANGED effectAt
    BY <1>1, <1>5 DEF Evaluate, Step
  <2>3. RevocationErrors(log, HumanAuth, Token, work[c].verifiedAt) # {}
    BY <2>1, <2>2 DEF Doomed, AuthorityLiveNow, RevocationErrors, When
  <2>4. denied # {}
    BY <2>3 DEF AuthorizationErrors
  <2>5. \E more : work' = [work EXCEPT ![c].errors = denied \cup more]
    <3> HIDE DEF denied
    <3> QED
      BY <1>5 DEF Evaluate, denied
  <2>6. work'[c].errors # {}
    <3> HIDE DEF denied
    <3> QED
      BY <1>1, <2>4, <2>5 DEF NoWork
  <2> QED
    BY <2>1, <2>2, <2>6 DEF Doomed
<1>6. CASE Issue(c)
  <2>1. c \in late /\ Doomed(c)
    BY <1>6 DEF Issue, LateInv
  <2>2. pc[c] = "issue" /\ UNCHANGED effectAt
    BY <1>6 DEF Issue, Step
  <2>3. pc'[c] = "returned"
    BY <1>1, <1>6, <2>1, <2>2 DEF Issue, Step, Status, Doomed
  <2> QED
    BY <2>1, <2>2, <2>3 DEF Doomed
<1>7. CASE Execute(c) \/ Complete(c) \/ Record(c)
  <2>1. c \in late /\ pc[c] \in {"execute", "complete", "record"}
    BY <1>7 DEF Execute, Complete, Record, Step
  <2> QED
    BY <2>1 DEF LateInv, Doomed
<1> QED
  BY <1>2, <1>3, <1>4, <1>5, <1>6, <1>7 DEF Begin, Continue

\* ... and so does every step of its surroundings, revocations included.
LEMMA LateNext ==
    ASSUME RevokeOnce, LateInv, [Next]_vars
    PROVE  LateInv'
<1>1. AuditInv /\ AuditInv' /\ TypeOK
  BY AuditNext DEF LateInv, AuditInv
<1>2. CASE \E c \in Calls : Begin(c) \/ Continue(c)
  <2>1. PICK c \in Calls : Begin(c) \/ Continue(c)
    BY <1>2
  <2>2. UNCHANGED log /\ late' \subseteq late \cup {c}
    BY <2>1 DEF Begin, Continue, Bypass, ReadClock, CaptureHead, Evaluate, Issue, Execute,
                Complete, Record
  <2>3. ASSUME NEW d \in late', d # c PROVE Doomed(d)'
    <3>1. d \in late /\ d \in Calls
      BY <2>2, <2>3, <1>1 DEF TypeOK
    <3>2. pc'[d] = pc[d] /\ work'[d] = work[d] /\ effectAt'[d] = effectAt[d]
      BY <1>1, <2>1, <2>3, <3>1, OthersUntouched
    <3> QED
      BY <2>2, <3>1, <3>2 DEF LateInv, Doomed, AuthorityLiveNow, IsRevokedAt
  <2>4. c \in late' => Doomed(c)'
    BY <2>1, LateStep
  <2> QED
    BY <1>1, <2>3, <2>4 DEF LateInv
<1>3. CASE RecordRevocation
  <2>1. UNCHANGED <<pc, work, effectAt, late>>
    BY <1>3 DEF RecordRevocation
  <2>2. ASSUME NEW d \in late PROVE Doomed(d)'
    <3>1. Doomed(d)
      BY <2>2 DEF LateInv
    <3>2. ~AuthorityLiveNow(log, HumanAuth, Token, work[d].verifiedAt)
          => ~AuthorityLiveNow(log', HumanAuth, Token, work[d].verifiedAt)
      BY <1>3, RevokedStays
    <3> QED
      BY <2>1, <3>1, <3>2 DEF Doomed
  <2> QED
    BY <1>1, <2>1, <2>2 DEF LateInv
<1>4. CASE Tick \/ UNCHANGED vars
  BY <1>1, <1>4 DEF Tick, vars, LateInv, Doomed, AuthorityLiveNow, IsRevokedAt
<1> QED
  BY <1>2, <1>3, <1>4 DEF Next

\* mediator.py:15-16: when no artifact is revoked twice, a call begun when the
\* authority has been revoked for longer than the mediator's clock may be behind
\* has no effect; for a right clock, a call begun under revoked authority.
THEOREM RevocationLands ==
    ASSUME RevokeOnce
    PROVE  Spec => []RevocationLandsOnNextCall
<1>1. Init => LateInv
  BY AuditInit DEF Init, LateInv
<1>2. LateInv /\ [Next]_vars => LateInv'
  BY LateNext
<1>3. LateInv => RevocationLandsOnNextCall
  BY DEF LateInv, Doomed, RevocationLandsOnNextCall
<1> QED
  BY <1>1, <1>2, <1>3, PTL DEF Spec

==============================================================================
