----------------------------- MODULE Gate_proofs -----------------------------
(***************************************************************************)
(* The mediator implements the authority gate for every set of calls and    *)
(* any number of uses: its first state is the gate's, and each of its steps *)
(* is a step of the gate or leaves the gate as it is.  That the gate       *)
(* decides in the end is left to TLC.                                      *)
(***************************************************************************)
EXTENDS Enforcement_proofs, GatedMediator

\* How far a call is with the chain, read off its locals.
Progress(c) ==
    /\ pc[c] = "idle" => work[c].verifiedAt = None
    /\ work[c].verifiedAt = None =>
           pc[c] \in {"idle", "returned", "raised"} /\ Nonce(c) \notin nonces
    /\ (work[c].verifiedAt # None /\ work[c].errors = {})
           => pc[c] \in {"capture", "evaluate"} \/ Nonce(c) \in nonces
    /\ pc[c] \in Cleared => work[c].errors = {}

GateInv == UsageInv /\ LateInv /\ \A c \in Calls : Progress(c)

-----------------------------------------------------------------------------
(* The invariant.                                                          *)

\* A request that passes its evaluation has its nonce consumed.
LEMMA PassedTakesNonce ==
    ASSUME TypeOK, NEW c \in Calls, Evaluate(c), work'[c].errors = {}
    PROVE  Nonce(c) \in nonces'
<1> DEFINE denied == AuthorizationErrors(log, HumanAuth, Token, HashArtifact(HumanAuth),
                         ConnectorCall(c), work[c].head, work[c].verifiedAt,
                         FreshnessBound[Row(c).risk], work[c].verifiedAt)
<1> HIDE DEF denied
<1>1. /\ \E more : work' = [work EXCEPT ![c].errors = denied \cup more]
      /\ nonces' = IF denied = {} THEN nonces \cup {Nonce(c)} ELSE nonces
  BY DEF Evaluate, denied
<1>2. DOMAIN work = Calls /\ DOMAIN work[c] = DOMAIN NoWork
  BY DEF TypeOK
<1>3. denied = {}
  BY <1>1, <1>2 DEF NoWork
<1> QED
  BY <1>1, <1>3

\* ... and it still has a use left.
LEMMA PassedWithinUses ==
    ASSUME TypeOK, NEW c \in Calls, Evaluate(c), work'[c].errors = {}
    PROVE  UsageAllowed(used, MaxUses(HumanAuth))
<1>1. DOMAIN work = Calls /\ DOMAIN work[c] = DOMAIN NoWork
  BY DEF TypeOK
<1>2. \E rest : work' = [work EXCEPT ![c].errors =
            rest \cup When(rest = {} /\ ~UsageAllowed(used, MaxUses(HumanAuth)),
                           "USAGE_LIMIT_EXCEEDED")]
  BY DEF Evaluate
<1> QED
  BY <1>1, <1>2 DEF NoWork, When

\* Every step of handle() keeps the record of how far the call is.
LEMMA ProgressStep ==
    ASSUME GateInv, NEW c \in Calls, Begin(c) \/ Continue(c)
    PROVE  Progress(c)'
<1> USE DEF Cleared
<1>1. /\ TypeOK /\ Progress(c) /\ CallInv(c) /\ NonceFresh(c)
      /\ now \in Instants /\ pc \in [Calls -> PcValues]
      /\ DOMAIN work = Calls /\ DOMAIN work[c] = DOMAIN NoWork
      /\ pc[c] \in Underway => work[c].verifiedAt \in Instants
      /\ \A x \in Instants : x # None
  BY RevocationAssumption DEF GateInv, UsageInv, LateInv, AuditInv, TypeOK
<1>2. CASE Bypass(c)
  BY <1>1, <1>2 DEF Bypass, Step, Progress, Nonce
<1>3. CASE ReadClock(c)
  <2>1. /\ pc[c] = "idle" /\ pc'[c] = "capture" /\ UNCHANGED nonces
        /\ \E t \in Instants : work' = [work EXCEPT ![c].verifiedAt = t]
    BY <1>1, <1>3 DEF ReadClock, Step, ClockReadings
  <2>2. work'[c].verifiedAt # None
    BY <1>1, <2>1 DEF NoWork
  <2> QED
    BY <1>1, <2>1, <2>2 DEF Progress
<1>4. CASE CaptureHead(c)
  <2>1. /\ pc[c] = "capture" /\ pc'[c] = "evaluate"
        /\ work'[c].verifiedAt = work[c].verifiedAt
    BY <1>1, <1>4 DEF CaptureHead, Step, NoWork
  <2> QED
    BY <1>1, <2>1 DEF Progress
<1>5. CASE Evaluate(c)
  <2>1. /\ pc[c] = "evaluate" /\ pc'[c] = "issue"
        /\ \E errs : work' = [work EXCEPT ![c].errors = errs]
    BY <1>1, <1>5 DEF Evaluate, Step
  <2>2. work'[c].verifiedAt = work[c].verifiedAt /\ work[c].verifiedAt # None
    BY <1>1, <2>1 DEF NoWork, Underway
  <2>3. work'[c].errors = {} => Nonce(c) \in nonces'
    BY <1>1, <1>5, PassedTakesNonce
  <2> QED
    BY <2>1, <2>2, <2>3 DEF Progress, Nonce
<1>6. CASE Issue(c)
  <2>1. /\ pc[c] = "issue" /\ pc'[c] \in {"returned", "raised", "execute"}
        /\ pc'[c] = "execute" => work[c].errors = {}
        /\ UNCHANGED <<work, nonces>>
        /\ work[c].verifiedAt # None
    BY <1>1, <1>6 DEF Issue, Step, Status, Underway
  <2> QED
    BY <1>1, <2>1 DEF Progress, Nonce
<1>7. CASE Execute(c) \/ Complete(c) \/ Record(c)
  <2>1. /\ pc[c] \in Cleared /\ pc'[c] \in {"complete", "record", "returned"}
        /\ work'[c].errors = work[c].errors
        /\ work'[c].verifiedAt = work[c].verifiedAt
        /\ work[c].verifiedAt # None
        /\ UNCHANGED nonces
    BY <1>1, <1>7 DEF Execute, Complete, Record, Step, NoWork, Underway
  <2> QED
    BY <1>1, <2>1 DEF Progress, Nonce
<1> QED
  BY <1>2, <1>3, <1>4, <1>5, <1>6, <1>7 DEF Begin, Continue

\* ... and disturbs that of no other call; nor do revocations and time.
LEMMA GateInvNext ==
    ASSUME RevokeOnce, GateInv, [Next]_vars
    PROVE  GateInv'
<1>1. UsageInv' /\ LateInv' /\ TypeOK
  BY UsageNext, LateNext DEF GateInv, UsageInv
<1>2. CASE \E c \in Calls : Begin(c) \/ Continue(c)
  <2>1. PICK c \in Calls : Begin(c) \/ Continue(c)
    BY <1>2
  <2>2. Progress(c)'
    BY <2>1, ProgressStep
  <2>3. nonces' \subseteq nonces \cup {Nonce(c)} /\ nonces \subseteq nonces'
    BY <2>1 DEF Begin, Continue, Bypass, ReadClock, CaptureHead, Evaluate, Issue, Execute,
                Complete, Record
  <2>4. ASSUME NEW d \in Calls, d # c PROVE Progress(d)'
    <3>1. pc'[d] = pc[d] /\ work'[d] = work[d]
      BY <1>1, <2>1, <2>4, OthersUntouched
    <3>2. Nonce(d) \in nonces' <=> Nonce(d) \in nonces
      BY <2>3, <2>4 DEF Nonce
    <3> QED
      BY <3>1, <3>2 DEF GateInv, Progress, Nonce
  <2> QED
    BY <1>1, <2>2, <2>4 DEF GateInv
<1>3. CASE RecordRevocation \/ Tick \/ UNCHANGED vars
  BY <1>1, <1>3 DEF RecordRevocation, Tick, vars, GateInv, Progress, Nonce
<1> QED
  BY <1>2, <1>3 DEF Next

\* No call has begun when the world is built.
LEMMA GateInvInit == Init => GateInv
<1> SUFFICES ASSUME Init PROVE GateInv
  OBVIOUS
<1>1. UsageInv /\ AuditInv
  BY UsageInit, AuditInit
<1> QED
  BY <1>1 DEF Init, GateInv, LateInv, Progress, NoWork, Cleared

-----------------------------------------------------------------------------
(* The refinement.                                                         *)

\* A call's step is invisible in the gate's view of the others.
LEMMA OthersStand ==
    ASSUME GateInv, NEW c \in Calls, Begin(c) \/ Continue(c), NEW d \in Calls, d # c
    PROVE  GateStatus(d)' = GateStatus(d)
<1>1. /\ TypeOK
      /\ pc'[d] = pc[d] /\ work'[d] = work[d] /\ effectAt'[d] = effectAt[d]
  BY OthersUntouched DEF GateInv, UsageInv
<1>2. d \in late' <=> d \in late
  BY DEF Begin, Continue, Bypass, ReadClock, CaptureHead, Evaluate, Issue, Execute,
         Complete, Record
<1> QED
  BY <1>1, <1>2 DEF GateStatus

\* The calls the gate has let through are the passed evaluations.
LEMMA SpentIsPassed ==
    ASSUME GateInv
    PROVE  {c \in Calls : GateStatus(c) \in {"allowed", "acted"}} = Passed
<1> SUFFICES ASSUME NEW c \in Calls
             PROVE  GateStatus(c) \in {"allowed", "acted"}
                        <=> Nonce(c) \in nonces /\ work[c].errors = {}
  BY DEF Passed
<1>1. Progress(c) /\ NonceFresh(c)
  BY DEF GateInv, UsageInv
<1> QED
  BY <1>1 DEF GateStatus, Progress, NonceFresh

\* What each step of handle() is to the gate.
LEMMA GateStatusStep ==
    ASSUME GateInv, NEW c \in Calls, Begin(c) \/ Continue(c)
    PROVE  \/ GateStatus(c)' = GateStatus(c)
           \/ /\ GateStatus(c) = "idle"
              /\ GateStatus(c)' = IF LiveForClock THEN "open" ELSE "doomed"
           \/ GateStatus(c) \in {"open", "doomed"} /\ GateStatus(c)' = "denied"
           \/ /\ GateStatus(c) = "open" /\ GateStatus(c)' = "allowed"
              /\ UsageAllowed(used, MaxUses(HumanAuth))
           \/ GateStatus(c) = "allowed" /\ GateStatus(c)' = "acted"
<1> USE DEF Cleared
<1>1. /\ TypeOK /\ Progress(c) /\ CallInv(c) /\ NonceFresh(c) /\ LateInv
      /\ now \in Instants /\ pc \in [Calls -> PcValues]
      /\ DOMAIN work = Calls /\ DOMAIN work[c] = DOMAIN NoWork
      /\ effectAt \in [Calls -> Instants \cup {None}]
      /\ pc[c] \in Underway => work[c].verifiedAt \in Instants
      /\ \A x \in Instants : x # None
  BY RevocationAssumption DEF GateInv, UsageInv, LateInv, AuditInv, TypeOK
<1>2. CASE Bypass(c)
  <2>1. /\ pc[c] = "idle" /\ UNCHANGED work
    BY <1>2 DEF Bypass, Step
  <2> QED
    BY <1>1, <2>1 DEF GateStatus, Progress
<1>3. CASE ReadClock(c)
  <2>1. /\ pc[c] = "idle" /\ pc'[c] = "capture"
        /\ late' = IF LiveForClock THEN late ELSE late \cup {c}
        /\ \E t \in Instants : work' = [work EXCEPT ![c].verifiedAt = t]
    BY <1>1, <1>3 DEF ReadClock, Step, ClockReadings, LiveForClock
  <2>2. work'[c].verifiedAt # None /\ c \notin late
    BY <1>1, <2>1 DEF NoWork, LateInv, Doomed
  <2> QED
    BY <1>1, <2>1, <2>2 DEF GateStatus, Progress
<1>4. CASE CaptureHead(c)
  <2>1. /\ pc[c] = "capture" /\ pc'[c] = "evaluate" /\ UNCHANGED late
        /\ work'[c].verifiedAt = work[c].verifiedAt
    BY <1>1, <1>4 DEF CaptureHead, Step, NoWork
  <2> QED
    BY <1>1, <2>1 DEF GateStatus
<1>5. CASE Evaluate(c)
  <2>1. /\ pc[c] = "evaluate" /\ pc'[c] = "issue" /\ UNCHANGED <<late, effectAt>>
        /\ \E errs : work' = [work EXCEPT ![c].errors = errs]
    BY <1>1, <1>5 DEF Evaluate, Step
  <2>2. /\ work'[c].verifiedAt = work[c].verifiedAt /\ work[c].verifiedAt # None
        /\ effectAt'[c] = None
    BY <1>1, <2>1 DEF NoWork, Underway, CallInv, CallOrdered
  <2>3. c \in late => work'[c].errors # {}
    BY <1>1, <1>5, <2>1, LateStep DEF Continue, Doomed
  <2>4. work'[c].errors = {} => UsageAllowed(used, MaxUses(HumanAuth))
    BY <1>1, <1>5, PassedWithinUses
  <2> QED
    BY <2>1, <2>2, <2>3, <2>4 DEF GateStatus
<1>6. CASE Issue(c)
  <2>1. /\ pc[c] = "issue" /\ pc'[c] \in {"returned", "raised", "execute"}
        /\ UNCHANGED <<work, effectAt>>
    BY <1>1, <1>6 DEF Issue, Step
  <2> QED
    BY <2>1 DEF GateStatus
<1>7. CASE Execute(c) \/ Complete(c) \/ Record(c)
  <2>1. /\ pc[c] \in Cleared /\ pc'[c] \in {"complete", "record", "returned"}
        /\ work'[c].errors = work[c].errors
        /\ work'[c].verifiedAt = work[c].verifiedAt
        /\ work[c].verifiedAt # None
        /\ effectAt'[c] \in {effectAt[c], now}
        /\ effectAt[c] # None => effectAt'[c] = effectAt[c]
    BY <1>1, <1>7 DEF Execute, Complete, Record, Step, NoWork, Underway, CallInv, CallOrdered
  <2>2. work[c].errors = {}
    BY <1>1, <2>1 DEF Progress
  <2> QED
    BY <1>1, <2>1, <2>2 DEF GateStatus
<1> QED
  BY <1>2, <1>3, <1>4, <1>5, <1>6, <1>7 DEF Begin, Continue

\* Authority that is gone stays gone, with one revocation per artifact.
LEMMA LiveOnlyFalls ==
    ASSUME RevokeOnce, GateInv, RecordRevocation \/ Tick, ~LiveForClock
    PROVE  ~LiveForClock'
<1>1. TypeOK /\ now \in Int
  BY RevocationAssumption DEF GateInv, UsageInv, TypeOK
<1>2. CASE RecordRevocation
  BY <1>2, RevokedStays DEF LiveForClock, RecordRevocation
<1>3. CASE Tick
  <2>1. UNCHANGED log /\ now < now' /\ now' \in Int
    BY <1>3, RevocationAssumption DEF Tick
  <2>2. -ClockErrorMs \in Int
    BY MediatorAssumption
  <2>3. /\ AddMs(now, -ClockErrorMs) \in Int /\ AddMs(now', -ClockErrorMs) \in Int
        /\ AddMs(now, -ClockErrorMs) <= AddMs(now', -ClockErrorMs)
    <3> DEFINE err == (-ClockErrorMs) * UnitsPerMs
    <3>1. err \in Int
      BY <2>2, UnitsPerMsAssumption
    <3> HIDE DEF err
    <3>2. AddMs(now, -ClockErrorMs) = now + err /\ AddMs(now', -ClockErrorMs) = now' + err
      BY DEF AddMs, err
    <3> QED
      BY <1>1, <2>1, <3>1, <3>2
  <2>4. ~AuthorityLiveNow(log, HumanAuth, Token, AddMs(now', -ClockErrorMs))
    BY <1>1, <2>3, RevokedLater DEF LiveForClock, TypeOK
  <2> QED
    BY <2>1, <2>4 DEF LiveForClock, AuthorityLiveNow, IsRevokedAt
<1> QED
  BY <1>2, <1>3

\* Every step of the mediator and its surroundings is the gate's step or none.
LEMMA GateStep ==
    ASSUME RevokeOnce, GateInv, [Next]_vars
    PROVE  [Gate!GateNext]_(Gate!gateVars)
<1> DEFINE status == [c \in Calls |-> GateStatus(c)]
<1>1. CASE \E c \in Calls : Begin(c) \/ Continue(c)
  <2>1. PICK c \in Calls : Begin(c) \/ Continue(c)
    BY <1>1
  <2>2. UNCHANGED <<log, now>>
    BY <2>1 DEF Begin, Continue, Bypass, ReadClock, CaptureHead, Evaluate, Issue, Execute,
                Complete, Record
  <2>3. LiveForClock' = LiveForClock
    BY <2>2 DEF LiveForClock, AuthorityLiveNow, IsRevokedAt
  <2>4. status' = [status EXCEPT ![c] = GateStatus(c)']
    BY <2>1, OthersStand
  <2>5. CASE GateStatus(c)' = GateStatus(c)
    BY <2>3, <2>4, <2>5 DEF Gate!gateVars
  <2>6. CASE /\ GateStatus(c) = "idle"
             /\ GateStatus(c)' = IF LiveForClock THEN "open" ELSE "doomed"
    <3>1. Gate!Open(c)
      BY <2>3, <2>4, <2>6 DEF Gate!Open, Gate!Move, LiveForClock
    <3> QED
      BY <3>1 DEF Gate!GateNext
  <2>7. CASE GateStatus(c) \in {"open", "doomed"} /\ GateStatus(c)' = "denied"
    <3>1. Gate!Deny(c)
      BY <2>3, <2>4, <2>7 DEF Gate!Deny, Gate!Move
    <3> QED
      BY <3>1 DEF Gate!GateNext
  <2>8. CASE /\ GateStatus(c) = "open" /\ GateStatus(c)' = "allowed"
             /\ UsageAllowed(used, MaxUses(HumanAuth))
    <3>1. Gate!Spent = Passed
      BY SpentIsPassed DEF Gate!Spent
    <3>2. MaxUses(HumanAuth) # None => Cardinality(Passed) < MaxUses(HumanAuth)
      BY <2>8, MediatorAssumption DEF UsageAllowed, GateInv, UsageInv, UsesCounted, TypeOK
    <3>3. Gate!Allow(c)
      <4>1. Gate!Cardinality(Passed) = Cardinality(Passed)
        BY DEF Gate!Cardinality, Cardinality
      <4> QED
        BY <2>3, <2>4, <2>8, <3>1, <3>2, <4>1 DEF Gate!Allow, Gate!Move
    <3> QED
      BY <3>3 DEF Gate!GateNext
  <2>9. CASE GateStatus(c) = "allowed" /\ GateStatus(c)' = "acted"
    <3>1. Gate!Act(c)
      BY <2>3, <2>4, <2>9 DEF Gate!Act, Gate!Move
    <3> QED
      BY <3>1 DEF Gate!GateNext
  <2> QED
    BY <2>1, <2>5, <2>6, <2>7, <2>8, <2>9, GateStatusStep
<1>2. CASE RecordRevocation \/ Tick
  <2>1. UNCHANGED <<pc, work, effectAt, late>>
    BY <1>2 DEF RecordRevocation, Tick
  <2>2. status' = status
    BY <2>1 DEF GateStatus
  <2>3. ~LiveForClock => ~LiveForClock'
    BY <1>2, LiveOnlyFalls
  <2>4. CASE LiveForClock = LiveForClock'
    BY <2>2, <2>4 DEF LiveForClock, Gate!gateVars
  <2>5. CASE LiveForClock /\ ~LiveForClock'
    <3>1. Gate!Withdraw
      BY <2>2, <2>5 DEF LiveForClock, Gate!Withdraw
    <3> QED
      BY <3>1 DEF Gate!GateNext
  <2> QED
    BY <2>3, <2>4, <2>5 DEF LiveForClock, AuthorityLiveNow, IsRevokedAt
<1>3. CASE UNCHANGED vars
  BY <1>3 DEF vars, Gate!gateVars, GateStatus, LiveForClock, AuthorityLiveNow, IsRevokedAt
<1> QED
  BY <1>1, <1>2, <1>3 DEF Next

\* The world is built with live authority and idle calls.
LEMMA GateStarts == Init => Gate!GateInit
<1> SUFFICES ASSUME Init PROVE Gate!GateInit
  OBVIOUS
<1>1. LiveForClock = TRUE
  BY DEF Init, LiveForClock, LogInit, EmptyLog, EmptyDict, AuthorityLiveNow, IsRevokedAt
<1>2. \A c \in Calls : GateStatus(c) = "idle"
  BY DEF Init, NoWork, GateStatus
<1> QED
  BY <1>1, <1>2 DEF Gate!GateInit

\* mediator.py:12-16: with no artifact revoked twice, handle() with its three
\* steps of deciding takes no step the gate does not take, whatever the error of
\* its clock, up to which the gate knows when the authority was withdrawn.
THEOREM MediatorIsGate ==
    ASSUME RevokeOnce
    PROVE  Spec => Gate!GateInit /\ [][Gate!GateNext]_(Gate!gateVars)
<1>1. Init => GateInv /\ Gate!GateInit
  BY GateInvInit, GateStarts
<1>2. GateInv /\ [Next]_vars => GateInv'
  BY GateInvNext
<1>3. GateInv /\ [Next]_vars => [Gate!GateNext]_(Gate!gateVars)
  BY GateStep
<1> QED
  BY <1>1, <1>2, <1>3, PTL DEF Spec

==============================================================================
