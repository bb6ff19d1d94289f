----------------------------- MODULE Audit_proofs -----------------------------
(***************************************************************************)
(* What the mediator and its audit guarantee for every set of calls, every  *)
(* request mapping, every pair of upstream artifacts, any clock error and  *)
(* any number of revocations.                                              *)
(***************************************************************************)
EXTENDS Audit, TLAPS

\* A result receipt exists only once handle() has returned, an effect only
\* once the adapter has been called.
CallOrdered(c) ==
    /\ effectAt[c] # None => pc[c] \in {"complete", "record", "returned"}
    /\ result[c] # None => pc[c] = "returned"

\* A call past the verification has a PRE_EFFECT receipt for its own request.
ReceiptIssued(c) ==
    (pc[c] \in Cleared \/ effectAt[c] # None) =>
        /\ boundary[c].status = "PRE_EFFECT"
        /\ boundary[c].request = ConnectorCall(c)

EffectPast(c) == effectAt[c] # None => effectAt[c] <= now

\* An upper-bound proof on record bounds the true time of the effect.
ProofBounds(c) ==
    (effectAt[c] # None /\ result[c] # None /\ result[c].timeProof # None) =>
        /\ TUpper(result[c].timeProof) \in Int
        /\ effectAt[c] <= TUpper(result[c].timeProof)

CallInv(c) == CallOrdered(c) /\ ReceiptIssued(c) /\ EffectPast(c) /\ ProofBounds(c)

AuditInv == TypeOK /\ \A c \in Calls : CallInv(c)

-----------------------------------------------------------------------------
(* Clocks.                                                                 *)

\* The code's millisecond arithmetic stays within the clock's instants.
LEMMA AddMsInt == \A t \in Int, n \in Int : AddMs(t, n) \in Int
  BY UnitsPerMsAssumption DEF AddMs

\* What the quorum reads is within its radius of true time, as its error is.
LEMMA QuorumErrs ==
    /\ RadiusMs * UnitsPerMs \in Int /\ QuorumErrorMs * UnitsPerMs \in Int
    /\ QuorumErrorMs * UnitsPerMs <= RadiusMs * UnitsPerMs
    /\ now \in Instants => \A m \in QuorumReadings :
          /\ m \in Int
          /\ now <= m + QuorumErrorMs * UnitsPerMs
          /\ m <= now + QuorumErrorMs * UnitsPerMs
<1>1. /\ RadiusMs \in Nat /\ QuorumErrorMs \in Nat /\ QuorumErrorMs <= RadiusMs
      /\ UnitsPerMs \in Nat
  BY MediatorAssumption, UnitsPerMsAssumption
<1>2. \A a \in Nat, b \in Nat, u \in Nat : a <= b => a * u <= b * u
  OBVIOUS
<1>3. /\ RadiusMs * UnitsPerMs \in Int /\ QuorumErrorMs * UnitsPerMs \in Int
      /\ QuorumErrorMs * UnitsPerMs <= RadiusMs * UnitsPerMs
  BY <1>1, <1>2
<1>4. (-QuorumErrorMs) * UnitsPerMs = -(QuorumErrorMs * UnitsPerMs)
  BY <1>1
<1>5. QuorumReadings = (now - QuorumErrorMs * UnitsPerMs)..(now + QuorumErrorMs * UnitsPerMs)
      \/ now \notin Instants
  BY <1>3, <1>4, RevocationAssumption DEF QuorumReadings, AddMs
<1> QED
  <2> DEFINE error == QuorumErrorMs * UnitsPerMs
  <2> HIDE DEF error
  <2> SUFFICES ASSUME now \in Instants, NEW m \in QuorumReadings
               PROVE  m \in Int /\ now <= m + error /\ m <= now + error
    BY <1>3 DEF error
  <2>1. now \in Int /\ error \in Int /\ m \in (now - error)..(now + error)
    BY <1>3, <1>5, RevocationAssumption DEF error
  <2> QED
    BY <2>1

\* An honest quorum's proof bounds the instant it was asked for.
LEMMA ProofIsUpperBound ==
    ASSUME now \in Instants, NEW nonce, NEW p \in Proofs(nonce)
    PROVE  TUpper(p) \in Int /\ now <= TUpper(p)
<1>1. PICK m \in QuorumReadings, a \in QuorumAnswers :
          p = TimeProof(nonce, m, RadiusMs, a.signers, a.corrupt)
  BY DEF Proofs
<1>2. TUpper(p) = AddMs(m, RadiusMs)
  BY <1>1 DEF TUpper, TimeProof
<1>3. m \in Int /\ now <= AddMs(m, RadiusMs)
  BY <1>1, QuorumErrs, RevocationAssumption DEF AddMs
<1> QED
  BY <1>2, <1>3, AddMsInt, MediatorAssumption

-----------------------------------------------------------------------------
(* What one call's step does to itself and to the others.                  *)

\* A step of one call is invisible to every other call.
LEMMA OthersUntouched ==
    ASSUME TypeOK, NEW c \in Calls, Begin(c) \/ Continue(c), NEW d \in Calls, d # c
    PROVE  /\ pc'[d] = pc[d] /\ work'[d] = work[d] /\ boundary'[d] = boundary[d]
           /\ result'[d] = result[d] /\ effectAt'[d] = effectAt[d]
<1>1. /\ pc \in [Calls -> PcValues] /\ effectAt \in [Calls -> Instants \cup {None}]
      /\ DOMAIN work = Calls /\ DOMAIN boundary = Calls /\ DOMAIN result = Calls
  BY DEF TypeOK
<1>2. CASE Bypass(c)
  BY <1>1, <1>2 DEF Bypass, Step
<1>3. CASE ReadClock(c)
  BY <1>1, <1>3 DEF ReadClock, Step
<1>4. CASE CaptureHead(c)
  BY <1>1, <1>4 DEF CaptureHead, Step
<1>5. CASE Evaluate(c)
  BY <1>1, <1>5 DEF Evaluate, Step
<1>6. CASE Issue(c)
  BY <1>1, <1>6 DEF Issue, Step
<1>7. CASE Execute(c)
  BY <1>1, <1>7 DEF Execute, Step
<1>8. CASE Complete(c)
  BY <1>1, <1>8 DEF Complete, Step
<1>9. CASE Record(c)
  BY <1>1, <1>9 DEF Record, Step
<1> QED
  BY <1>2, <1>3, <1>4, <1>5, <1>6, <1>7, <1>8, <1>9 DEF Begin, Continue

\* A step that leaves a call's state alone, whatever time does, keeps its part.
LEMMA CallInvFrame ==
    ASSUME AuditInv, NEW d \in Calls, now' \in Instants, now <= now',
           pc'[d] = pc[d], work'[d] = work[d], boundary'[d] = boundary[d],
           result'[d] = result[d], effectAt'[d] = effectAt[d]
    PROVE  CallInv(d)'
<1>1. CallInv(d) /\ effectAt[d] \in Instants \cup {None} /\ now \in Instants
  BY DEF AuditInv, TypeOK
<1> QED
  BY <1>1, RevocationAssumption DEF CallInv, CallOrdered, ReceiptIssued, EffectPast, ProofBounds

-----------------------------------------------------------------------------
(* Type correctness.                                                       *)

\* revoke() writes a well-formed entry.
LEMMA LogStepsTyped ==
    ASSUME LogTypeOK, NEW a \in Revocable, NEW t \in Instants, Revoke(a, t)
    PROVE  LogTypeOK'
  BY DEF LogTypeOK, Revoke, Recorded, Entered, NewRevocation, ChainHash, Put, Entry

\* Every value has its type when the world is built.
LEMMA TypeInit == Init => TypeOK
  BY MediatorAssumption DEF Init, LogInit, EmptyLog, EmptyDict, Genesis, TypeOK, LogTypeOK, PcValues,
     NoWork, Underway, Cleared, Entry

\* The conjuncts of TypeOK about the call that steps, before and after.
LEMMA TypeStep ==
    ASSUME TypeOK, NEW c \in Calls, Begin(c) \/ Continue(c)
    PROVE  TypeOK'
<1> USE DEF Step, PcValues
<1>1. /\ LogTypeOK /\ now \in Instants /\ used \in Nat
      /\ nonces \subseteq {Nonce(d) : d \in Calls}
      /\ contacts \subseteq UNION Crms /\ late \subseteq Calls
      /\ pc \in [Calls -> PcValues] /\ effectAt \in [Calls -> Instants \cup {None}]
      /\ DOMAIN work = Calls /\ DOMAIN boundary = Calls /\ DOMAIN result = Calls
      /\ \A d \in Calls : DOMAIN work[d] = DOMAIN NoWork
  BY DEF TypeOK
<1>2. /\ LogTypeOK' /\ now' \in Instants /\ used' \in Nat
      /\ nonces' \subseteq {Nonce(d) : d \in Calls}
      /\ contacts' \subseteq UNION Crms /\ late' \subseteq Calls
      /\ pc' \in [Calls -> PcValues] /\ effectAt' \in [Calls -> Instants \cup {None}]
      /\ DOMAIN work' = Calls /\ DOMAIN boundary' = Calls /\ DOMAIN result' = Calls
  <2>1. log' = log /\ now' = now
    BY DEF Begin, Continue, Bypass, ReadClock, CaptureHead, Evaluate, Issue, Execute, Complete, Record
  <2>2. LogTypeOK'
    BY <1>1, <2>1 DEF LogTypeOK
  <2>3. CASE Bypass(c)
    BY <1>1, <2>1, <2>2, <2>3 DEF Bypass
  <2>4. CASE ReadClock(c)
    BY <1>1, <2>1, <2>2, <2>4 DEF ReadClock
  <2>5. CASE CaptureHead(c)
    BY <1>1, <2>1, <2>2, <2>5 DEF CaptureHead
  <2>6. CASE Evaluate(c)
    <3>1. used' \in {used, used + 1} /\ nonces' \in {nonces, nonces \cup {Nonce(c)}}
      BY <2>6 DEF Evaluate
    <3>2. /\ pc' = [pc EXCEPT ![c] = "issue"] /\ DOMAIN work' = DOMAIN work
          /\ UNCHANGED <<boundary, result, contacts, effectAt, late>>
      BY <2>6 DEF Evaluate
    <3> QED
      BY <1>1, <2>1, <2>2, <3>1, <3>2
  <2>7. CASE Issue(c)
    <3>1. /\ \E to \in PcValues : pc' = [pc EXCEPT ![c] = to]
          /\ DOMAIN boundary' = DOMAIN boundary
          /\ UNCHANGED <<used, nonces, result, contacts, work, effectAt, late>>
      BY <2>7 DEF Issue
    <3> QED
      BY <1>1, <2>1, <2>2, <3>1
  <2>8. CASE Execute(c)
    BY <1>1, <2>1, <2>2, <2>8 DEF Execute
  <2>9. CASE Complete(c)
    BY <1>1, <2>1, <2>2, <2>9 DEF Complete
  <2>10. CASE Record(c)
    <3>1. DOMAIN result' = DOMAIN result
      BY <2>10 DEF Record
    <3> QED
      BY <1>1, <2>1, <2>2, <2>10, <3>1 DEF Record
  <2> QED
    BY <2>3, <2>4, <2>5, <2>6, <2>7, <2>8, <2>9, <2>10 DEF Begin, Continue
<1> DEFINE LocalsOK(d) ==
              /\ DOMAIN work[d] = DOMAIN NoWork
              /\ work[d].verifiedAt \in Instants \cup {None}
              /\ work[d].completedAt \in Instants \cup {None}
              /\ pc[d] \in Underway => work[d].verifiedAt \in Instants
              /\ pc[d] \in Cleared => boundary[d].receiptId = <<"br", d>>
              /\ pc[d] = "record" => work[d].completedAt \in Instants
<1>3. \A d \in Calls : LocalsOK(d)
  BY DEF TypeOK
<1>4. LocalsOK(c)'
  <2>1. LocalsOK(c) /\ ClockReadings \subseteq Instants
    BY <1>3 DEF ClockReadings
  <2> USE DEF Underway, Cleared, NoWork
  <2>2. CASE Bypass(c)
    BY <1>1, <2>1, <2>2 DEF Bypass
  <2>3. CASE ReadClock(c)
    BY <1>1, <2>1, <2>3 DEF ReadClock
  <2>4. CASE CaptureHead(c)
    BY <1>1, <2>1, <2>4 DEF CaptureHead
  <2>5. CASE Evaluate(c)
    <3>1. /\ pc[c] = "evaluate" /\ pc'[c] = "issue"
          /\ \E errs : work' = [work EXCEPT ![c].errors = errs]
          /\ boundary' = boundary
      BY <1>1, <2>5 DEF Evaluate
    <3> QED
      BY <1>1, <2>1, <3>1
  <2>6. CASE Issue(c)
    <3>1. boundary'[c].receiptId = <<"br", c>>
      BY <1>1, <2>6 DEF Issue, BoundaryReceipt
    <3>2. pc[c] = "issue" /\ pc'[c] \in {"returned", "execute", "raised"} /\ work' = work
      BY <1>1, <2>6 DEF Issue
    <3> QED
      BY <1>1, <2>1, <3>1, <3>2
  <2>7. CASE Execute(c)
    BY <1>1, <2>1, <2>7 DEF Execute
  <2>8. CASE Complete(c)
    BY <1>1, <2>1, <2>8 DEF Complete
  <2>9. CASE Record(c)
    BY <1>1, <2>1, <2>9 DEF Record
  <2> QED
    BY <2>2, <2>3, <2>4, <2>5, <2>6, <2>7, <2>8, <2>9 DEF Begin, Continue
<1>5. \A d \in Calls : LocalsOK(d)'
  BY <1>3, <1>4, OthersUntouched
<1> QED
  BY <1>2, <1>5 DEF TypeOK

\* ... and every step, of a call or of its surroundings, keeps the types.
LEMMA TypeNext == TypeOK /\ [Next]_vars => TypeOK'
<1> SUFFICES ASSUME TypeOK, [Next]_vars PROVE TypeOK'
  OBVIOUS
<1>1. CASE \E c \in Calls : Begin(c) \/ Continue(c)
  BY <1>1, TypeStep
<1>2. CASE RecordRevocation
  <2>1. LogTypeOK'
    BY <1>2, LogStepsTyped DEF RecordRevocation, LogNext, TypeOK
  <2> QED
    BY <2>1, <1>2 DEF RecordRevocation, TypeOK
<1>3. CASE Tick
  BY <1>3 DEF Tick, TypeOK, LogTypeOK
<1>4. CASE UNCHANGED vars
  BY <1>4 DEF vars, TypeOK, LogTypeOK
<1> QED
  BY <1>1, <1>2, <1>3, <1>4 DEF Next

\* Every value has its type, and the locals and receipts that a step of
\* handle() reads exist when it is taken.
THEOREM TypeCorrect == Spec => []TypeOK
  BY TypeInit, TypeNext, PTL DEF Spec

-----------------------------------------------------------------------------
(* The audit's invariant.                                                  *)

\* Nothing has been issued or done when the world is built.
LEMMA AuditInit == Init => AuditInv
  BY TypeInit DEF Init, AuditInv, CallInv, CallOrdered, ReceiptIssued, EffectPast, ProofBounds,
     Cleared

\* Every step of handle() keeps its own call's artifacts in order.
LEMMA CallInvStep ==
    ASSUME AuditInv, NEW c \in Calls, Begin(c) \/ Continue(c)
    PROVE  CallInv(c)'
<1> USE DEF Cleared
<1>1. /\ CallInv(c) /\ TypeOK
      /\ pc \in [Calls -> PcValues] /\ effectAt \in [Calls -> Instants \cup {None}]
      /\ DOMAIN work = Calls /\ DOMAIN boundary = Calls /\ DOMAIN result = Calls
      /\ DOMAIN work[c] = DOMAIN NoWork
      /\ now \in Instants
  BY DEF AuditInv, TypeOK
<1>2. CASE Bypass(c) \/ ReadClock(c) \/ CaptureHead(c)
  <2>1. /\ pc[c] \in {"idle", "capture"}
        /\ pc'[c] \notin Cleared
        /\ UNCHANGED <<boundary, result, effectAt, now>>
    BY <1>1, <1>2 DEF Bypass, ReadClock, CaptureHead, Step
  <2> QED
    BY <1>1, <2>1 DEF CallInv, CallOrdered, ReceiptIssued, EffectPast, ProofBounds
<1>3. CASE Evaluate(c)
  <2>1. pc[c] = "evaluate" /\ pc'[c] = "issue" /\ UNCHANGED <<boundary, result, effectAt, now>>
    BY <1>1, <1>3 DEF Evaluate, Step
  <2> QED
    BY <1>1, <2>1 DEF CallInv, CallOrdered, ReceiptIssued, EffectPast, ProofBounds
<1>4. CASE Issue(c)
  <2>1. /\ pc[c] = "issue" /\ UNCHANGED <<work, result, effectAt, now>>
        /\ pc'[c] = "execute" => Status(c) = "PRE_EFFECT"
        /\ pc'[c] \in {"returned", "execute", "raised"}
    BY <1>1, <1>4 DEF Issue, Step, Status
  <2>2. boundary'[c].status = Status(c) /\ boundary'[c].request = ConnectorCall(c)
    BY <1>1, <1>4 DEF Issue, BoundaryReceipt
  <2>3. effectAt[c] = None /\ result[c] = None
    BY <1>1, <2>1 DEF CallInv, CallOrdered
  <2> QED
    BY <2>1, <2>2, <2>3 DEF CallInv, CallOrdered, ReceiptIssued, EffectPast, ProofBounds
<1>5. CASE Execute(c)
  <2>1. /\ pc[c] = "execute" /\ pc'[c] = "complete" /\ UNCHANGED <<boundary, result, now>>
        /\ effectAt'[c] \in {effectAt[c], now}
    BY <1>1, <1>5 DEF Execute, Step
  <2>2. effectAt[c] = None /\ result[c] = None
    BY <1>1, <2>1 DEF CallInv, CallOrdered
  <2> QED
    BY <1>1, <2>1, <2>2, RevocationAssumption
       DEF CallInv, CallOrdered, ReceiptIssued, EffectPast, ProofBounds
<1>6. CASE Complete(c)
  <2>1. /\ pc[c] = "complete" /\ pc'[c] = "record"
        /\ UNCHANGED <<boundary, result, effectAt, now>>
    BY <1>1, <1>6 DEF Complete, Step
  <2> QED
    BY <1>1, <2>1 DEF CallInv, CallOrdered, ReceiptIssued, EffectPast, ProofBounds
<1>7. CASE Record(c)
  <2>1. pc[c] = "record" /\ pc'[c] = "returned" /\ UNCHANGED <<boundary, effectAt, now>>
    BY <1>1, <1>7 DEF Record, Step
  <2>2. PICK upper : /\ upper = None \/ \E nonce : upper \in Proofs(nonce)
                     /\ result' = [result EXCEPT ![c] = ResultReceipt(c, upper)]
    BY <1>7 DEF Record
  <2>3. result'[c].timeProof = upper
    BY <1>1, <2>2 DEF ResultReceipt
  <2>4. upper # None => TUpper(upper) \in Int /\ now <= TUpper(upper)
    BY <1>1, <2>2, ProofIsUpperBound
  <2>5. effectAt[c] # None => effectAt[c] \in Int /\ now \in Int /\ effectAt[c] <= now
    BY <1>1, RevocationAssumption DEF CallInv, EffectPast
  <2>6. ProofBounds(c)'
    BY <2>1, <2>3, <2>4, <2>5 DEF ProofBounds
  <2> QED
    BY <1>1, <2>1, <2>6 DEF CallInv, CallOrdered, ReceiptIssued, EffectPast
<1> QED
  BY <1>2, <1>3, <1>4, <1>5, <1>6, <1>7 DEF Begin, Continue

\* ... and disturbs no other call's; nor do revocations and time.
LEMMA AuditNext == AuditInv /\ [Next]_vars => AuditInv'
<1> SUFFICES ASSUME AuditInv, [Next]_vars PROVE AuditInv'
  OBVIOUS
<1>1. TypeOK /\ TypeOK'
  BY TypeNext DEF AuditInv
<1>2. now \in Int /\ now' \in Instants
  BY <1>1, RevocationAssumption DEF TypeOK
<1>3. \A d \in Calls : CallInv(d)'
  <2>1. CASE \E c \in Calls : Begin(c) \/ Continue(c)
    <3>1. PICK c \in Calls : Begin(c) \/ Continue(c)
      BY <2>1
    <3>2. now' = now
      BY <3>1 DEF Begin, Continue, Bypass, ReadClock, CaptureHead, Evaluate, Issue, Execute,
                  Complete, Record
    <3>3. CallInv(c)'
      BY <3>1, CallInvStep
    <3>4. ASSUME NEW d \in Calls, d # c PROVE CallInv(d)'
      BY <3>1, <3>2, <3>4, <1>1, <1>2, OthersUntouched, CallInvFrame
    <3> QED
      BY <3>3, <3>4
  <2>2. CASE RecordRevocation
    BY <2>2, <1>2, CallInvFrame DEF RecordRevocation
  <2>3. CASE Tick
    BY <2>3, <1>2, RevocationAssumption, CallInvFrame DEF Tick
  <2>4. CASE UNCHANGED vars
    BY <2>4, <1>2, CallInvFrame DEF vars
  <2> QED
    BY <2>1, <2>2, <2>3, <2>4 DEF Next
<1> QED
  BY <1>1, <1>3 DEF AuditInv

\* What audits rely on: the order of a call's artifacts, and where their times
\* lie with respect to true time (mediator.py:194-266).
THEOREM AuditInvariant == Spec => []AuditInv
  BY AuditInit, AuditNext, PTL DEF Spec

\* No effect without a stored PRE_EFFECT receipt for that very request.
THEOREM EffectsHaveReceipts == Spec => []EffectHasReceipt
<1>1. AuditInv => EffectHasReceipt
  BY DEF AuditInv, CallInv, ReceiptIssued, EffectHasReceipt
<1> QED
  BY <1>1, AuditInvariant, PTL

-----------------------------------------------------------------------------
(* The certificate.                                                        *)

\* A certified chain that needs attestation has a proof, is judged at its upper
\* bound, and no revocation of its receipt or token is effective by then.
LEMMA CertificateJudgedAtUpperBound ==
    ASSUME NEW c \in Calls, result[c] # None, Attested(c), Authorized(c),
           boundary[c].request = ConnectorCall(c)
    PROVE  /\ result[c].timeProof # None
           /\ \A id \in UpstreamIds : ~IsRevokedAt(log, id, TUpper(result[c].timeProof))
<1> DEFINE b == boundary[c]
           r == result[c]
<1>1. /\ AuthErrors(log, HumanAuth, Token, b, r, NoLastSequence) = {}
      /\ b.status = "PRE_EFFECT"
  BY DEF Authorized, AuthorizedAtExecution
<1>2. NeedsAttestation(b, r)
  BY <1>1 DEF NeedsAttestation, Attested, ConnectorCall
<1>3. UpperProofErrors(r) = {}
  BY <1>1, <1>2 DEF AuthErrors, AttestationErrors
<1>4. r.timeProof # None
  BY <1>3 DEF UpperProofErrors
<1>5. EffectiveInstant(b, r) = TUpper(r.timeProof)
  BY <1>2, <1>3 DEF EffectiveInstant
<1>6. RecomputedErrors(log, HumanAuth, Token, b, r) = {}
  BY <1>1 DEF AuthErrors
<1>7. RevocationErrors(log, HumanAuth, Token, TUpper(r.timeProof)) = {}
  BY <1>5, <1>6 DEF RecomputedErrors, AuthorizationErrors
<1>8. /\ ~IsRevokedAt(log, HumanAuth.receiptId, TUpper(r.timeProof))
      /\ ~IsRevokedAt(log, Token.tokenId, TUpper(r.timeProof))
  BY <1>7 DEF RevocationErrors, When
<1> QED
  BY <1>4, <1>8 DEF UpstreamIds

\* If the audit certifies an attested effect, no revocation of its receipt or
\* token on record was effective at the true time of the effect: for any clock
\* error, any revocations, and any other calls.
THEOREM CertificatesAreSound == Spec => []CertifiedMeansUnrevoked
<1>1. AuditInv => CertifiedMeansUnrevoked
  <2> SUFFICES ASSUME AuditInv, NEW c \in Calls, effectAt[c] # None, result[c] # None,
                      Attested(c), Authorized(c), NEW id \in UpstreamIds,
                      IsRevokedAt(log, id, effectAt[c])
               PROVE  FALSE
    BY DEF CertifiedMeansUnrevoked
  <2>1. boundary[c].request = ConnectorCall(c)
    BY DEF AuditInv, CallInv, ReceiptIssued
  <2>2. /\ result[c].timeProof # None
        /\ ~IsRevokedAt(log, id, TUpper(result[c].timeProof))
    BY <2>1, CertificateJudgedAtUpperBound
  <2>3. /\ TUpper(result[c].timeProof) \in Int
        /\ effectAt[c] <= TUpper(result[c].timeProof)
    BY <2>2 DEF AuditInv, CallInv, ProofBounds
  <2>4. effectAt[c] \in Int /\ id \in DOMAIN log.entries /\ log.entries[id].revokedAt \in Int
    BY RevocationAssumption DEF AuditInv, TypeOK, LogTypeOK, Entry, IsRevokedAt
  <2> QED
    BY <2>2, <2>3, <2>4 DEF IsRevokedAt
<1> QED
  BY <1>1, AuditInvariant, PTL

==============================================================================
