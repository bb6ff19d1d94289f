-------------------------- MODULE Certificate_proofs --------------------------
(***************************************************************************)
(* What a certificate of the audit is worth: it speaks of an effect that    *)
(* happened and that k authorities dated, and no later revocation takes it *)
(* away, for any clock unit, clock error and faults of the quorum.         *)
(***************************************************************************)
EXTENDS Audit_proofs, AuditBundle_proofs, SequenceTheorems

\* What a result receipt says happened did, and its times are times.
ResultTrue(c) ==
    /\ work[c].effectRef # None => effectAt[c] # None
    /\ result[c] # None =>
        /\ boundary[c].request = ConnectorCall(c)
        /\ result[c].effectRef # None => effectAt[c] # None
        /\ result[c].completedAt \in Int
        /\ result[c].timeProof # None => /\ TUpper(result[c].timeProof) \in Int
                                         /\ IsFiniteSet(Signers(result[c].timeProof))

CertInv == AuditInv /\ LogInv /\ \A c \in Calls : ResultTrue(c)

-----------------------------------------------------------------------------
(* The invariant.                                                          *)

\* A quorum is a finite set of authorities, so what it signs can be counted.
LEMMA SignersFinite ==
    ASSUME NEW nonce, NEW p \in Proofs(nonce)
    PROVE  IsFiniteSet(Signers(p))
<1>1. PICK m \in QuorumReadings, a \in QuorumAnswers :
          p = TimeProof(nonce, m, RadiusMs, a.signers, a.corrupt)
  BY DEF Proofs
<1>2. Signers(p) \subseteq a.signers
  BY <1>1 DEF Signers, TimeProof
<1> QED
  BY <1>2, MediatorAssumption, FS_Subset

\* No receipt is on record when the world is built.
LEMMA CertInit == Init => CertInv
<1> SUFFICES ASSUME Init PROVE CertInv
  OBVIOUS
<1>1. LogInv
  BY LogInitInv DEF Init
<1>2. \A c \in Calls : ResultTrue(c)
  BY DEF Init, NoWork, ResultTrue
<1> QED
  BY <1>1, <1>2, AuditInit DEF CertInv

\* A step of a call keeps what its receipts say true.
LEMMA ResultTrueStep ==
    ASSUME CertInv, NEW c \in Calls, Begin(c) \/ Continue(c)
    PROVE  ResultTrue(c)'
<1>1. /\ ResultTrue(c) /\ CallOrdered(c) /\ now \in Instants
      /\ effectAt \in [Calls -> Instants \cup {None}]
      /\ DOMAIN work = Calls /\ DOMAIN result = Calls /\ DOMAIN work[c] = DOMAIN NoWork
      /\ pc[c] = "record" => work[c].completedAt \in Instants
      /\ pc[c] = "record" => boundary[c].request = ConnectorCall(c)
  BY DEF Cleared, ReceiptIssued, CertInv, AuditInv, CallInv, TypeOK
<1>2. CASE Bypass(c) \/ Issue(c)
  <2>1. /\ Bypass(c) \/ result[c] = None
        /\ Bypass(c) => UNCHANGED boundary
        /\ UNCHANGED <<work, result, effectAt>>
    BY <1>1, <1>2 DEF Bypass, Issue, Step, CallOrdered
  <2> QED
    BY <1>1, <2>1 DEF ResultTrue, ConnectorCall, Row
<1>3. CASE ReadClock(c) \/ CaptureHead(c) \/ Complete(c)
  BY <1>1, <1>3
     DEF ReadClock, CaptureHead, Complete, ResultTrue, NoWork, ConnectorCall, Row
<1>4. CASE Evaluate(c)
  <2>1. /\ \E errs : work' = [work EXCEPT ![c].errors = errs]
        /\ UNCHANGED <<boundary, result, effectAt>>
    BY <1>4 DEF Evaluate
  <2> QED
    BY <1>1, <2>1 DEF ResultTrue, NoWork, ConnectorCall, Row
<1>5. CASE Execute(c)
  <2>1. pc[c] = "execute" /\ UNCHANGED result
    BY <1>5 DEF Execute, Step
  <2>2. result[c] = None
    BY <1>1, <2>1 DEF CallOrdered
  <2>3. work'[c].effectRef # None => effectAt'[c] # None
    BY <1>1, <1>5, RevocationAssumption DEF Execute, ResultTrue, NoWork
  <2> QED
    BY <2>1, <2>2, <2>3 DEF ResultTrue
<1>6. CASE Record(c)
  <2>1. pc[c] = "record" /\ UNCHANGED <<work, boundary, effectAt>>
    BY <1>6 DEF Record, Step
  <2>2. PICK upper : /\ upper = None \/ \E nonce : upper \in Proofs(nonce)
                     /\ result' = [result EXCEPT ![c] = ResultReceipt(c, upper)]
    BY <1>6 DEF Record
  <2>3. /\ result'[c].timeProof = upper
        /\ result'[c].effectRef = work[c].effectRef
        /\ result'[c].completedAt = work[c].completedAt
    BY <1>1, <2>2 DEF ResultReceipt, ResultFields
  <2>4. upper # None => TUpper(upper) \in Int /\ IsFiniteSet(Signers(upper))
    BY <1>1, <2>2, ProofIsUpperBound, SignersFinite
  <2> QED
    BY <1>1, <2>1, <2>3, <2>4, RevocationAssumption DEF ResultTrue, ConnectorCall, Row
<1> QED
  BY <1>2, <1>3, <1>4, <1>5, <1>6 DEF Begin, Continue

\* The receipts stay true, and the log pinned, across every step of the system.
LEMMA CertNext == CertInv /\ [Next]_vars => CertInv'
<1> SUFFICES ASSUME CertInv, [Next]_vars PROVE CertInv'
  OBVIOUS
<1>1. AuditInv' /\ TypeOK
  BY AuditNext DEF CertInv, AuditInv
<1>2. LogInv'
  <2>1. CASE RecordRevocation
    BY <2>1, RevokePreserves DEF CertInv, RecordRevocation, LogNext
  <2>2. CASE UNCHANGED log
    BY <2>2 DEF CertInv, LogInv, LogTypeOK, HeadNamesHistory, EntryPinned, NothingForgotten
  <2>3. RecordRevocation \/ UNCHANGED log
    BY DEF Next, Begin, Continue, Bypass, ReadClock, CaptureHead, Evaluate, Issue, Execute,
           Complete, Record, Tick, vars
  <2> QED
    BY <2>1, <2>2, <2>3
<1>3. \A d \in Calls : ResultTrue(d)'
  <2>1. CASE \E c \in Calls : Begin(c) \/ Continue(c)
    <3>1. PICK c \in Calls : Begin(c) \/ Continue(c)
      BY <2>1
    <3>2. ResultTrue(c)'
      BY <3>1, ResultTrueStep
    <3>3. ASSUME NEW d \in Calls, d # c PROVE ResultTrue(d)'
      BY <1>1, <3>1, <3>3, OthersUntouched DEF CertInv, ResultTrue
    <3> QED
      BY <3>2, <3>3
  <2>2. CASE RecordRevocation \/ Tick \/ UNCHANGED vars
    BY <2>2 DEF RecordRevocation, Tick, vars, CertInv, ResultTrue
  <2> QED
    BY <2>1, <2>2 DEF Next
<1> QED
  BY <1>1, <1>2, <1>3 DEF CertInv

\* The receipts on record are true of what happened, and the log's entries
\* name their places, while calls and revocations go on.
THEOREM CertInvariant == Spec => []CertInv
  BY CertInit, CertNext, PTL DEF Spec

-----------------------------------------------------------------------------
(* A certificate speaks of an effect that happened.                        *)

\* k-of-n: a proof that verify_time_proof does not fault carries the good
\* signatures of as many authorities as the threshold asks for.
LEMMA AcceptedProofAttests ==
    ASSUME NEW p, NEW nonce, ProofErrors(p, nonce) = {}, IsFiniteSet(Signers(p))
    PROVE  Attesting(p)
<1> DEFINE valid == ValidAuthorities(Keys, p)
<1>1. Cardinality(valid) >= AttestationThreshold
  BY DEF ProofErrors, VerifyTimeProof, When
<1>2. valid \subseteq Signers(p)
  BY DEF ValidAuthorities, AuthoritySignatures, Signers
<1>3. /\ Cardinality(valid) <= Cardinality(Signers(p))
      /\ Cardinality(valid) \in Nat
      /\ Cardinality(Signers(p)) \in Nat
  BY <1>2, FS_Subset, FS_CardinalityType
<1> QED
  BY <1>1, <1>3, VerifierAssumption DEF Attesting

\* What the audit's attestation checks tell of a chain it certifies.
LEMMA CertificateAttested ==
    ASSUME CertInv, NEW c \in Calls, result[c] # None, Attested(c), Authorized(c)
    PROVE  /\ NeedsAttestation(boundary[c], result[c])
           /\ UpperProofErrors(result[c]) = {}
           /\ effectAt[c] # None
           /\ TUpper(result[c].timeProof) \in Int
           /\ effectAt[c] <= TUpper(result[c].timeProof)
           /\ Attesting(result[c].timeProof)
<1> DEFINE b == boundary[c]
           r == result[c]
<1>1. /\ AuthErrors(log, HumanAuth, Token, b, r, NoLastSequence) = {}
      /\ b.status = "PRE_EFFECT"
  BY DEF Authorized, AuthorizedAtExecution
<1>2. NeedsAttestation(b, r)
  <2>1. b.request = ConnectorCall(c)
    BY DEF CertInv, ResultTrue
  <2> QED
    BY <1>1, <2>1 DEF NeedsAttestation, Attested, ConnectorCall
<1>3. r.effectRef # None /\ UpperProofErrors(r) = {}
  BY <1>1, <1>2 DEF AuthErrors, AttestationErrors, When
<1>4. r.timeProof # None
  BY <1>3 DEF UpperProofErrors
<1>5. /\ effectAt[c] # None /\ TUpper(r.timeProof) \in Int
      /\ effectAt[c] <= TUpper(r.timeProof)
  BY <1>3, <1>4 DEF CertInv, ResultTrue, AuditInv, CallInv, ProofBounds
<1>6. Attesting(r.timeProof)
  <2>1. ProofErrors(r.timeProof, ResultProofNonce(r)) = {}
    BY <1>3, <1>4 DEF UpperProofErrors
  <2>2. IsFiniteSet(Signers(r.timeProof))
    BY <1>4 DEF CertInv, ResultTrue
  <2> QED
    BY <2>1, <2>2, AcceptedProofAttests
<1> QED
  BY <1>2, <1>3, <1>5, <1>6

\* attested_clock.py:145-152: whatever authorities fail or sign badly, only an
\* effect that happened and that k of them dated is certified.
THEOREM CertificatesAreAttested == Spec => []CertifiedMeansAttested
<1>1. CertInv => CertifiedMeansAttested
  BY CertificateAttested DEF CertifiedMeansAttested
<1> QED
  BY <1>1, CertInvariant, PTL

-----------------------------------------------------------------------------
(* A certificate stands.                                                   *)

\* ms_between never puts an instant before one that it follows.
LEMMA NotAfter ==
    ASSUME NEW instant \in Int, NEW at \in Int, at <= instant
    PROVE  MsBetween(instant, at) >= 0
<1>1. (instant - at) \div UnitsPerMs >= 0
  BY UnitsPerMsAssumption
<1> QED
  BY <1>1 DEF MsBetween

\* The receipts of a call with a result on record are final.
LEMMA ChainIsFinal ==
    ASSUME CertInv, [Next]_vars, NEW c \in Calls, result[c] # None
    PROVE  boundary'[c] = boundary[c] /\ result'[c] = result[c]
<1>1. TypeOK /\ pc[c] = "returned"
  BY DEF CertInv, AuditInv, CallInv, CallOrdered
<1>2. CASE \E d \in Calls : Begin(d) \/ Continue(d)
  <2>1. PICK d \in Calls : Begin(d) \/ Continue(d)
    BY <1>2
  <2>2. d # c
    BY <1>1, <2>1 DEF Begin, Continue, Bypass, ReadClock, CaptureHead, Evaluate, Issue, Execute,
                      Complete, Record, Step
  <2> QED
    BY <1>1, <2>1, <2>2, OthersUntouched
<1>3. CASE RecordRevocation \/ Tick \/ UNCHANGED vars
  BY <1>3 DEF RecordRevocation, Tick, vars
<1> QED
  BY <1>2, <1>3 DEF Next

\* The instant a chain with a result is judged at is an instant.
LEMMA JudgedAtAnInstant ==
    ASSUME CertInv, NEW c \in Calls, result[c] # None
    PROVE  EffectiveInstant(boundary[c], result[c]) \in Int
<1>1. UpperProofErrors(result[c]) = {} => result[c].timeProof # None
  BY DEF UpperProofErrors
<1> QED
  BY <1>1 DEF EffectiveInstant, CertInv, ResultTrue

\* A revocation that takes effect after the instant is neither counted against
\* the head nor against the authority.
LEMMA LaterRevocationIgnored ==
    ASSUME CertInv, RecordRevocation, NEW head, NEW instant \in Int,
           \A e \in AllEntries(log') \ AllEntries(log) : TakesEffectAfter(e, instant)
    PROVE  /\ StaleHeadErrors(log, head, instant) = {}
                => StaleHeadErrors(log', head, instant) = {}
           /\ \A id : IsRevokedAt(log', id, instant) => IsRevokedAt(log, id, instant)
<1>1. PICK a \in Revocable, at \in Instants : Revoke(a, at)
  BY DEF RecordRevocation, LogNext
<1> DEFINE new == [artifactId |-> a, revokedAt |-> at, sequence |-> log.seq + 1]
<1>2. log'.entries = Put(log.entries, a, new)
  BY <1>1, RevokeWrites
<1>3. /\ DOMAIN log'.entries = DOMAIN log.entries \cup {a}
      /\ log'.entries[a] = new
      /\ \A x \in DOMAIN log.entries \ {a} : log'.entries[x] = log.entries[x]
  BY <1>2 DEF Put
<1>4. new \notin AllEntries(log)
  <2>1. log.seq \in Nat /\ log.seq = Len(log.headHash)
    BY DEF CertInv, LogInv, LogTypeOK, HeadNamesHistory
  <2>2. \A x \in DOMAIN log.entries : log.entries[x].sequence \in 1..log.seq
    BY <2>1 DEF CertInv, LogInv, EntryPinned
  <2> QED
    BY <2>1, <2>2 DEF AllEntries
<1>5. new \in AllEntries(log') /\ AllEntries(log') \subseteq AllEntries(log) \cup {new}
  BY <1>3 DEF AllEntries
<1>6. ~(MsBetween(instant, at) >= 0)
  <2>1. MsBetween(instant, at) < 0
    BY <1>4, <1>5 DEF TakesEffectAfter
  <2>2. MsBetween(instant, at) \in Int
    BY UnitsPerMsAssumption, RevocationAssumption DEF MsBetween
  <2> QED
    BY <2>1, <2>2
<1>7. ~(at <= instant)
  BY <1>6, NotAfter, RevocationAssumption
<1> QED
  BY <1>3, <1>5, <1>6, <1>7 DEF StaleHeadErrors, When, IsRevokedAt

\* The audit's verdict on a certified chain, replayed against the longer log.
LEMMA RevocationKeepsVerdict ==
    ASSUME CertInv, RecordRevocation, NEW c \in Calls, result[c] # None, Authorized(c),
           \A e \in AllEntries(log') \ AllEntries(log) :
               TakesEffectAfter(e, EffectiveInstant(boundary[c], result[c]))
    PROVE  AuthorizedAtExecution(log', HumanAuth, Token, boundary[c], result[c], NoLastSequence)
<1> DEFINE b == boundary[c]
           r == result[c]
           instant == EffectiveInstant(b, r)
<1>1. instant \in Int
  BY JudgedAtAnInstant
<1>2. /\ ChainIntact(HumanAuth, Token, b, r) /\ b.status = "PRE_EFFECT"
      /\ AuthErrors(log, HumanAuth, Token, b, r, NoLastSequence) = {}
  BY DEF Authorized, AuthorizedAtExecution
<1>3. /\ HeadErrors(b, NoLastSequence) = {} /\ AttestationErrors(b, r) = {}
      /\ ResultErrors(b, r) = {}
      /\ StaleHeadErrors(log, b.ledgerHead, instant) = {}
      /\ RecomputedErrors(log, HumanAuth, Token, b, r) = {}
  BY <1>2 DEF AuthErrors
<1>4. /\ StaleHeadErrors(log', b.ledgerHead, instant) = {}
      /\ \A id : IsRevokedAt(log', id, instant) => IsRevokedAt(log, id, instant)
  BY <1>1, <1>3, LaterRevocationIgnored
<1>5. RecomputedErrors(log', HumanAuth, Token, b, r) = {}
  <2>1. RevocationErrors(log, HumanAuth, Token, instant) = {}
    BY <1>3 DEF RecomputedErrors, AuthorizationErrors
  <2>2. RevocationErrors(log', HumanAuth, Token, instant) = {}
    BY <1>4, <2>1 DEF RevocationErrors, When
  <2> QED
    BY <1>3, <2>2 DEF RecomputedErrors, AuthorizationErrors
<1>6. StatusErrors(log', HumanAuth, Token, b, r) = {}
  BY <1>2, <1>5 DEF StatusErrors, When
<1> QED
  BY <1>2, <1>3, <1>4, <1>5, <1>6 DEF AuthErrors, AuthorizedAtExecution

\* README.md:154-157: no step of the system but a revocation effective by the
\* effect's instant takes a certificate away, whatever the clock unit is.
THEOREM CertificatesStand == Spec => CertificateStands
<1>1. CertInv /\ [Next]_vars =>
        [ \A c \in Calls :
            (/\ result[c] # None
             /\ Authorized(c)
             /\ \A e \in AllEntries(log') \ AllEntries(log) :
                    TakesEffectAfter(e, EffectiveInstant(boundary[c], result[c])))
            => Authorized(c)' ]_vars
  <2> SUFFICES ASSUME CertInv, Next, NEW c \in Calls, result[c] # None, Authorized(c),
                      \A e \in AllEntries(log') \ AllEntries(log) :
                          TakesEffectAfter(e, EffectiveInstant(boundary[c], result[c]))
               PROVE  Authorized(c)'
    OBVIOUS
  <2>1. boundary'[c] = boundary[c] /\ result'[c] = result[c]
    BY ChainIsFinal
  <2>2. RecordRevocation \/ UNCHANGED log
    BY DEF Next, Begin, Continue, Bypass, ReadClock, CaptureHead, Evaluate, Issue, Execute,
           Complete, Record, Tick
  <2>3. AuthorizedAtExecution(log', HumanAuth, Token, boundary[c], result[c], NoLastSequence)
    BY <2>2, RevocationKeepsVerdict DEF Authorized
  <2> QED
    BY <2>1, <2>3 DEF Authorized
<1> QED
  BY <1>1, CertInvariant, PTL DEF Spec, CertificateStands

-----------------------------------------------------------------------------
(* What a boundary receipt says is true.                                   *)

\* A head is a cut of the one history, with the instant it was captured at.
CutOf(history, head) ==
    /\ head.capturedAt \in Int
    /\ head.sequenceNumber \in 0..Len(history)
    /\ head.headHash = SubSeq(history, 1, head.sequenceNumber)

\* None is a value no part of the chain takes.
NoneIsNoValue ==
    /\ \A c \in Calls : <<"op", c>> # None
    /\ \A nonce, m, signers, corrupt : TimeProof(nonce, m, RadiusMs, signers, corrupt) # None

\* The lower-bound proof was given before the effect, by authorities that can
\* be counted, and the receipt quotes the window along with it.
LowerTrue(c) ==
    LET p == boundary[c].lowerBoundProof
    IN  (AttestRequired(c) /\ boundary[c].status = "PRE_EFFECT") =>
            /\ NoneIsNoValue => p # None /\ boundary[c].maxAttestationWindowMs = WindowMs
            /\ TLower(p) \in Int
            /\ TLower(p) <= now
            /\ effectAt[c] # None => TLower(p) <= effectAt[c]
            /\ IsFiniteSet(Signers(p))

\* A boundary receipt is on record.
Receipted(c) == boundary[c] # None \/ pc[c] \in Cleared \/ result[c] # None

BoundaryTrue(c) ==
    /\ pc[c] \in {"evaluate", "issue"} => CutOf(log.headHash, work[c].head)
    /\ Receipted(c) =>
        /\ boundary[c].issuedAt \in Int /\ boundary[c].verifiedAt \in Int
        /\ CutOf(log.headHash, boundary[c].ledgerHead)
        /\ LowerTrue(c)

ReceiptInv == CertInv /\ \A c \in Calls : BoundaryTrue(c)

\* An honest quorum's proof is dated no later than the instant it was asked for.
LEMMA ProofIsLowerBound ==
    ASSUME now \in Instants, NEW nonce, NEW p \in Proofs(nonce)
    PROVE  TLower(p) \in Int /\ TLower(p) <= now
<1>1. PICK m \in QuorumReadings, a \in QuorumAnswers :
          p = TimeProof(nonce, m, RadiusMs, a.signers, a.corrupt)
  BY DEF Proofs
<1>2. TLower(p) = AddMs(m, -RadiusMs)
  BY <1>1 DEF TLower, TimeProof
<1>3. now \in Int /\ m \in Int /\ m <= now + RadiusMs * UnitsPerMs
  BY <1>1, QuorumErrs, RevocationAssumption
<1>4. RadiusMs \in Int /\ UnitsPerMs \in Int
  BY MediatorAssumption, UnitsPerMsAssumption
<1>5. /\ (-RadiusMs) * UnitsPerMs = -(RadiusMs * UnitsPerMs)
      /\ RadiusMs * UnitsPerMs \in Int
  BY <1>4
<1>6. AddMs(m, -RadiusMs) = m - RadiusMs * UnitsPerMs
  BY <1>3, <1>5 DEF AddMs
<1> QED
  BY <1>2, <1>3, <1>5, <1>6

\* A cut of the history is a cut of every longer one.
LEMMA HeadStaysCut ==
    ASSUME LogInv, NEW head, CutOf(log.headHash, head), RecordRevocation \/ UNCHANGED log
    PROVE  CutOf(log'.headHash, head)
<1> DEFINE n == head.sequenceNumber
           hist == log.headHash
           Place == [artifactId : Revocable, revokedAt : Instants]
<1>1. CASE UNCHANGED log
  BY <1>1 DEF CutOf
<1>2. CASE RecordRevocation
  <2>1. PICK a \in Revocable, at \in Instants : Revoke(a, at)
    BY <1>2 DEF RecordRevocation, LogNext
  <2>2. PICK place : log'.headHash = Append(hist, place)
    BY <2>1, RevokeWrites
  <2>3. hist \in Seq(Place) /\ n \in 0..Len(hist)
    BY DEF CutOf, LogInv, LogTypeOK
  <2>4. /\ Len(log'.headHash) = Len(hist) + 1
        /\ \A i \in 1..n : log'.headHash[i] = hist[i]
    BY <2>2, <2>3
  <2>5. SubSeq(log'.headHash, 1, n) = SubSeq(hist, 1, n)
    <3> HIDE DEF n, hist
    <3> QED
      BY <2>3, <2>4
  <2> QED
    BY <2>3, <2>4, <2>5 DEF CutOf
<1> QED
  BY <1>1, <1>2

\* A step of a call keeps what its boundary receipt says true.
LEMMA BoundaryTrueStep ==
    ASSUME ReceiptInv, NEW c \in Calls, Begin(c) \/ Continue(c)
    PROVE  BoundaryTrue(c)'
<1> USE DEF Cleared
<1>1. /\ BoundaryTrue(c) /\ CallOrdered(c) /\ LogInv /\ now \in Instants
      /\ pc \in [Calls -> PcValues] /\ effectAt \in [Calls -> Instants \cup {None}]
      /\ DOMAIN work = Calls /\ DOMAIN boundary = Calls /\ DOMAIN result = Calls
      /\ DOMAIN work[c] = DOMAIN NoWork
      /\ pc[c] \in Underway => work[c].verifiedAt \in Int
  BY RevocationAssumption DEF ReceiptInv, CertInv, AuditInv, CallInv, TypeOK
<1>2. UNCHANGED <<log, now>> /\ AttestRequired(c)' = AttestRequired(c)
  BY DEF Begin, Continue, Bypass, ReadClock, CaptureHead, Evaluate, Issue, Execute, Complete,
         Record, AttestRequired, Row
<1>3. UNCHANGED log
  BY <1>2
<1>4. CASE Bypass(c) \/ ReadClock(c)
  <2>1. /\ pc[c] = "idle" /\ pc'[c] \in {"returned", "raised", "capture"}
        /\ UNCHANGED <<boundary, result, effectAt>>
    BY <1>1, <1>4 DEF Bypass, ReadClock, Step
  <2> QED
    BY <1>1, <1>2, <1>3, <2>1 DEF BoundaryTrue, Receipted, LowerTrue
<1>5. CASE CaptureHead(c)
  <2>1. /\ pc[c] = "capture" /\ pc'[c] = "evaluate"
        /\ UNCHANGED <<boundary, result, effectAt>>
        /\ work'[c].head = LedgerHead(log, work[c].verifiedAt, RevKeyId)
    BY <1>1, <1>5 DEF CaptureHead, Step, NoWork
  <2>2. CutOf(log'.headHash, work'[c].head)
    <3>1. /\ log.seq = Len(log.headHash)
          /\ log.headHash \in Seq([artifactId : Revocable, revokedAt : Instants])
          /\ work[c].verifiedAt \in Int
      BY <1>1, <2>1 DEF LogInv, LogTypeOK, HeadNamesHistory, Underway
    <3>2. SubSeq(log.headHash, 1, log.seq) = log.headHash /\ log.seq \in 0..Len(log.headHash)
      BY <3>1, SubSeqFull
    <3> QED
      BY <1>3, <2>1, <3>1, <3>2 DEF LedgerHead, CutOf
  <2> QED
    BY <1>1, <1>2, <1>3, <2>1, <2>2 DEF BoundaryTrue, Receipted, LowerTrue
<1>6. CASE Evaluate(c)
  <2>1. /\ pc[c] = "evaluate" /\ pc'[c] = "issue" /\ UNCHANGED <<boundary, result, effectAt>>
        /\ \E errs : work' = [work EXCEPT ![c].errors = errs]
    BY <1>1, <1>6 DEF Evaluate, Step
  <2>2. work'[c].head = work[c].head
    BY <1>1, <2>1 DEF NoWork
  <2> QED
    BY <1>1, <1>2, <1>3, <2>1, <2>2 DEF BoundaryTrue, Receipted, LowerTrue
<1>7. CASE Issue(c)
  <2>1. /\ pc[c] = "issue" /\ pc'[c] \in {"returned", "raised", "execute"}
        /\ UNCHANGED <<work, result, effectAt>>
    BY <1>1, <1>7 DEF Issue, Step
  <2>2. PICK lower : /\ IF Status(c) = "PRE_EFFECT" /\ AttestRequired(c)
                        THEN lower \in Proofs(Nonce(c)) ELSE lower = None
                     /\ boundary' = [boundary EXCEPT ![c] = BoundaryReceipt(c, lower)]
    BY <1>7 DEF Issue
  <2>3. /\ boundary'[c].issuedAt = work[c].verifiedAt
        /\ boundary'[c].verifiedAt = work[c].verifiedAt
        /\ boundary'[c].ledgerHead = work[c].head
        /\ boundary'[c].lowerBoundProof = lower
        /\ boundary'[c].status = Status(c)
        /\ lower # None => boundary'[c].maxAttestationWindowMs = WindowMs
    BY <1>1, <2>2 DEF BoundaryReceipt
  <2>4. effectAt'[c] = None
    BY <1>1, <2>1 DEF CallOrdered
  <2>5. LowerTrue(c)'
    <3> SUFFICES ASSUME lower \in Proofs(Nonce(c)) PROVE LowerTrue(c)'
      BY <1>2, <2>2, <2>3 DEF LowerTrue
    <3>1. NoneIsNoValue => lower # None
      BY DEF Proofs, NoneIsNoValue
    <3>2. TLower(lower) \in Int /\ TLower(lower) <= now /\ IsFiniteSet(Signers(lower))
      BY <1>1, ProofIsLowerBound, SignersFinite
    <3> QED
      BY <1>2, <2>3, <2>4, <3>1, <3>2 DEF LowerTrue
  <2>6. CutOf(log.headHash, work[c].head) /\ work[c].verifiedAt \in Int
    BY <1>1, <2>1 DEF BoundaryTrue, Underway
  <2> QED
    BY <1>3, <2>1, <2>3, <2>5, <2>6 DEF BoundaryTrue
<1>8. CASE Execute(c)
  <2>1. /\ pc[c] = "execute" /\ pc'[c] = "complete" /\ UNCHANGED <<boundary, result>>
        /\ effectAt'[c] \in {effectAt[c], now}
    BY <1>1, <1>8 DEF Execute, Step
  <2>2. Receipted(c)
    BY <2>1 DEF Receipted
  <2>3. LowerTrue(c)'
    BY <1>1, <1>2, <2>1, <2>2 DEF BoundaryTrue, LowerTrue
  <2> QED
    BY <1>1, <1>3, <2>1, <2>2, <2>3 DEF BoundaryTrue
<1>9. CASE Complete(c) \/ Record(c)
  <2>1. /\ pc[c] \in {"complete", "record"} /\ pc'[c] \in {"record", "returned"}
        /\ UNCHANGED <<boundary, effectAt>>
    BY <1>1, <1>9 DEF Complete, Record, Step
  <2>2. Receipted(c)
    BY <2>1 DEF Receipted
  <2> QED
    BY <1>1, <1>2, <1>3, <2>1, <2>2 DEF BoundaryTrue, LowerTrue
<1> QED
  BY <1>4, <1>5, <1>6, <1>7, <1>8, <1>9 DEF Begin, Continue

\* A step that leaves a call's state alone, whatever time and log do, keeps it.
LEMMA BoundaryTrueFrame ==
    ASSUME LogInv, NEW d \in Calls, BoundaryTrue(d), RecordRevocation \/ UNCHANGED log,
           now \in Int, now' \in Int, now <= now',
           pc'[d] = pc[d], work'[d] = work[d], boundary'[d] = boundary[d],
           result'[d] = result[d], effectAt'[d] = effectAt[d]
    PROVE  BoundaryTrue(d)'
<1>1. \A head : CutOf(log.headHash, head) => CutOf(log'.headHash, head)
  BY HeadStaysCut
<1>2. LowerTrue(d) => LowerTrue(d)'
  BY DEF LowerTrue, AttestRequired, Row
<1>3. Receipted(d)' = Receipted(d)
  BY DEF Receipted
<1> QED
  BY <1>1, <1>2, <1>3 DEF BoundaryTrue

\* Boundary receipts stay true across every step of the system.
LEMMA ReceiptNext ==
    ASSUME ReceiptInv, [Next]_vars
    PROVE  ReceiptInv'
<1>1. CertInv' /\ TypeOK /\ TypeOK' /\ LogInv
  BY CertNext DEF ReceiptInv, CertInv, AuditInv
<1>2. now \in Int /\ now' \in Int
  BY <1>1, RevocationAssumption DEF TypeOK
<1>3. CASE \E c \in Calls : Begin(c) \/ Continue(c)
  <2>1. PICK c \in Calls : Begin(c) \/ Continue(c)
    BY <1>3
  <2>2. UNCHANGED <<log, now>>
    BY <2>1 DEF Begin, Continue, Bypass, ReadClock, CaptureHead, Evaluate, Issue, Execute,
                Complete, Record
  <2>3. BoundaryTrue(c)'
    BY <2>1, BoundaryTrueStep
  <2>4. ASSUME NEW d \in Calls, d # c PROVE BoundaryTrue(d)'
    <3>1. /\ pc'[d] = pc[d] /\ work'[d] = work[d] /\ boundary'[d] = boundary[d]
          /\ result'[d] = result[d] /\ effectAt'[d] = effectAt[d]
      BY <1>1, <2>1, <2>4, OthersUntouched
    <3> QED
      BY <1>1, <1>2, <2>2, <3>1, BoundaryTrueFrame DEF ReceiptInv
  <2> QED
    BY <1>1, <2>3, <2>4 DEF ReceiptInv
<1>4. CASE RecordRevocation \/ Tick \/ UNCHANGED vars
  <2>1. /\ UNCHANGED <<pc, work, boundary, result, effectAt>>
        /\ now <= now'
        /\ RecordRevocation \/ UNCHANGED log
    BY <1>2, <1>4 DEF RecordRevocation, Tick, vars
  <2>2. ASSUME NEW d \in Calls PROVE BoundaryTrue(d)'
    BY <1>1, <1>2, <2>1, BoundaryTrueFrame DEF ReceiptInv
  <2> QED
    BY <1>1, <2>2 DEF ReceiptInv
<1> QED
  BY <1>3, <1>4 DEF Next

\* The heads, times and proofs of every boundary receipt on record are true
\* (mediator.py:152-229), whatever the clocks read and whoever signs badly.
THEOREM ReceiptInvariant == Spec => []ReceiptInv
<1>1. Init => ReceiptInv
  BY CertInit DEF Init, NoWork, ReceiptInv, BoundaryTrue, Receipted, Cleared
<1>2. ReceiptInv /\ [Next]_vars => ReceiptInv'
  BY ReceiptNext
<1> QED
  BY <1>1, <1>2, PTL DEF Spec

-----------------------------------------------------------------------------
(* The certified interval.                                                 *)

\* What the sandwich of attested times tells of a chain the audit certifies.
LEMMA CertifiedSandwich ==
    ASSUME NoneIsNoValue, ReceiptInv, NEW c \in Calls, result[c] # None, Attested(c),
           AttestRequired(c), Authorized(c)
    PROVE  LET tLb == TLower(boundary[c].lowerBoundProof)
               tUb == TUpper(result[c].timeProof)
           IN  /\ tLb \in Int /\ tUb \in Int /\ effectAt[c] \in tLb..tUb
               /\ MsBetween(tUb, tLb) <= WindowMs
               /\ Attesting(boundary[c].lowerBoundProof)
               /\ SandwichErrors(boundary[c], result[c]) = {}
<1> DEFINE b == boundary[c]
           r == result[c]
           lower == b.lowerBoundProof
           tLb == TLower(lower)
           tUb == TUpper(r.timeProof)
<1>1. /\ NeedsAttestation(b, r) /\ UpperProofErrors(r) = {}
      /\ effectAt[c] # None /\ tUb \in Int /\ effectAt[c] <= tUb
  BY CertificateAttested DEF ReceiptInv
<1>2. b.status = "PRE_EFFECT" /\ AttestationErrors(b, r) = {}
  BY DEF Authorized, AuthorizedAtExecution, AuthErrors
<1>3. /\ lower # None /\ tLb \in Int /\ tLb <= effectAt[c]
      /\ IsFiniteSet(Signers(lower)) /\ b.maxAttestationWindowMs = WindowMs
  BY <1>1, <1>2 DEF ReceiptInv, BoundaryTrue, Receipted, LowerTrue
<1>4. LowerProofErrors(b, r) = {} /\ SandwichErrors(b, r) = {}
  BY <1>1, <1>2, <1>3 DEF AttestationErrors
<1>5. effectAt[c] \in Int
  BY <1>1, RevocationAssumption DEF ReceiptInv, CertInv, AuditInv, TypeOK
<1>6. MsBetween(tUb, tLb) <= WindowMs
  <2>1. WindowMs # None /\ WindowMs \in Int
    BY RevocationAssumption, MediatorAssumption
  <2>2. ~(MsBetween(tUb, tLb) > WindowMs)
    BY <1>3, <1>4, <2>1 DEF SandwichErrors, When
  <2>3. MsBetween(tUb, tLb) \in Int
    BY <1>1, <1>3, UnitsPerMsAssumption DEF MsBetween
  <2> QED
    BY <2>1, <2>2, <2>3
<1>7. Attesting(lower)
  <2>1. r.timeProof # None
    BY <1>1 DEF UpperProofErrors
  <2>2. ProofErrors(lower, b.nonce) = {}
    BY <1>3, <1>4, <2>1 DEF LowerProofErrors
  <2> QED
    BY <1>3, <2>2, AcceptedProofAttests
<1> QED
  BY <1>1, <1>3, <1>4, <1>5, <1>6, <1>7

\* attested_clock.py:30-34: a certified effect lies in the attested interval,
\* no wider than the window, whatever the mediator's clock read.
THEOREM CertifiedIntervalsHold ==
    ASSUME NoneIsNoValue PROVE Spec => []CertifiedIntervalHoldsEffect
<1>1. ReceiptInv => CertifiedIntervalHoldsEffect
  BY CertifiedSandwich DEF CertifiedIntervalHoldsEffect
<1> QED
  BY <1>1, ReceiptInvariant, PTL

-----------------------------------------------------------------------------
(* The times that a certificate states.                                    *)

\* ms_between truncates: it tells instants apart to within a millisecond.
LEMMA MsBetweenTruncates ==
    ASSUME NEW later \in Int, NEW earlier \in Int
    PROVE  /\ MsBetween(later, earlier) \in Int
           /\ \A n \in Nat : MsBetween(later, earlier) <= n
                  => later - earlier < n * UnitsPerMs + UnitsPerMs
           /\ MsBetween(later, earlier) >= 0 => later - earlier > -UnitsPerMs
<1> DEFINE U == UnitsPerMs
           d == later - earlier
<1>1. U \in Nat /\ U > 0 /\ d \in Int
  BY UnitsPerMsAssumption
<1>2. \A x \in Nat : x \div U \in Nat /\ x < (x \div U) * U + U
  BY <1>1
<1>3. ASSUME NEW n \in Nat, MsBetween(later, earlier) <= n PROVE d < n * U + U
  <2>1. CASE d >= 0
    <3>1. d \div U \in Nat /\ d \div U <= n /\ d < (d \div U) * U + U
      BY <1>1, <1>2, <1>3, <2>1 DEF MsBetween
    <3>2. (d \div U) * U <= n * U
      BY <1>1, <3>1
    <3> QED
      BY <1>1, <3>1, <3>2
  <2>2. CASE d < 0
    <3>1. n * U >= 0 /\ n * U \in Int
      BY <1>1
    <3> QED
      BY <1>1, <2>2, <3>1
  <2> QED
    BY <1>1, <2>1, <2>2
<1>4. ASSUME MsBetween(later, earlier) >= 0 PROVE d > -U
  <2>1. CASE d >= 0
    BY <1>1, <2>1
  <2>2. CASE d < 0
    <3>1. -d \in Nat /\ (-d) \div U \in Nat /\ -d < ((-d) \div U) * U + U
      BY <1>1, <1>2, <2>2
    <3>2. -((-d) \div U) >= 0
      BY <1>1, <1>4, <2>2 DEF MsBetween
    <3>3. (-d) \div U = 0
      BY <3>1, <3>2
    <3> QED
      BY <1>1, <3>1, <3>3
  <2> QED
    BY <1>1, <2>1, <2>2
<1>5. MsBetween(later, earlier) \in Int
  BY <1>1 DEF MsBetween
<1> QED
  BY <1>3, <1>4, <1>5

\* The completion that a certified receipt states is within the window, and the
\* milliseconds that truncation loses, of the true time of the effect.
CertifiedCompletionIsTimely ==
    \A c \in Calls :
        (result[c] # None /\ Attested(c) /\ AttestRequired(c) /\ Authorized(c)) =>
            /\ result[c].completedAt < AddMs(effectAt[c], WindowMs + 2)
            /\ effectAt[c] < AddMs(result[c].completedAt, WindowMs + 3)

\* attested_clock.py:30-34: a mediator cannot have a completion certified that
\* is off by more than the window and three milliseconds, however wrong its
\* clock is.
THEOREM CertifiedTimesAreTimely ==
    ASSUME NoneIsNoValue PROVE Spec => []CertifiedCompletionIsTimely
<1>1. ReceiptInv => CertifiedCompletionIsTimely
  <2> SUFFICES ASSUME ReceiptInv, NEW c \in Calls, result[c] # None, Attested(c),
                      AttestRequired(c), Authorized(c)
               PROVE  /\ result[c].completedAt < AddMs(effectAt[c], WindowMs + 2)
                      /\ effectAt[c] < AddMs(result[c].completedAt, WindowMs + 3)
    BY DEF CertifiedCompletionIsTimely
  <2> DEFINE tLb == TLower(boundary[c].lowerBoundProof)
             tUb == TUpper(result[c].timeProof)
             verified == boundary[c].verifiedAt
             completed == result[c].completedAt
             effect == effectAt[c]
  <2>1. /\ tLb \in Int /\ tUb \in Int /\ verified \in Int /\ completed \in Int
        /\ effect \in Int /\ tLb <= effect /\ effect <= tUb
        /\ MsBetween(tUb, tLb) <= WindowMs
        /\ SandwichErrors(boundary[c], result[c]) = {}
    BY CertifiedSandwich DEF ReceiptInv, BoundaryTrue, Receipted, CertInv, ResultTrue
  <2>2. /\ MsBetween(verified, tLb) >= 0 /\ MsBetween(completed, verified) >= 0
        /\ MsBetween(tUb, completed) >= 0
    BY <2>1 DEF SandwichErrors, When
  <2>3. UnitsPerMs \in Int /\ WindowMs \in Nat /\ WindowMs * UnitsPerMs \in Int
    BY UnitsPerMsAssumption, MediatorAssumption
  <2>4. /\ tUb - tLb < WindowMs * UnitsPerMs + UnitsPerMs
        /\ verified - tLb > -UnitsPerMs /\ completed - verified > -UnitsPerMs
        /\ tUb - completed > -UnitsPerMs
    BY <2>1, <2>2, <2>3, MsBetweenTruncates
  <2>5. /\ (WindowMs + 2) * UnitsPerMs = WindowMs * UnitsPerMs + 2 * UnitsPerMs
        /\ (WindowMs + 3) * UnitsPerMs = WindowMs * UnitsPerMs + 3 * UnitsPerMs
    BY <2>3
  <2> HIDE DEF tLb, tUb, verified, completed, effect
  <2>6. /\ completed < effect + (WindowMs + 2) * UnitsPerMs
        /\ effect < completed + (WindowMs + 3) * UnitsPerMs
    BY <2>1, <2>3, <2>4, <2>5
  <2> QED
    BY <2>6 DEF AddMs, completed, effect
<1> QED
  BY <1>1, ReceiptInvariant, PTL

-----------------------------------------------------------------------------
(* Heads.                                                                  *)

\* verifier.py:302, 392: of any two heads on record the one with the lower
\* number is the earlier state of the same history.
THEOREM HeadsAreOneHistory == Spec => []HeadsFormOneHistory
<1>1. ReceiptInv => HeadsFormOneHistory
  <2> SUFFICES ASSUME ReceiptInv, NEW c \in Calls, NEW d \in Calls,
                      boundary[c] # None, boundary[d] # None,
                      boundary[c].ledgerHead.sequenceNumber <= boundary[d].ledgerHead.sequenceNumber
               PROVE  boundary[c].ledgerHead.headHash
                        = SubSeq(boundary[d].ledgerHead.headHash, 1,
                                 Len(boundary[c].ledgerHead.headHash))
    BY DEF HeadsFormOneHistory
  <2> DEFINE hist == log.headHash
             m == boundary[c].ledgerHead.sequenceNumber
             n == boundary[d].ledgerHead.sequenceNumber
             Place == [artifactId : Revocable, revokedAt : Instants]
  <2>1. /\ m \in 0..Len(hist) /\ n \in 0..Len(hist)
        /\ boundary[c].ledgerHead.headHash = SubSeq(hist, 1, m)
        /\ boundary[d].ledgerHead.headHash = SubSeq(hist, 1, n)
    BY DEF ReceiptInv, BoundaryTrue, Receipted, CutOf
  <2>2. hist \in Seq(Place) /\ Len(hist) \in Nat
    BY DEF ReceiptInv, CertInv, LogInv, LogTypeOK
  <2>3. m <= n
    OBVIOUS
  <2> HIDE DEF hist, m, n, Place
  <2>4. Len(SubSeq(hist, 1, m)) = m
    BY <2>1, <2>2
  <2>5. SubSeq(SubSeq(hist, 1, n), 1, m) = SubSeq(hist, 1, m)
    BY <2>1, <2>2, <2>3
  <2> QED
    BY <2>1, <2>4, <2>5
<1> QED
  BY <1>1, ReceiptInvariant, PTL

-----------------------------------------------------------------------------
(* The auditor.                                                            *)

\* auditor.py:43-58 with verifier.py:305-546: everything verify_chain decides
\* about a call's receipts it decides of the rebuilt log as of the live one.
SnapshotJudgesAsLive ==
    \A c \in Calls :
        /\ AuthErrors(AuditLog, HumanAuth, Token, boundary[c], result[c], NoLastSequence)
             = Codes(c)
        /\ AuthorizedAtExecution(AuditLog, HumanAuth, Token, boundary[c], result[c],
                                 NoLastSequence) <=> Authorized(c)
        /\ \A t : AuthorityLiveNow(AuditLog, HumanAuth, Token, t)
                      <=> AuthorityLiveNow(log, HumanAuth, Token, t)

\* The verdict an auditor reaches from a bundle is the one the live ledger
\* gives, in every state of the deployment.
THEOREM BundleVerdictsAreLive == Spec => []SnapshotJudgesAsLive
<1>1. CertInv => SnapshotJudgesAsLive
  <2> SUFFICES ASSUME CertInv, NEW c \in Calls
               PROVE  /\ AuthErrors(AuditLog, HumanAuth, Token, boundary[c], result[c],
                                    NoLastSequence)
                           = AuthErrors(log, HumanAuth, Token, boundary[c], result[c],
                                        NoLastSequence)
                      /\ \A t : AuthorityLiveNow(AuditLog, HumanAuth, Token, t)
                                    <=> AuthorityLiveNow(log, HumanAuth, Token, t)
    BY DEF SnapshotJudgesAsLive, Codes, Authorized, AuthorizedAtExecution
  <2>1. /\ AllEntries(AuditLog) = AllEntries(log)
        /\ \A id, t : IsRevokedAt(AuditLog, id, t) <=> IsRevokedAt(log, id, t)
    BY ReplayRestoresTable DEF CertInv, IsRevokedAt, AllEntries
  <2>2. \A t : /\ RevocationErrors(AuditLog, HumanAuth, Token, t)
                    = RevocationErrors(log, HumanAuth, Token, t)
               /\ AuthorityLiveNow(AuditLog, HumanAuth, Token, t)
                    <=> AuthorityLiveNow(log, HumanAuth, Token, t)
    BY <2>1 DEF RevocationErrors, AuthorityLiveNow, When
  <2>3. \A head, t : StaleHeadErrors(AuditLog, head, t) = StaleHeadErrors(log, head, t)
    BY <2>1 DEF StaleHeadErrors
  <2>4. RecomputedErrors(AuditLog, HumanAuth, Token, boundary[c], result[c])
            = RecomputedErrors(log, HumanAuth, Token, boundary[c], result[c])
    BY <2>2 DEF RecomputedErrors, AuthorizationErrors
  <2> QED
    BY <2>2, <2>3, <2>4 DEF AuthErrors, StatusErrors
<1> QED
  BY <1>1, CertInvariant, PTL

==============================================================================
