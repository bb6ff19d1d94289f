----------------------------- MODULE Honest_proofs -----------------------------
(***************************************************************************)
(* The audit agrees with the mediator, in a deployment that fits the        *)
(* chain's rules: it faults no effect for anything but delay, a quorum      *)
(* short of its threshold and a clock that went backwards, and it replays  *)
(* every block as a block, for any calls, revocations and clock error.     *)
(***************************************************************************)
EXTENDS Certificate_proofs, Enforcement_proofs

\* A proof the quorum has given for the nonce, at whatever time.
Stamped(p, nonce) ==
    \E m \in Int, a \in QuorumAnswers : p = TimeProof(nonce, m, RadiusMs, a.signers, a.corrupt)

\* What the evaluation found in order and time cannot change.
SoundRequest(c) ==
    /\ UpstreamErrors(HumanAuth, Token, HashArtifact(HumanAuth)) = {}
    /\ ScopeErrors(HumanAuth, Token, ConnectorCall(c)) = {}
    /\ ExpiryErrors(HumanAuth, Token, work[c].verifiedAt) = {}
    /\ FreshnessErrors(Token, work[c].head, work[c].verifiedAt, FreshnessBound[Row(c).risk]) = {}

HeadGiven(c) ==
    /\ work[c].head.keyId = RevKeyId /\ work[c].head.signedBy = RevKeyId
    /\ work[c].head.sequenceNumber \in Nat

\* The receipts of a call are the ones handle() builds from its locals.
ReceiptsBuilt(c) ==
    /\ pc[c] \in {"evaluate", "issue"} => HeadGiven(c)
    /\ (pc[c] = "issue" /\ work[c].errors = {}) => SoundRequest(c)
    /\ (pc[c] \in Cleared \/ effectAt[c] # None) =>
        /\ HeadGiven(c) /\ SoundRequest(c) /\ work[c].errors = {}
        /\ \E lower : /\ lower = None \/ Stamped(lower, Nonce(c))
                      /\ boundary[c] = BoundaryReceipt(c, lower)
    /\ (effectAt[c] # None /\ result[c] # None) =>
          \E upper : /\ upper = None \/ Stamped(upper, ResultProofNonce(ResultFields(c)))
                     /\ AttestRequired(c) => upper # None
                     /\ result[c] = ResultReceipt(c, upper)
    /\ effectAt[c] # None => work[c].effectRef # None

\* The readings of a right clock come in the order a call takes them.
ReadInOrder(c) ==
    /\ work[c].verifiedAt # None => work[c].verifiedAt <= now
    /\ (work[c].completedAt # None \/ pc[c] = "record") =>
        /\ work[c].verifiedAt \in Int /\ work[c].completedAt \in Int
        /\ work[c].verifiedAt <= work[c].completedAt
    /\ work[c].completedAt # None => pc[c] \in {"record", "returned"}
    /\ result[c] # None => work[c].completedAt # None

\* Only a request of a mapped type gets past the mediator's table.
TypeMapped(c) == (pc[c] \in Underway \/ effectAt[c] # None) => Mapped(c)

HonestInv ==
    /\ CertInv
    /\ \A c \in Calls : ReceiptsBuilt(c) /\ TypeMapped(c)
    /\ ClockErrorMs = 0 => \A c \in Calls : ReadInOrder(c)

-----------------------------------------------------------------------------
(* The invariant.                                                          *)

\* What any proof of the moment is, whatever the moment.
LEMMA ProofsAreStamped ==
    ASSUME NEW nonce, NEW p \in Proofs(nonce)
    PROVE  Stamped(p, nonce)
  BY DEF Proofs, QuorumReadings, Stamped

\* A pass means that every check of the evaluation passed.
LEMMA PassIsSound ==
    ASSUME TypeOK, NEW c \in Calls, Evaluate(c), work'[c].errors = {}
    PROVE  SoundRequest(c)
<1> DEFINE denied == AuthorizationErrors(log, HumanAuth, Token, HashArtifact(HumanAuth),
                         ConnectorCall(c), work[c].head, work[c].verifiedAt,
                         FreshnessBound[Row(c).risk], work[c].verifiedAt)
<1>1. denied = {}
  <2> HIDE DEF denied
  <2>1. \E more : work' = [work EXCEPT ![c].errors = denied \cup more]
    BY DEF Evaluate, denied
  <2>2. DOMAIN work = Calls /\ DOMAIN work[c] = DOMAIN NoWork
    BY DEF TypeOK
  <2> QED
    BY <2>1, <2>2 DEF NoWork
<1> QED
  BY <1>1 DEF AuthorizationErrors, SoundRequest

\* The receipts read only what the later steps of a call leave alone.
SameLocals(c) ==
    /\ work'[c].verifiedAt = work[c].verifiedAt /\ work'[c].head = work[c].head
    /\ work'[c].errors = work[c].errors

LEMMA ReceiptsFrame ==
    ASSUME NEW c \in Calls, SameLocals(c)
    PROVE  /\ SoundRequest(c) => SoundRequest(c)'
           /\ HeadGiven(c) => HeadGiven(c)'
           /\ \A lower : BoundaryReceipt(c, lower)' = BoundaryReceipt(c, lower)
  BY DEF SameLocals, SoundRequest, HeadGiven, BoundaryReceipt, ConnectorCall, Row, Status, Nonce

\* Every step of handle() builds its receipts from its locals as they are.
LEMMA ReceiptsStep ==
    ASSUME NoneIsNoValue, HonestInv, NEW c \in Calls, Begin(c) \/ Continue(c)
    PROVE  ReceiptsBuilt(c)'
<1> USE DEF Cleared
<1>1. /\ TypeOK /\ ReceiptsBuilt(c) /\ CallOrdered(c) /\ LogTypeOK
      /\ pc \in [Calls -> PcValues] /\ effectAt \in [Calls -> Instants \cup {None}]
      /\ DOMAIN work = Calls /\ DOMAIN boundary = Calls /\ DOMAIN result = Calls
      /\ DOMAIN work[c] = DOMAIN NoWork
  BY DEF HonestInv, CertInv, AuditInv, CallInv, TypeOK
<1>2. CASE Bypass(c) \/ ReadClock(c)
  <2>1. /\ pc[c] = "idle" /\ pc'[c] \in {"returned", "raised", "capture"}
        /\ UNCHANGED effectAt
    BY <1>1, <1>2 DEF Bypass, ReadClock, Step
  <2> QED
    BY <1>1, <2>1 DEF CallOrdered, ReceiptsBuilt
<1>3. CASE CaptureHead(c)
  <2>1. /\ pc[c] = "capture" /\ pc'[c] = "evaluate" /\ UNCHANGED effectAt
        /\ work'[c].head = LedgerHead(log, work[c].verifiedAt, RevKeyId)
    BY <1>1, <1>3 DEF CaptureHead, Step, NoWork
  <2>2. HeadGiven(c)'
    BY <1>1, <2>1 DEF HeadGiven, LedgerHead, LogTypeOK
  <2> QED
    BY <1>1, <2>1, <2>2 DEF CallOrdered, ReceiptsBuilt
<1>4. CASE Evaluate(c)
  <2>1. /\ pc[c] = "evaluate" /\ pc'[c] = "issue" /\ UNCHANGED effectAt
        /\ \E errs : work' = [work EXCEPT ![c].errors = errs]
    BY <1>1, <1>4 DEF Evaluate, Step
  <2>2. work'[c].head = work[c].head /\ work'[c].verifiedAt = work[c].verifiedAt
    BY <1>1, <2>1 DEF NoWork
  <2>3. HeadGiven(c)'
    BY <1>1, <2>1, <2>2 DEF ReceiptsBuilt, HeadGiven
  <2>4. work'[c].errors = {} => SoundRequest(c)'
    BY <1>1, <1>4, <2>2, PassIsSound DEF SoundRequest, ConnectorCall, Row
  <2> QED
    BY <1>1, <2>1, <2>3, <2>4 DEF CallOrdered, ReceiptsBuilt
<1>5. CASE Issue(c)
  <2>1. /\ pc[c] = "issue" /\ pc'[c] \in {"returned", "raised", "execute"}
        /\ pc'[c] = "execute" => work[c].errors = {}
        /\ UNCHANGED <<work, effectAt>>
    BY <1>1, <1>5 DEF Issue, Step, Status
  <2>2. PICK lower : /\ lower = None \/ lower \in Proofs(Nonce(c))
                     /\ boundary' = [boundary EXCEPT ![c] = BoundaryReceipt(c, lower)]
    BY <1>5 DEF Issue
  <2>3. lower = None \/ Stamped(lower, Nonce(c))
    BY <2>2, ProofsAreStamped
  <2>4. boundary'[c] = BoundaryReceipt(c, lower)' /\ Nonce(c)' = Nonce(c)
    BY <1>1, <2>1, <2>2, ReceiptsFrame DEF SameLocals, Nonce
  <2>5. /\ HeadGiven(c)'
        /\ work[c].errors = {} => SoundRequest(c)'
    BY <1>1, <2>1, ReceiptsFrame DEF SameLocals, ReceiptsBuilt
  <2> QED
    BY <1>1, <2>1, <2>3, <2>4, <2>5 DEF CallOrdered, ReceiptsBuilt, Stamped
<1>6. CASE Execute(c) \/ Complete(c)
  <2>1. /\ pc[c] \in {"execute", "complete"} /\ pc'[c] \in {"complete", "record"}
        /\ SameLocals(c) /\ UNCHANGED <<boundary, result>>
        /\ effectAt'[c] # None => work'[c].effectRef # None
    BY <1>1, <1>6 DEF Execute, Complete, Step, SameLocals, NoWork, ReceiptsBuilt, NoneIsNoValue
  <2>2. result'[c] = None
    BY <1>1, <2>1 DEF CallOrdered
  <2>3. HeadGiven(c)' /\ SoundRequest(c)' /\ work'[c].errors = {}
    BY <1>1, <2>1, ReceiptsFrame DEF ReceiptsBuilt, SameLocals
  <2>4. \E lower : /\ lower = None \/ Stamped(lower, Nonce(c))
                   /\ boundary'[c] = BoundaryReceipt(c, lower)'
    BY <1>1, <2>1, ReceiptsFrame DEF ReceiptsBuilt
  <2> QED
    BY <2>1, <2>2, <2>3, <2>4 DEF ReceiptsBuilt, Stamped, Nonce
<1>7. CASE Record(c)
  <2>1. /\ pc[c] = "record" /\ pc'[c] = "returned" /\ UNCHANGED <<work, boundary, effectAt>>
    BY <1>1, <1>7 DEF Record, Step
  <2>2. PICK upper : /\ IF AttestRequired(c) THEN upper \in Proofs(ResultProofNonce(ResultFields(c)))
                        ELSE upper = None
                     /\ result' = [result EXCEPT ![c] = ResultReceipt(c, upper)]
    BY <1>7 DEF Record
  <2>3. /\ upper = None \/ Stamped(upper, ResultProofNonce(ResultFields(c)))
        /\ AttestRequired(c) => upper # None
    BY <2>2, ProofsAreStamped DEF Stamped, NoneIsNoValue
  <2>4. result'[c] = ResultReceipt(c, upper)
    BY <1>1, <2>2
  <2>5. /\ ResultFields(c)' = ResultFields(c)
        /\ ResultReceipt(c, upper)' = ResultReceipt(c, upper)
        /\ AttestRequired(c)' = AttestRequired(c)
    BY <2>1 DEF ResultFields, ResultReceipt, ConnectorCall, Row, AttestRequired
  <2>6. /\ \E u : /\ u = None \/ Stamped(u, ResultProofNonce(ResultFields(c)))'
                  /\ AttestRequired(c)' => u # None
                  /\ result'[c] = ResultReceipt(c, u)'
    BY <2>3, <2>4, <2>5 DEF Stamped
  <2>7. /\ HeadGiven(c)' /\ SoundRequest(c)' /\ work'[c].errors = {}
    BY <1>1, <2>1, ReceiptsFrame DEF ReceiptsBuilt, SameLocals
  <2>8. \E lower : /\ lower = None \/ Stamped(lower, Nonce(c))
                   /\ boundary'[c] = BoundaryReceipt(c, lower)'
    BY <1>1, <2>1, ReceiptsFrame DEF ReceiptsBuilt, SameLocals
  <2> QED
    BY <1>1, <2>1, <2>6, <2>7, <2>8 DEF ReceiptsBuilt, Stamped, Nonce
<1> QED
  BY <1>2, <1>3, <1>4, <1>5, <1>6, <1>7 DEF Begin, Continue

\* With a right clock, a call's readings are in the order of its steps.
LEMMA ReadingsStep ==
    ASSUME ClockErrorMs = 0, HonestInv, NEW c \in Calls, Begin(c) \/ Continue(c)
    PROVE  ReadInOrder(c)'
<1> USE DEF Cleared, Underway
<1>1. /\ TypeOK /\ ReadInOrder(c) /\ CallOrdered(c)
      /\ pc \in [Calls -> PcValues] /\ now \in Instants
      /\ DOMAIN work = Calls /\ DOMAIN result = Calls /\ DOMAIN work[c] = DOMAIN NoWork
      /\ pc[c] \in Underway => work[c].verifiedAt \in Instants
      /\ pc[c] = "record" => work[c].completedAt \in Instants
      /\ \A t \in Instants : t # None /\ t \in Int
  BY RevocationAssumption DEF HonestInv, CertInv, AuditInv, CallInv, TypeOK
<1>2. CASE Bypass(c)
  <2>1. pc[c] = "idle" /\ pc'[c] \in {"returned", "raised"} /\ UNCHANGED <<work, result, now>>
    BY <1>1, <1>2 DEF Bypass, Step
  <2> QED
    BY <1>1, <2>1 DEF ReadInOrder
<1>3. CASE ReadClock(c)
  <2>1. /\ pc[c] = "idle" /\ pc'[c] = "capture" /\ UNCHANGED <<result, now>>
        /\ \E t \in ClockReadings : work' = [work EXCEPT ![c].verifiedAt = t]
    BY <1>1, <1>3 DEF ReadClock, Step
  <2>2. work'[c].verifiedAt = now /\ work'[c].completedAt = work[c].completedAt
    BY <1>1, <2>1, RightClock DEF NoWork
  <2> QED
    BY <1>1, <2>1, <2>2 DEF ReadInOrder
<1>4. CASE CaptureHead(c) \/ Evaluate(c) \/ Issue(c) \/ Execute(c)
  <2>1. /\ pc[c] \in {"capture", "evaluate", "issue", "execute"}
        /\ pc'[c] \notin {"record"} /\ UNCHANGED <<result, now>>
        /\ work'[c].verifiedAt = work[c].verifiedAt
        /\ work'[c].completedAt = work[c].completedAt
    BY <1>1, <1>4 DEF CaptureHead, Evaluate, Issue, Execute, Step, NoWork
  <2> QED
    BY <1>1, <2>1 DEF ReadInOrder
<1>5. CASE Complete(c)
  <2>1. /\ pc[c] = "complete" /\ pc'[c] = "record" /\ UNCHANGED <<result, now>>
        /\ \E t \in ClockReadings : work' = [work EXCEPT ![c].completedAt = t]
    BY <1>1, <1>5 DEF Complete, Step
  <2>2. work'[c].completedAt = now /\ work'[c].verifiedAt = work[c].verifiedAt
    BY <1>1, <2>1, RightClock DEF NoWork
  <2> QED
    BY <1>1, <2>1, <2>2 DEF ReadInOrder
<1>6. CASE Record(c)
  <2>1. pc[c] = "record" /\ pc'[c] = "returned" /\ UNCHANGED <<work, now>>
    BY <1>1, <1>6 DEF Record, Step
  <2> QED
    BY <1>1, <2>1 DEF ReadInOrder
<1> QED
  BY <1>2, <1>3, <1>4, <1>5, <1>6 DEF Begin, Continue

\* A call that goes on is of the mapped type it was of.
LEMMA MappedStep ==
    ASSUME HonestInv, NEW c \in Calls, Begin(c) \/ Continue(c)
    PROVE  TypeMapped(c)'
<1> USE DEF Underway, Cleared
<1>1. /\ TypeMapped(c) /\ CallOrdered(c)
      /\ pc \in [Calls -> PcValues] /\ effectAt \in [Calls -> Instants \cup {None}]
  BY DEF HonestInv, CertInv, AuditInv, CallInv, TypeOK
<1>2. CASE Bypass(c)
  <2>1. pc[c] = "idle" /\ pc'[c] \in {"returned", "raised"} /\ UNCHANGED effectAt
    BY <1>1, <1>2 DEF Bypass, Step
  <2> QED
    BY <1>1, <2>1 DEF CallOrdered, TypeMapped
<1>3. CASE ReadClock(c)
  BY <1>3 DEF ReadClock, TypeMapped, Mapped
<1>4. CASE Continue(c)
  <2>1. pc[c] \in Underway
    BY <1>4 DEF Continue, CaptureHead, Evaluate, Issue, Execute, Complete, Record, Step
  <2> QED
    BY <1>1, <2>1 DEF TypeMapped, Mapped
<1> QED
  BY <1>2, <1>3, <1>4 DEF Begin

\* A step that leaves a call's state alone, whatever time does, keeps its part.
LEMMA HonestFrame ==
    ASSUME NEW d \in Calls, ReceiptsBuilt(d), TypeMapped(d),
           now \in Int, now' \in Int, now <= now', work[d].verifiedAt \in Int \cup {None},
           pc'[d] = pc[d], work'[d] = work[d], boundary'[d] = boundary[d],
           result'[d] = result[d], effectAt'[d] = effectAt[d]
    PROVE  ReceiptsBuilt(d)' /\ TypeMapped(d)' /\ (ReadInOrder(d) => ReadInOrder(d)')
<1>1. /\ SoundRequest(d)' = SoundRequest(d) /\ HeadGiven(d)' = HeadGiven(d)
      /\ \A lower : BoundaryReceipt(d, lower)' = BoundaryReceipt(d, lower)
  BY DEF SoundRequest, HeadGiven, BoundaryReceipt, ConnectorCall, Row, Status, Nonce
<1>2. ResultFields(d)' = ResultFields(d)
  BY DEF ResultFields, ConnectorCall, Row
<1>3. /\ \A upper : ResultReceipt(d, upper)' = ResultReceipt(d, upper)
      /\ AttestRequired(d)' = AttestRequired(d)
  BY <1>2 DEF ResultReceipt, AttestRequired, Row
<1>4. \A p, nonce : Stamped(p, nonce)' = Stamped(p, nonce)
  BY DEF Stamped
<1>5. ReceiptsBuilt(d)'
  BY <1>1, <1>2, <1>3, <1>4 DEF ReceiptsBuilt, Nonce
<1>6. ReadInOrder(d) => ReadInOrder(d)'
  BY DEF ReadInOrder
<1>7. TypeMapped(d)'
  BY DEF TypeMapped, Mapped
<1> QED
  BY <1>5, <1>6, <1>7

\* The receipts stay built, and the readings in order, across every step.
LEMMA HonestNext ==
    ASSUME NoneIsNoValue, HonestInv, [Next]_vars
    PROVE  HonestInv'
<1>1. CertInv' /\ TypeOK /\ TypeOK'
  BY CertNext DEF HonestInv, CertInv, AuditInv
<1>2. now \in Int /\ now' \in Int /\ \A d \in Calls : work[d].verifiedAt \in Int \cup {None}
  BY <1>1, RevocationAssumption DEF TypeOK
<1>3. CASE \E c \in Calls : Begin(c) \/ Continue(c)
  <2>1. PICK c \in Calls : Begin(c) \/ Continue(c)
    BY <1>3
  <2>2. now' = now
    BY <2>1 DEF Begin, Continue, Bypass, ReadClock, CaptureHead, Evaluate, Issue, Execute,
                Complete, Record
  <2>3. ReceiptsBuilt(c)' /\ TypeMapped(c)' /\ (ClockErrorMs = 0 => ReadInOrder(c)')
    BY <2>1, ReceiptsStep, ReadingsStep, MappedStep
  <2>4. ASSUME NEW d \in Calls, d # c
        PROVE  ReceiptsBuilt(d)' /\ TypeMapped(d)' /\ (ClockErrorMs = 0 => ReadInOrder(d)')
    <3>1. /\ ReceiptsBuilt(d) /\ TypeMapped(d) /\ (ClockErrorMs = 0 => ReadInOrder(d))
          /\ now <= now'
      BY <1>2, <2>2 DEF HonestInv
    <3>2. /\ pc'[d] = pc[d] /\ work'[d] = work[d] /\ boundary'[d] = boundary[d]
          /\ result'[d] = result[d] /\ effectAt'[d] = effectAt[d]
      BY <1>1, <2>1, <2>4, OthersUntouched
    <3> QED
      BY <1>2, <3>1, <3>2, HonestFrame
  <2> QED
    BY <1>1, <2>3, <2>4 DEF HonestInv
<1>4. CASE RecordRevocation \/ Tick \/ UNCHANGED vars
  <2>1. /\ UNCHANGED <<pc, work, boundary, result, effectAt>>
        /\ now <= now'
    BY <1>2, <1>4 DEF RecordRevocation, Tick, vars
  <2>2. ASSUME NEW d \in Calls
        PROVE  ReceiptsBuilt(d)' /\ TypeMapped(d)' /\ (ClockErrorMs = 0 => ReadInOrder(d)')
    BY <1>2, <2>1, HonestFrame DEF HonestInv
  <2> QED
    BY <1>1, <2>2 DEF HonestInv
<1> QED
  BY <1>3, <1>4 DEF Next

\* No receipt is built, and no clock read, when the world is built.
LEMMA HonestInit == Init => HonestInv
<1> SUFFICES ASSUME Init PROVE HonestInv
  OBVIOUS
<1>1. CertInv
  BY CertInit
<1>2. ASSUME NEW c \in Calls PROVE ReceiptsBuilt(c) /\ ReadInOrder(c) /\ TypeMapped(c)
  BY DEF Init, NoWork, ReceiptsBuilt, ReadInOrder, TypeMapped, Underway, Cleared
<1> QED
  BY <1>1, <1>2 DEF HonestInv

\* Every receipt of every call is the one its locals give (mediator.py:152-266).
THEOREM HonestInvariant == ASSUME NoneIsNoValue PROVE Spec => []HonestInv
<1>1. HonestInv /\ [Next]_vars => HonestInv'
  BY HonestNext
<1> QED
  BY <1>1, HonestInit, PTL DEF Spec

-----------------------------------------------------------------------------
(* The verdict on an honest effect.                                        *)

\* The fields of the receipts of an effect, by the names the audit uses.
LEMMA EffectReceipts ==
    ASSUME HonestInv, NEW c \in Calls, effectAt[c] # None, result[c] # None
    PROVE  LET b == boundary[c]
               r == result[c]
           IN  /\ b.status = "PRE_EFFECT" /\ b.verdict = "PASS"
               /\ b.rootReceiptId = HumanAuth.receiptId
               /\ b.rootReceiptHash = HashArtifact(HumanAuth)
               /\ b.tokenHash = HashArtifact(Token)
               /\ b.executingAgent = AgentId /\ b.executingAgentKeyId = KeyId
               /\ b.signedBy = KeyId /\ b.policyHash = PolicyHash(HumanAuth, Token)
               /\ b.request = ConnectorCall(c) /\ b.nonce = Nonce(c)
               /\ b.verifiedAt = work[c].verifiedAt /\ b.issuedAt = work[c].verifiedAt
               /\ b.ledgerHead = work[c].head /\ b.maxAgeMs = FreshnessBound[Row(c).risk]
               /\ b.lowerBoundProof = None \/ Stamped(b.lowerBoundProof, b.nonce)
               /\ r.executingAgentKeyId = KeyId /\ r.signedBy = KeyId
               /\ r.boundaryReceiptHash = HashArtifact(b)
               /\ r.observedRequest = ConnectorCall(c)
               /\ r.completedAt = work[c].completedAt /\ r.effectRef # None
               /\ r.timeProof = None \/ Stamped(r.timeProof, ResultProofNonce(r))
               /\ AttestRequired(c) => r.timeProof # None
<1>1. /\ work[c].errors = {} /\ work[c].effectRef # None
      /\ \E lower : /\ lower = None \/ Stamped(lower, Nonce(c))
                    /\ boundary[c] = BoundaryReceipt(c, lower)
      /\ \E upper : /\ upper = None \/ Stamped(upper, ResultProofNonce(ResultFields(c)))
                    /\ AttestRequired(c) => upper # None
                    /\ result[c] = ResultReceipt(c, upper)
  BY DEF HonestInv, ReceiptsBuilt
<1>2. PICK lower : /\ lower = None \/ Stamped(lower, Nonce(c))
                   /\ boundary[c] = BoundaryReceipt(c, lower)
  BY <1>1
<1>3. PICK upper : /\ upper = None \/ Stamped(upper, ResultProofNonce(ResultFields(c)))
                   /\ AttestRequired(c) => upper # None
                   /\ result[c] = ResultReceipt(c, upper)
  BY <1>1
<1>4. /\ result[c].timeProof = upper /\ result[c].signedBy = KeyId
      /\ result[c].executingAgentKeyId = KeyId
      /\ result[c].boundaryReceiptHash = HashArtifact(boundary[c])
      /\ result[c].observedRequest = ConnectorCall(c)
      /\ result[c].completedAt = work[c].completedAt
      /\ result[c].effectRef = work[c].effectRef
  BY <1>3 DEF ResultReceipt, ResultFields
<1>5. ResultProofNonce(result[c]) = ResultProofNonce(ResultFields(c))
  <2>1. /\ DOMAIN ResultFields(c) = RESULT_NONCE_FIELDS
        /\ DOMAIN result[c] = RESULT_NONCE_FIELDS \cup {"timeProof", "signedBy"}
    BY <1>3 DEF ResultReceipt, ResultFields, RESULT_NONCE_FIELDS
  <2>2. \A f \in RESULT_NONCE_FIELDS : result[c][f] = ResultFields(c)[f]
    <3>1. \A f \in RESULT_NONCE_FIELDS : f # "timeProof" /\ f # "signedBy"
      BY DEF RESULT_NONCE_FIELDS
    <3> QED
      BY <1>3, <2>1, <3>1 DEF ResultReceipt
  <2>3. /\ DOMAIN result[c] \cap RESULT_NONCE_FIELDS = RESULT_NONCE_FIELDS
        /\ DOMAIN ResultFields(c) \cap RESULT_NONCE_FIELDS = RESULT_NONCE_FIELDS
    BY <2>1
  <2>4. [f \in RESULT_NONCE_FIELDS |-> result[c][f]]
            = [f \in RESULT_NONCE_FIELDS |-> ResultFields(c)[f]]
    BY <2>2
  <2> QED
    BY <2>3, <2>4 DEF ResultProofNonce
<1>6. /\ boundary[c].lowerBoundProof = lower /\ boundary[c].nonce = Nonce(c)
      /\ boundary[c].status = "PRE_EFFECT" /\ boundary[c].verdict = "PASS"
  BY <1>1, <1>2 DEF BoundaryReceipt, Status
<1> QED
  BY <1>1, <1>2, <1>3, <1>4, <1>5, <1>6 DEF BoundaryReceipt

\* What verify_time_proof holds against a proof of the deployed quorum: its
\* radius, which is a matter of delay, or too few good signatures.
LEMMA StampedProofFaults ==
    ASSUME WellDeployed, NEW p, NEW nonce, Stamped(p, nonce)
    PROVE  ProofErrors(p, nonce) \subseteq
               DelayCodes \cup (IF Attesting(p) THEN {} ELSE QuorumCodes)
<1>1. PICK m \in Int, a \in QuorumAnswers :
          p = TimeProof(nonce, m, RadiusMs, a.signers, a.corrupt)
  BY DEF Stamped
<1>2. p.nonce = nonce /\ p.signatures = {[keyId |-> k, valid |-> k \notin a.corrupt] : k \in a.signers}
  BY <1>1 DEF TimeProof
<1>3. AuthoritySignatures(Keys, p) = p.signatures
  BY <1>2 DEF AuthoritySignatures, WellDeployed, OwnedBy
<1>4. ValidAuthorities(Keys, p) = Signers(p)
  BY <1>3 DEF ValidAuthorities, Signers
<1> QED
  BY <1>2, <1>4 DEF ProofErrors, VerifyTimeProof, When, Attesting, DelayCodes, QuorumCodes

\* A revocation the effect's instant precedes does not touch the chain.
LEMMA NothingRevoked ==
    ASSUME HonestInv, NEW c \in Calls, result[c] # None, Undisturbed(c)
    PROVE  LET instant == EffectiveInstant(boundary[c], result[c])
           IN  /\ \A head : StaleHeadErrors(log, head, instant) = {}
               /\ RevocationErrors(log, HumanAuth, Token, instant) = {}
<1> DEFINE instant == EffectiveInstant(boundary[c], result[c])
<1>1. instant \in Int
  BY JudgedAtAnInstant DEF HonestInv
<1>2. \A e \in AllEntries(log) : e.revokedAt \in Int
  BY RevocationAssumption DEF HonestInv, CertInv, LogInv, LogTypeOK, Entry, AllEntries
<1>3. \A e \in AllEntries(log) : ~(MsBetween(instant, e.revokedAt) >= 0)
  <2> SUFFICES ASSUME NEW e \in AllEntries(log) PROVE ~(MsBetween(instant, e.revokedAt) >= 0)
    OBVIOUS
  <2>1. MsBetween(instant, e.revokedAt) < 0
    BY DEF Undisturbed, TakesEffectAfter
  <2>2. MsBetween(instant, e.revokedAt) \in Int
    BY <1>1, <1>2, UnitsPerMsAssumption DEF MsBetween
  <2> QED
    BY <2>1, <2>2
<1>4. \A e \in AllEntries(log) : ~(e.revokedAt <= instant)
  BY <1>1, <1>2, <1>3, NotAfter
<1>5. \A id : ~IsRevokedAt(log, id, instant)
  BY <1>4 DEF IsRevokedAt, AllEntries
<1> QED
  BY <1>3, <1>5 DEF StaleHeadErrors, RevocationErrors, When

\* The signatures, owners and digests of an honest chain.
LEMMA HonestChainIntact ==
    ASSUME WellDeployed, HonestInv, NEW c \in Calls, effectAt[c] # None, result[c] # None
    PROVE  ChainIntact(HumanAuth, Token, boundary[c], result[c])
<1>1. UpstreamErrors(HumanAuth, Token, HashArtifact(HumanAuth)) = {}
  BY DEF HonestInv, ReceiptsBuilt, SoundRequest
<1>2. /\ VerifySignature(HumanAuth.issuerKeyId, HumanAuth)
      /\ VerifySignature(Token.issuerKeyId, Token)
      /\ CheckKey(HumanAuth.issuerKeyId, GOVERNANCE_OWNER, HumanAuth.issuedAt,
                  "ISSUER_KEY_REVOKED", "ISSUER_KEY_EXPIRED") = {}
  BY <1>1 DEF UpstreamErrors, When
<1>3. OwnedBy(HumanAuth.issuerKeyId, GOVERNANCE_OWNER)
  BY <1>2 DEF CheckKey, KeyStatusAt, VerifySignature, When
<1>4. /\ VerifySignature(boundary[c].executingAgentKeyId, boundary[c])
      /\ VerifySignature(result[c].executingAgentKeyId, result[c])
      /\ OwnedBy(boundary[c].executingAgentKeyId, boundary[c].executingAgent)
  BY EffectReceipts DEF WellDeployed, OwnedBy, VerifySignature
<1> QED
  BY <1>2, <1>3, <1>4, EffectReceipts DEF WellDeployed, ChainIntact, IntactErrors, When

\* Where the audit needs an attestation the mediator has asked for it.
LEMMA AttestedIsRequired ==
    ASSUME WellDeployed, HonestInv, NEW c \in Calls, effectAt[c] # None, result[c] # None,
           NeedsAttestation(boundary[c], result[c])
    PROVE  Attested(c) /\ AttestRequired(c)
<1>1. Mapped(c)
  BY DEF HonestInv, TypeMapped
<1>2. AttestationThreshold > 0 /\ RiskOf(Row(c).action) = "HIGH"
  <2>1. boundary[c].request = ConnectorCall(c)
    BY EffectReceipts
  <2> QED
    BY <2>1 DEF NeedsAttestation, ConnectorCall
<1> QED
  BY <1>1, <1>2 DEF WellDeployed, Attested, AttestRequired, Mapped, Row

\* What the attestation of an honest effect may lack.
LEMMA HonestAttestation ==
    ASSUME WellDeployed, HonestInv, NEW c \in Calls, effectAt[c] # None, result[c] # None
    PROVE  AttestationErrors(boundary[c], result[c]) \subseteq
               DelayCodes \cup (IF QuorumKept(c) THEN {} ELSE QuorumCodes)
<1> DEFINE b == boundary[c]
           r == result[c]
           allowed == DelayCodes \cup (IF QuorumKept(c) THEN {} ELSE QuorumCodes)
<1> SUFFICES ASSUME NeedsAttestation(b, r) PROVE AttestationErrors(b, r) \subseteq allowed
  BY DEF AttestationErrors
<1>1. r.timeProof # None
  BY AttestedIsRequired, EffectReceipts
<1>2. UpperProofErrors(r) \subseteq allowed
  <2>1. Stamped(r.timeProof, ResultProofNonce(r))
    BY <1>1, EffectReceipts
  <2>2. QuorumKept(c) => Attesting(r.timeProof)
    BY <1>1 DEF QuorumKept
  <2> QED
    BY <1>1, <2>1, <2>2, StampedProofFaults DEF UpperProofErrors
<1>3. LowerProofErrors(b, r) \subseteq allowed
  <2>1. CASE b.lowerBoundProof = None
    BY <2>1 DEF LowerProofErrors
  <2>2. CASE b.lowerBoundProof # None
    <3>1. Stamped(b.lowerBoundProof, b.nonce)
      BY <2>2, EffectReceipts
    <3>2. QuorumKept(c) => Attesting(b.lowerBoundProof)
      BY <2>2 DEF QuorumKept
    <3> QED
      BY <1>1, <2>2, <3>1, <3>2, StampedProofFaults DEF LowerProofErrors
  <2> QED
    BY <2>1, <2>2
<1>4. SandwichErrors(b, r) \subseteq allowed
  BY DEF SandwichErrors, When, DelayCodes
<1>5. r.effectRef # None
  BY EffectReceipts
<1> QED
  BY <1>2, <1>3, <1>4, <1>5 DEF AttestationErrors, When

\* Apart from its attestation and a revocation, an honest effect is faulted for
\* nothing but a clock that went backwards.
LEMMA HonestDecisionReplays ==
    ASSUME WellDeployed, HonestInv, NEW c \in Calls, effectAt[c] # None, result[c] # None,
           RevocationErrors(log, HumanAuth, Token,
                            EffectiveInstant(boundary[c], result[c])) = {}
    PROVE  /\ HeadErrors(boundary[c], NoLastSequence) = {}
           /\ RecomputedErrors(log, HumanAuth, Token, boundary[c], result[c]) = {}
           /\ StatusErrors(log, HumanAuth, Token, boundary[c], result[c]) = {}
           /\ ResultErrors(boundary[c], result[c])
                  \subseteq (IF ClockErrorMs = 0 THEN {} ELSE ClockCodes)
<1> DEFINE b == boundary[c]
           r == result[c]
           instant == EffectiveInstant(b, r)
<1>1. SoundRequest(c) /\ HeadGiven(c)
  BY DEF HonestInv, ReceiptsBuilt
<1>2. RevocationErrors(log, HumanAuth, Token, instant) = {}
  OBVIOUS
<1>3. HeadErrors(b, NoLastSequence) = {}
  <2>1. /\ b.ledgerHead.keyId = RevKeyId /\ b.ledgerHead.signedBy = RevKeyId
        /\ b.ledgerHead.sequenceNumber \in Nat
    BY <1>1, EffectReceipts DEF HeadGiven
  <2>2. ~(MsBetween(b.verifiedAt, b.ledgerHead.capturedAt) > b.maxAgeMs)
    BY <1>1, EffectReceipts DEF SoundRequest, FreshnessErrors, When
  <2>3. ~(b.ledgerHead.sequenceNumber < NoLastSequence)
    BY <2>1 DEF NoLastSequence
  <2> QED
    BY <2>1, <2>2, <2>3 DEF HeadErrors, WellDeployed, OwnedBy, VerifySignature, When
<1>4. RecomputedErrors(log, HumanAuth, Token, b, r) = {}
  BY <1>1, <1>2, EffectReceipts DEF RecomputedErrors, AuthorizationErrors, SoundRequest
<1>5. StatusErrors(log, HumanAuth, Token, b, r) = {}
  BY <1>4, EffectReceipts DEF StatusErrors, When
<1>6. ResultErrors(b, r) \subseteq (IF ClockErrorMs = 0 THEN {} ELSE ClockCodes)
  <2>1. ASSUME ClockErrorMs = 0 PROVE ~(MsBetween(r.completedAt, b.issuedAt) < 0)
    <3>1. /\ work[c].verifiedAt \in Int /\ work[c].completedAt \in Int
          /\ work[c].verifiedAt <= work[c].completedAt
      BY <2>1 DEF HonestInv, ReadInOrder
    <3>2. /\ MsBetween(r.completedAt, b.issuedAt) >= 0
          /\ MsBetween(r.completedAt, b.issuedAt) \in Int
      BY <3>1, EffectReceipts, NotAfter, UnitsPerMsAssumption DEF MsBetween
    <3> QED
      BY <3>2
  <2> QED
    BY <2>1, EffectReceipts DEF ResultErrors, ClockCodes, When
<1> QED
  BY <1>3, <1>4, <1>5, <1>6

\* Of an honest effect whose own receipt and token are unrevoked at its instant
\* only its head can be faulted besides.
LEMMA HonestEffectFaults ==
    ASSUME WellDeployed, HonestInv, NEW c \in Calls, effectAt[c] # None, result[c] # None,
           RevocationErrors(log, HumanAuth, Token,
                            EffectiveInstant(boundary[c], result[c])) = {}
    PROVE  /\ ChainIntact(HumanAuth, Token, boundary[c], result[c])
           /\ Codes(c) \subseteq CostsOfCircumstance(c)
                  \cup StaleHeadErrors(log, boundary[c].ledgerHead,
                                       EffectiveInstant(boundary[c], result[c]))
  BY HonestDecisionReplays, HonestChainIntact, HonestAttestation
     DEF Codes, AuthErrors, CostsOfCircumstance

\* auditor.py:149-186 and verifier.py:305-546: an effect no revocation of any
\* artifact precedes is faulted for nothing but delay, missing authorities and,
\* if the mediator's clock is wrong, a clock that went backwards, however the
\* calls overlap.
THEOREM HonestEffectsAuditClean ==
    ASSUME WellDeployed, NoneIsNoValue
    PROVE  Spec => []HonestEffectAuditsClean
<1>1. HonestInv => HonestEffectAuditsClean
  <2> SUFFICES ASSUME HonestInv, NEW c \in Calls, effectAt[c] # None, result[c] # None,
                      Undisturbed(c)
               PROVE  /\ ChainIntact(HumanAuth, Token, boundary[c], result[c])
                      /\ Codes(c) \subseteq CostsOfCircumstance(c)
    BY DEF HonestEffectAuditsClean
  <2> QED
    BY NothingRevoked, HonestEffectFaults
<1> QED
  BY <1>1, HonestInvariant, PTL

\* The stale-head check reports one code.
LEMMA StaleHeadCode ==
    \A head, t : StaleHeadErrors(log, head, t) \subseteq {"STALE_HEAD_VS_KNOWN_REVOCATION"}
  BY DEF StaleHeadErrors, When

\* ledgers.py:121-123 and verifier.py:461-482: a revocation later than the instant
\* an honest effect is judged at never costs it its authority, for any clock
\* unit; the truncated comparison of the stale-head check may cost it the head.
THEOREM LaterRevocationsCostHeadOnly ==
    ASSUME WellDeployed, NoneIsNoValue
    PROVE  Spec => []LaterRevocationCostsHeadOnly
<1>1. HonestInv => LaterRevocationCostsHeadOnly
  <2> SUFFICES ASSUME HonestInv, NEW c \in Calls, effectAt[c] # None, result[c] # None,
                      AuthorityLiveNow(log, HumanAuth, Token,
                                       EffectiveInstant(boundary[c], result[c]))
               PROVE  /\ ChainIntact(HumanAuth, Token, boundary[c], result[c])
                      /\ Codes(c) \subseteq CostsOfCircumstance(c)
                                              \cup {"STALE_HEAD_VS_KNOWN_REVOCATION"}
    BY DEF LaterRevocationCostsHeadOnly
  <2>1. RevocationErrors(log, HumanAuth, Token, EffectiveInstant(boundary[c], result[c])) = {}
    BY DEF RevocationErrors, AuthorityLiveNow, When
  <2>2. /\ ChainIntact(HumanAuth, Token, boundary[c], result[c])
        /\ Codes(c) \subseteq CostsOfCircumstance(c)
               \cup StaleHeadErrors(log, boundary[c].ledgerHead,
                                    EffectiveInstant(boundary[c], result[c]))
    BY <2>1, HonestEffectFaults
  <2> QED
    BY <2>2, StaleHeadCode
<1> QED
  BY <1>1, HonestInvariant, PTL

\* What the revocation of an artifact that is not the chain's own costs it.
UnrelatedRevocationCostsHead ==
    \A c \in Calls :
        (effectAt[c] # None /\ result[c] # None /\ UpstreamIds \cap DOMAIN log.entries = {})
        => /\ ChainIntact(HumanAuth, Token, boundary[c], result[c])
           /\ Codes(c) \subseteq CostsOfCircumstance(c) \cup {"STALE_HEAD_VS_KNOWN_REVOCATION"}

\* verifier.py:461-482: revocations of other artifacts can cost an honest effect
\* its head and nothing else, where UnrelatedRevocationHarmless has them cost
\* nothing.
THEOREM UnrelatedRevocationsCostHead ==
    ASSUME WellDeployed, NoneIsNoValue
    PROVE  Spec => []UnrelatedRevocationCostsHead
<1>1. HonestInv => UnrelatedRevocationCostsHead
  <2> SUFFICES ASSUME HonestInv, NEW c \in Calls, effectAt[c] # None, result[c] # None,
                      UpstreamIds \cap DOMAIN log.entries = {}
               PROVE  /\ ChainIntact(HumanAuth, Token, boundary[c], result[c])
                      /\ Codes(c) \subseteq CostsOfCircumstance(c)
                                              \cup {"STALE_HEAD_VS_KNOWN_REVOCATION"}
    BY DEF UnrelatedRevocationCostsHead
  <2>1. \A t : RevocationErrors(log, HumanAuth, Token, t) = {}
    BY DEF RevocationErrors, IsRevokedAt, UpstreamIds, When
  <2>2. /\ ChainIntact(HumanAuth, Token, boundary[c], result[c])
        /\ Codes(c) \subseteq CostsOfCircumstance(c)
               \cup StaleHeadErrors(log, boundary[c].ledgerHead,
                                    EffectiveInstant(boundary[c], result[c]))
    BY <2>1, HonestEffectFaults
  <2> QED
    BY <2>2, StaleHeadCode
<1> QED
  BY <1>1, HonestInvariant, PTL

-----------------------------------------------------------------------------
(* A prompt effect is certified.                                           *)

\* Milliseconds in clock units.
Units(ms) == ms * UnitsPerMs

\* How close the lower-bound proof of an attested effect is to the receipt that
\* quotes it and to the effect.
LowerTight(c) ==
    LET tLb == TLower(boundary[c].lowerBoundProof)
    IN  (Receipted(c) /\ AttestRequired(c) /\ boundary[c].status = "PRE_EFFECT") =>
            /\ tLb + Units(RadiusMs) - Units(QuorumErrorMs) <= now
            /\ effectAt[c] # None =>
                  tLb + Units(RadiusMs) - Units(QuorumErrorMs) <= effectAt[c]
            /\ ClockErrorMs = 0 =>
                  boundary[c].verifiedAt <= tLb + Units(RadiusMs) + Units(QuorumErrorMs)

\* A right clock has not read a completion that is still to come.
CompletionPast(c) ==
    (ClockErrorMs = 0 /\ work[c].completedAt # None) => work[c].completedAt <= now

PromptInv ==
    /\ HonestInv /\ ReceiptInv
    /\ \A c \in Calls : LowerTight(c) /\ CompletionPast(c)

LEMMA UnitsInt ==
    /\ Units(RadiusMs) \in Int /\ Units(QuorumErrorMs) \in Int
    /\ Units(QuorumErrorMs) <= Units(RadiusMs)
    /\ \A t \in Int : AddMs(t, -RadiusMs) = t - Units(RadiusMs)
    /\ \A t \in Int, n \in Int : AddMs(t, n) = t + Units(n)
    /\ Units(RadiusMs - QuorumErrorMs) = Units(RadiusMs) - Units(QuorumErrorMs)
    /\ Units(2 * (RadiusMs + QuorumErrorMs)) = 2 * Units(RadiusMs) + 2 * Units(QuorumErrorMs)
<1>1. RadiusMs \in Int /\ QuorumErrorMs \in Int /\ UnitsPerMs \in Int
  BY MediatorAssumption, UnitsPerMsAssumption
<1>2. \A a \in Int, b \in Int, u \in Int :
          /\ (-a) * u = -(a * u) /\ (a - b) * u = a * u - b * u
          /\ (2 * (a + b)) * u = 2 * (a * u) + 2 * (b * u)
  OBVIOUS
<1>3. \A t \in Int : AddMs(t, -RadiusMs) = t - Units(RadiusMs)
  <2>1. (-RadiusMs) * UnitsPerMs = -Units(RadiusMs) /\ Units(RadiusMs) \in Int
    BY <1>1, <1>2 DEF Units
  <2> QED
    BY <2>1 DEF AddMs
<1>4. \A t \in Int, n \in Int : AddMs(t, n) = t + Units(n)
  BY DEF AddMs, Units
<1> QED
  BY <1>1, <1>2, <1>3, <1>4, QuorumErrs DEF Units

\* Both ends of an honest proof are within the radius and the error of the
\* instant it was asked for, and its lower end is at least their difference off.
LEMMA ProofIsTight ==
    ASSUME now \in Instants, NEW nonce, NEW p \in Proofs(nonce)
    PROVE  /\ TLower(p) + Units(RadiusMs) - Units(QuorumErrorMs) <= now
           /\ now <= TLower(p) + Units(RadiusMs) + Units(QuorumErrorMs)
           /\ TUpper(p) <= now + Units(RadiusMs) + Units(QuorumErrorMs)
<1>1. PICK m \in QuorumReadings, a \in QuorumAnswers :
          p = TimeProof(nonce, m, RadiusMs, a.signers, a.corrupt)
  BY DEF Proofs
<1>2. TLower(p) = AddMs(m, -RadiusMs) /\ TUpper(p) = AddMs(m, RadiusMs)
  BY <1>1 DEF TLower, TUpper, TimeProof
<1>3. /\ now \in Int /\ m \in Int
      /\ now <= m + Units(QuorumErrorMs) /\ m <= now + Units(QuorumErrorMs)
  BY <1>1, QuorumErrs, RevocationAssumption DEF Units
<1>4. TLower(p) = m - Units(RadiusMs) /\ TUpper(p) = m + Units(RadiusMs)
  BY <1>2, <1>3, UnitsInt, MediatorAssumption
<1> QED
  BY <1>3, <1>4, UnitsInt

\* A step of a call keeps its lower bound tight and its completion past.
LEMMA PromptStep ==
    ASSUME PromptInv, NEW c \in Calls, Begin(c) \/ Continue(c)
    PROVE  LowerTight(c)' /\ CompletionPast(c)'
<1> USE DEF Cleared
<1>1. /\ LowerTight(c) /\ CompletionPast(c) /\ CallOrdered(c) /\ now \in Instants /\ now \in Int
      /\ ClockErrorMs = 0 => ReadInOrder(c)
      /\ pc \in [Calls -> PcValues] /\ effectAt \in [Calls -> Instants \cup {None}]
      /\ DOMAIN work = Calls /\ DOMAIN boundary = Calls /\ DOMAIN result = Calls
      /\ DOMAIN work[c] = DOMAIN NoWork
      /\ pc[c] \in Underway => work[c].verifiedAt \in Int /\ work[c].verifiedAt # None
  BY RevocationAssumption
     DEF PromptInv, ReceiptInv, HonestInv, CertInv, AuditInv, CallInv, TypeOK
<1>2. UNCHANGED now /\ AttestRequired(c)' = AttestRequired(c)
  BY DEF Begin, Continue, Bypass, ReadClock, CaptureHead, Evaluate, Issue, Execute, Complete,
         Record, AttestRequired, Row
<1>3. CASE Bypass(c) \/ ReadClock(c) \/ CaptureHead(c) \/ Evaluate(c)
  <2>1. /\ UNCHANGED <<boundary, result, effectAt>>
        /\ pc[c] \notin Cleared /\ pc'[c] \notin Cleared
        /\ work'[c].completedAt = work[c].completedAt
    BY <1>1, <1>3 DEF Bypass, ReadClock, CaptureHead, Evaluate, Step, NoWork
  <2> QED
    BY <1>1, <1>2, <2>1 DEF LowerTight, CompletionPast, Receipted
<1>4. CASE Issue(c)
  <2>1. /\ pc[c] = "issue" /\ UNCHANGED <<work, result, effectAt>>
    BY <1>4 DEF Issue, Step
  <2>2. PICK lower : /\ IF Status(c) = "PRE_EFFECT" /\ AttestRequired(c)
                        THEN lower \in Proofs(Nonce(c)) ELSE lower = None
                     /\ boundary' = [boundary EXCEPT ![c] = BoundaryReceipt(c, lower)]
    BY <1>4 DEF Issue
  <2>3. /\ boundary'[c].verifiedAt = work[c].verifiedAt
        /\ boundary'[c].lowerBoundProof = lower /\ boundary'[c].status = Status(c)
    BY <1>1, <2>2 DEF BoundaryReceipt
  <2>4. effectAt'[c] = None
    BY <1>1, <2>1 DEF CallOrdered
  <2>5. /\ work[c].verifiedAt \in Int
        /\ ClockErrorMs = 0 => work[c].verifiedAt <= now
    BY <1>1, <2>1 DEF ReadInOrder, Underway
  <2>6. ASSUME lower \in Proofs(Nonce(c)) PROVE LowerTight(c)'
    <3>1. /\ TLower(lower) + Units(RadiusMs) - Units(QuorumErrorMs) <= now
          /\ now <= TLower(lower) + Units(RadiusMs) + Units(QuorumErrorMs)
          /\ TLower(lower) \in Int
      BY <1>1, <2>6, ProofIsTight, ProofIsLowerBound
    <3>2. ClockErrorMs = 0 =>
              work[c].verifiedAt <= TLower(lower) + Units(RadiusMs) + Units(QuorumErrorMs)
      BY <1>1, <2>5, <3>1, UnitsInt
    <3> QED
      BY <1>2, <2>3, <2>4, <3>1, <3>2 DEF LowerTight, Units
  <2> QED
    BY <1>1, <1>2, <2>1, <2>2, <2>3, <2>6 DEF LowerTight, CompletionPast
<1>5. CASE Execute(c)
  <2>1. /\ pc[c] = "execute" /\ UNCHANGED <<boundary, result>>
        /\ effectAt'[c] \in {effectAt[c], now}
        /\ work'[c].completedAt = work[c].completedAt
    BY <1>1, <1>5 DEF Execute, Step, NoWork
  <2> QED
    BY <1>1, <1>2, <2>1 DEF LowerTight, CompletionPast, Receipted, Units
<1>6. CASE Complete(c) \/ Record(c)
  <2>1. /\ pc[c] \in {"complete", "record"} /\ UNCHANGED <<boundary, effectAt>>
        /\ \/ work'[c].completedAt = work[c].completedAt
           \/ \E t \in ClockReadings : work'[c].completedAt = t
    BY <1>1, <1>6 DEF Complete, Record, Step, NoWork
  <2>2. CompletionPast(c)'
    BY <1>1, <1>2, <2>1, RightClock DEF CompletionPast
  <2> QED
    BY <1>1, <1>2, <2>1, <2>2 DEF LowerTight, Receipted, Units
<1> QED
  BY <1>3, <1>4, <1>5, <1>6 DEF Begin, Continue

\* The bounds hold across every step of the system.
LEMMA PromptNext ==
    ASSUME NoneIsNoValue, PromptInv, [Next]_vars
    PROVE  PromptInv'
<1>1. HonestInv' /\ ReceiptInv' /\ TypeOK /\ TypeOK'
  BY HonestNext, ReceiptNext DEF PromptInv, ReceiptInv, CertInv, AuditInv
<1>2. now \in Int /\ now' \in Int
  BY <1>1, RevocationAssumption DEF TypeOK
<1>3. ASSUME NEW d \in Calls, now <= now',
             pc'[d] = pc[d], work'[d] = work[d], boundary'[d] = boundary[d],
             result'[d] = result[d], effectAt'[d] = effectAt[d]
      PROVE  LowerTight(d)' /\ CompletionPast(d)'
  <2>1. /\ LowerTight(d) /\ CompletionPast(d)
        /\ Receipted(d)' = Receipted(d) /\ AttestRequired(d)' = AttestRequired(d)
    BY <1>3 DEF PromptInv, Receipted, AttestRequired, Row
  <2>2. Receipted(d) /\ AttestRequired(d) /\ boundary[d].status = "PRE_EFFECT"
            => TLower(boundary[d].lowerBoundProof) \in Int
    BY DEF PromptInv, ReceiptInv, BoundaryTrue, LowerTrue
  <2>3. LowerTight(d)'
    BY <1>2, <1>3, <2>1, <2>2, UnitsInt DEF LowerTight, Units
  <2>4. work[d].completedAt # None => work[d].completedAt \in Int
    BY <1>1, RevocationAssumption DEF TypeOK
  <2>5. CompletionPast(d)'
    BY <1>2, <1>3, <2>1, <2>4 DEF CompletionPast
  <2> QED
    BY <2>3, <2>5
<1>4. CASE \E c \in Calls : Begin(c) \/ Continue(c)
  <2>1. PICK c \in Calls : Begin(c) \/ Continue(c)
    BY <1>4
  <2>2. now' = now
    BY <2>1 DEF Begin, Continue, Bypass, ReadClock, CaptureHead, Evaluate, Issue, Execute,
                Complete, Record
  <2>3. ASSUME NEW d \in Calls, d # c PROVE LowerTight(d)' /\ CompletionPast(d)'
    BY <1>1, <1>2, <1>3, <2>1, <2>2, <2>3, OthersUntouched
  <2> QED
    BY <1>1, <2>1, <2>3, PromptStep DEF PromptInv
<1>5. CASE RecordRevocation \/ Tick \/ UNCHANGED vars
  BY <1>1, <1>2, <1>3, <1>5 DEF RecordRevocation, Tick, vars, PromptInv
<1> QED
  BY <1>4, <1>5 DEF Next

\* mediator.py:157-164, 232-246: the lower bound of every attested receipt was
\* asked for after the verification and before the effect.
THEOREM PromptInvariant == ASSUME NoneIsNoValue PROVE Spec => []PromptInv
<1>1. Init => PromptInv
  BY HonestInit, CertInit
     DEF Init, NoWork, PromptInv, ReceiptInv, BoundaryTrue, LowerTight, CompletionPast, Receipted,
         Cleared
<1>2. PromptInv /\ [Next]_vars => PromptInv'
  BY PromptNext
<1> QED
  BY <1>1, <1>2, PTL DEF Spec

\* What verify_time_proof accepts of the deployed quorum.
LEMMA StampedProofAccepted ==
    ASSUME WellDeployed, RadiusAccepted, NEW p, NEW nonce, Stamped(p, nonce), Attesting(p)
    PROVE  ProofErrors(p, nonce) = {}
<1>1. PICK m \in Int, a \in QuorumAnswers :
          p = TimeProof(nonce, m, RadiusMs, a.signers, a.corrupt)
  BY DEF Stamped
<1>2. /\ p.nonce = nonce /\ p.radiusMs = RadiusMs
      /\ p.signatures = {[keyId |-> k, valid |-> k \notin a.corrupt] : k \in a.signers}
  BY <1>1 DEF TimeProof
<1>3. AuthoritySignatures(Keys, p) = p.signatures
  BY <1>2 DEF AuthoritySignatures, WellDeployed, OwnedBy
<1>4. ValidAuthorities(Keys, p) = Signers(p)
  BY <1>3 DEF ValidAuthorities, Signers
<1>5. ~(p.radiusMs < 0 \/ (MaxAttestationRadiusMs # None /\ p.radiusMs > MaxAttestationRadiusMs))
  BY <1>2, MediatorAssumption, VerifierAssumption DEF RadiusAccepted
<1> QED
  BY <1>2, <1>4, <1>5 DEF ProofErrors, VerifyTimeProof, When, Attesting

\* ms_between is within a cap that the clock units are within.
LEMMA WithinCap ==
    ASSUME NEW later \in Int, NEW earlier \in Int, NEW n \in Nat, later - earlier <= Units(n)
    PROVE  MsBetween(later, earlier) \in Int /\ MsBetween(later, earlier) <= n
<1> DEFINE U == UnitsPerMs
           d == later - earlier
<1>1. U \in Nat /\ U > 0 /\ d \in Int /\ d <= n * U
  BY UnitsPerMsAssumption DEF Units
<1>2. CASE d >= 0
  <2>1. d \div U \in Int /\ (d \div U) * U <= d
    BY <1>1, <1>2
  <2>2. ~(d \div U > n)
    <3> SUFFICES ASSUME d \div U >= n + 1 PROVE FALSE
      BY <2>1
    <3>1. (d \div U) * U >= (n + 1) * U
      BY <1>1, <2>1
    <3>2. (n + 1) * U = n * U + U /\ n * U \in Int
      BY <1>1
    <3> QED
      BY <1>1, <2>1, <3>1, <3>2
  <2> QED
    BY <1>2, <2>1, <2>2 DEF MsBetween
<1>3. CASE d < 0
  <2>1. -d \in Nat /\ (-d) \div U \in Nat
    BY <1>1, <1>3
  <2> QED
    BY <1>1, <1>3, <2>1 DEF MsBetween
<1> QED
  BY <1>1, <1>2, <1>3

\* The upper bound of a result that has this moment been recorded.
UpperTight(c) ==
    LET tUb == TUpper(result[c].timeProof)
    IN  /\ tUb \in Int /\ now <= tUb
        /\ tUb <= now + Units(RadiusMs) + Units(QuorumErrorMs)

\* A prompt call's attested times are in order, and its interval within the cap.
LEMMA PromptSandwich ==
    ASSUME WellDeployed, NoneIsNoValue, PromptInv, ClockErrorMs = 0, NEW c \in Calls,
           effectAt[c] # None, result[c] # None, AttestRequired(c), Prompt(c), UpperTight(c)
    PROVE  SandwichErrors(boundary[c], result[c]) = {}
<1> DEFINE b == boundary[c]
           r == result[c]
           tLb == TLower(b.lowerBoundProof)
           tUb == TUpper(r.timeProof)
           verified == b.verifiedAt
           completed == r.completedAt
           effect == effectAt[c]
           R == Units(RadiusMs)
           Q == Units(QuorumErrorMs)
<1>1. b.status = "PRE_EFFECT" /\ completed = work[c].completedAt /\ verified = work[c].verifiedAt
  BY EffectReceipts DEF PromptInv
<1>2. /\ tLb \in Int /\ b.lowerBoundProof # None /\ b.maxAttestationWindowMs = WindowMs
      /\ tLb + R - Q <= effect /\ verified <= tLb + R + Q
  BY <1>1 DEF PromptInv, ReceiptInv, BoundaryTrue, Receipted, LowerTrue, LowerTight
<1>3. /\ completed # None /\ verified \in Int /\ completed \in Int
      /\ verified <= completed /\ completed <= now
  <2>1. ReadInOrder(c) /\ CompletionPast(c)
    BY DEF PromptInv, HonestInv
  <2> QED
    BY <1>1, <2>1 DEF ReadInOrder, CompletionPast
<1>4. now \in Int /\ effect \in Int
  BY RevocationAssumption DEF PromptInv, ReceiptInv, CertInv, AuditInv, TypeOK
<1>5. R \in Int /\ Q \in Int /\ Units(WindowMs) \in Int /\ WindowMs \in Nat /\ WindowMs # None
  <2>1. WindowMs \in Nat /\ WindowMs # None
    BY MediatorAssumption, RevocationAssumption
  <2>2. Units(WindowMs) \in Int
    BY <2>1, UnitsPerMsAssumption DEF Units
  <2> QED
    BY <2>1, <2>2, UnitsInt
<1>6. effect <= verified + R - Q /\ now + 2 * R + 2 * Q <= verified + Units(WindowMs)
  <2>1. /\ AddMs(verified, RadiusMs - QuorumErrorMs) = verified + (R - Q)
        /\ AddMs(now, 2 * (RadiusMs + QuorumErrorMs)) = now + (2 * R + 2 * Q)
        /\ AddMs(verified, WindowMs) = verified + Units(WindowMs)
    BY <1>3, <1>4, UnitsInt, MediatorAssumption DEF AddMs, Units
  <2>2. /\ effect <= AddMs(verified, RadiusMs - QuorumErrorMs)
        /\ AddMs(now, 2 * (RadiusMs + QuorumErrorMs)) <= AddMs(verified, WindowMs)
    BY DEF Prompt
  <2> HIDE DEF verified, effect, R, Q
  <2> QED
    BY <1>3, <1>4, <1>5, <2>1, <2>2
<1>7. tUb \in Int /\ now <= tUb /\ tUb <= now + R + Q
  BY DEF UpperTight
<1> HIDE DEF tLb, tUb, verified, completed, effect, R, Q
<1>8. tLb <= verified /\ verified <= completed /\ completed <= tUb /\ tUb - tLb <= Units(WindowMs)
  BY <1>2, <1>3, <1>4, <1>5, <1>6, <1>7
<1>9. /\ MsBetween(verified, tLb) >= 0 /\ MsBetween(completed, verified) >= 0
      /\ MsBetween(tUb, completed) >= 0
  BY <1>2, <1>3, <1>7, <1>8, NotAfter
<1>10. ~(MsBetween(tUb, tLb) > WindowMs)
  <2>1. MsBetween(tUb, tLb) \in Int /\ MsBetween(tUb, tLb) <= WindowMs
    BY <1>2, <1>5, <1>7, <1>8, WithinCap
  <2> QED
    BY <1>5, <2>1
<1> QED
  BY <1>2, <1>5, <1>9, <1>10 DEF SandwichErrors, When, tLb, tUb, verified, completed

\* The calls whose result is of this moment and that the property speaks of.
EndsPromptly(c) ==
    /\ ClockErrorMs = 0 /\ RadiusAccepted
    /\ effectAt[c] # None /\ result[c] # None
    /\ Attested(c) => Prompt(c)
    /\ AttestRequired(c) => UpperTight(c)
    /\ Undisturbed(c) /\ QuorumKept(c)

PromptVerdict == \A c \in Calls : PromptInv /\ EndsPromptly(c) => Authorized(c)

\* The audit finds nothing to fault in what such a call leaves behind.
LEMMA PromptIsCertified == ASSUME WellDeployed, NoneIsNoValue PROVE PromptVerdict
<1> SUFFICES ASSUME NEW c \in Calls, PromptInv, EndsPromptly(c) PROVE Authorized(c)
  BY DEF PromptVerdict
<1> DEFINE b == boundary[c]
           r == result[c]
           instant == EffectiveInstant(b, r)
<1>1. /\ HonestInv /\ ClockErrorMs = 0 /\ RadiusAccepted /\ effectAt[c] # None /\ r # None
      /\ Undisturbed(c) /\ QuorumKept(c)
  BY DEF PromptInv, EndsPromptly
<1>2. /\ StaleHeadErrors(log, b.ledgerHead, instant) = {}
      /\ RevocationErrors(log, HumanAuth, Token, instant) = {}
  BY <1>1, NothingRevoked
<1>3. /\ HeadErrors(b, NoLastSequence) = {} /\ ResultErrors(b, r) = {}
      /\ RecomputedErrors(log, HumanAuth, Token, b, r) = {}
      /\ StatusErrors(log, HumanAuth, Token, b, r) = {}
  BY <1>1, <1>2, HonestDecisionReplays
<1>4. ChainIntact(HumanAuth, Token, b, r) /\ b.status = "PRE_EFFECT"
  BY <1>1, HonestChainIntact, EffectReceipts
<1>5. AttestationErrors(b, r) = {}
  <2> SUFFICES ASSUME NeedsAttestation(b, r) PROVE AttestationErrors(b, r) = {}
    BY DEF AttestationErrors
  <2>1. AttestRequired(c) /\ Prompt(c) /\ UpperTight(c)
    BY <1>1, AttestedIsRequired DEF EndsPromptly
  <2>2. /\ r.timeProof # None /\ r.effectRef # None
        /\ Stamped(r.timeProof, ResultProofNonce(r))
        /\ b.lowerBoundProof # None => Stamped(b.lowerBoundProof, b.nonce)
    BY <1>1, <2>1, EffectReceipts
  <2>3. UpperProofErrors(r) = {} /\ LowerProofErrors(b, r) = {}
    BY <1>1, <2>2, StampedProofAccepted DEF UpperProofErrors, LowerProofErrors, QuorumKept
  <2>4. SandwichErrors(b, r) = {}
    BY <1>1, <2>1, PromptSandwich
  <2> QED
    BY <2>2, <2>3, <2>4 DEF AttestationErrors, When
<1> QED
  BY <1>2, <1>3, <1>4, <1>5 DEF Authorized, AuthorizedAtExecution, AuthErrors

\* Only the last step of a call puts its result on record, and it dates it then.
LEMMA RecordDates ==
    ASSUME PromptInv, [Next]_vars, NEW c \in Calls, result[c] = None, result'[c] # None
    PROVE  /\ UNCHANGED <<now, effectAt, boundary>>
           /\ AttestRequired(c)' => UpperTight(c)'
<1>1. /\ TypeOK /\ CallOrdered(c) /\ DOMAIN result = Calls /\ now \in Instants
  BY DEF PromptInv, ReceiptInv, CertInv, AuditInv, CallInv, TypeOK
<1>2. Record(c)
  <2>1. PICK d \in Calls : Begin(d) \/ Continue(d)
    BY DEF Next, vars, RecordRevocation, Tick
  <2>2. d = c
    BY <1>1, <2>1, OthersUntouched
  <2> QED
    BY <2>1, <2>2 DEF Begin, Continue, Bypass, ReadClock, CaptureHead, Evaluate, Issue,
                      Execute, Complete
<1>3. UNCHANGED <<now, effectAt, boundary>> /\ AttestRequired(c)' = AttestRequired(c)
  BY <1>2 DEF Record, AttestRequired, Row
<1>4. ASSUME AttestRequired(c) PROVE UpperTight(c)'
  <2>1. PICK upper \in Proofs(ResultProofNonce(ResultFields(c))) :
            result' = [result EXCEPT ![c] = ResultReceipt(c, upper)]
    BY <1>2, <1>4 DEF Record
  <2>2. result'[c].timeProof = upper
    BY <1>1, <2>1 DEF ResultReceipt
  <2>3. /\ TUpper(upper) \in Int /\ now <= TUpper(upper)
        /\ TUpper(upper) <= now + Units(RadiusMs) + Units(QuorumErrorMs)
    BY <1>1, <2>1, ProofIsUpperBound, ProofIsTight
  <2> QED
    BY <1>3, <2>2, <2>3 DEF UpperTight, Units
<1> QED
  BY <1>3, <1>4

\* mediator.py:157-163, 217-244 with verifier.py:403-454: by a right clock, with
\* authorities that answer and nothing revoked, a call that has its effect and
\* its end in time is certified, whatever the radius, the window and the unit.
THEOREM PromptEffectsAreCertified ==
    ASSUME WellDeployed, NoneIsNoValue
    PROVE  Spec => PromptEffectCertified
<1>1. PromptVerdict
  BY PromptIsCertified
<1>2. PromptVerdict'
  BY <1>1, PTL
<1>3. PromptInv /\ PromptInv' /\ [Next]_vars =>
          [ \A c \in Calls :
              (/\ ClockErrorMs = 0 /\ RadiusAccepted
               /\ effectAt[c] # None /\ result[c] = None /\ result'[c] # None
               /\ Attested(c) => Prompt(c)
               /\ Undisturbed(c)' /\ QuorumKept(c)')
              => Authorized(c)' ]_vars
  <2> SUFFICES ASSUME PromptInv, PromptInv', [Next]_vars, NEW c \in Calls,
                      ClockErrorMs = 0, RadiusAccepted, effectAt[c] # None, result[c] = None,
                      result'[c] # None, Attested(c) => Prompt(c), Undisturbed(c)', QuorumKept(c)'
               PROVE  Authorized(c)'
    OBVIOUS
  <2>1. /\ UNCHANGED <<now, effectAt, boundary>>
        /\ AttestRequired(c)' => UpperTight(c)'
    BY RecordDates
  <2>2. (Attested(c) => Prompt(c))'
    BY <2>1 DEF Attested, Prompt, Mapped, Row
  <2>3. EndsPromptly(c)'
    BY <2>1, <2>2 DEF EndsPromptly, RadiusAccepted
  <2> QED
    BY <1>2, <2>3 DEF PromptVerdict
<1> QED
  BY <1>3, PromptInvariant, PTL DEF Spec, PromptEffectCertified

-----------------------------------------------------------------------------
(* The verdict on a block.                                                 *)

Blocked(c) == boundary[c] # None /\ boundary[c].status = "BLOCKED"

\* What the ledger says, as it is now, of the decision as it was made.
Denials(c) ==
    AuthorizationErrors(log, HumanAuth, Token, HashArtifact(HumanAuth), ConnectorCall(c),
                        work[c].head, work[c].verifiedAt, FreshnessBound[Row(c).risk],
                        work[c].verifiedAt)

\* A blocked call ends with its receipt, and what denied it denies it still.
BlockRecorded(c) ==
    /\ pc[c] \in {"idle", "capture", "evaluate", "issue"} => boundary[c] = None
    /\ Blocked(c) => /\ pc[c] = "returned" /\ result[c] = None
                     /\ work[c].errors # {} /\ boundary[c] = BoundaryReceipt(c, None)
    /\ (work[c].errors # {} /\ (pc[c] = "issue" \/ Blocked(c))) => Denials(c) # {}

BlockInv == AuditInv /\ UsageInv /\ \A c \in Calls : BlockRecorded(c)

\* Where neither uses nor repeated revocations can make the replay differ.
ReplayableGrant == RevokeOnce /\ MaxUses(HumanAuth) = None

\* The evaluation denies for what the replay sees; its receipt records it.
LEMMA BlockStep ==
    ASSUME MaxUses(HumanAuth) = None, BlockInv, NEW c \in Calls, Begin(c) \/ Continue(c)
    PROVE  BlockRecorded(c)'
<1>1. /\ BlockRecorded(c) /\ CallOrdered(c) /\ ReceiptIssued(c) /\ NonceFresh(c)
      /\ pc \in [Calls -> PcValues]
      /\ DOMAIN work = Calls /\ DOMAIN boundary = Calls /\ DOMAIN result = Calls
      /\ DOMAIN work[c] = DOMAIN NoWork
  BY DEF BlockInv, UsageInv, AuditInv, CallInv, TypeOK
<1>2. CASE Bypass(c) \/ ReadClock(c) \/ CaptureHead(c)
  <2>1. /\ pc[c] \in {"idle", "capture"} /\ UNCHANGED boundary
        /\ pc'[c] # "issue"
    BY <1>1, <1>2 DEF Bypass, ReadClock, CaptureHead, Step
  <2> QED
    BY <1>1, <2>1 DEF BlockRecorded, Blocked
<1>3. CASE Evaluate(c)
  <2>1. /\ pc[c] = "evaluate" /\ pc'[c] = "issue" /\ UNCHANGED <<boundary, log>>
    BY <1>1, <1>3 DEF Evaluate, Step
  <2>2. ~(~NonceIsNew(nonces, Nonce(c))) /\ UsageAllowed(used, MaxUses(HumanAuth))
    BY <1>1, <2>1 DEF NonceFresh, NonceIsNew, UsageAllowed
  <2>3. work' = [work EXCEPT ![c].errors = Denials(c)]
    <3> DEFINE denied == Denials(c)
               replay == When(denied = {} /\ ~NonceIsNew(nonces, Nonce(c)), "NONCE_ALREADY_SEEN")
               spent == When(denied \cup replay = {} /\ ~UsageAllowed(used, MaxUses(HumanAuth)),
                             "USAGE_LIMIT_EXCEEDED")
    <3>1. work' = [work EXCEPT ![c].errors = denied \cup replay \cup spent]
      BY <1>3 DEF Evaluate, Denials
    <3>2. replay = {} /\ spent = {}
      BY <2>2 DEF When
    <3> HIDE DEF denied, replay, spent
    <3>3. denied \cup replay \cup spent = denied
      BY <3>2
    <3> QED
      BY <3>1, <3>3 DEF denied
  <2>4. /\ work'[c].errors = Denials(c)
        /\ work'[c].head = work[c].head /\ work'[c].verifiedAt = work[c].verifiedAt
    BY <1>1, <2>3 DEF NoWork
  <2>5. Denials(c)' = Denials(c)
    BY <2>1, <2>4 DEF Denials, ConnectorCall, Row
  <2> QED
    BY <1>1, <2>1, <2>4, <2>5 DEF BlockRecorded, Blocked
<1>4. CASE Issue(c)
  <2>1. /\ pc[c] = "issue" /\ pc'[c] \in {"returned", "raised", "execute"}
        /\ Status(c) = "BLOCKED" => pc'[c] = "returned"
        /\ UNCHANGED <<work, result, log>>
    BY <1>1, <1>4 DEF Issue, Step
  <2>2. result[c] = None
    BY <1>1, <2>1 DEF CallOrdered
  <2>3. PICK lower : /\ Status(c) = "BLOCKED" => lower = None
                     /\ boundary' = [boundary EXCEPT ![c] = BoundaryReceipt(c, lower)]
    BY <1>4 DEF Issue
  <2>4. boundary'[c] = BoundaryReceipt(c, lower) /\ boundary'[c].status = Status(c)
    BY <1>1, <2>3 DEF BoundaryReceipt
  <2>5. /\ BoundaryReceipt(c, None)' = BoundaryReceipt(c, None)
        /\ Denials(c)' = Denials(c)
    BY <2>1 DEF BoundaryReceipt, Denials, ConnectorCall, Row, Status, Nonce
  <2>6. Blocked(c)' => work[c].errors # {} /\ Status(c) = "BLOCKED"
    BY <2>4 DEF Blocked, Status
  <2> QED
    BY <1>1, <2>1, <2>2, <2>3, <2>4, <2>5, <2>6 DEF BlockRecorded
<1>5. CASE Execute(c) \/ Complete(c) \/ Record(c)
  <2>1. /\ pc[c] \in Cleared /\ UNCHANGED boundary
        /\ pc'[c] \in {"complete", "record", "returned"}
    BY <1>1, <1>5 DEF Execute, Complete, Record, Step, Cleared
  <2>2. boundary'[c].status = "PRE_EFFECT"
    BY <1>1, <2>1 DEF ReceiptIssued
  <2> QED
    BY <2>1, <2>2 DEF BlockRecorded, Blocked
<1> QED
  BY <1>2, <1>3, <1>4, <1>5 DEF Begin, Continue

\* What a later revocation adds never clears a denial.
LEMMA DenialsStay ==
    ASSUME RevokeOnce, RecordRevocation, NEW c \in Calls, Denials(c) # {}
    PROVE  Denials(c)' # {}
<1>1. UNCHANGED work
  BY DEF RecordRevocation
<1>2. RevocationErrors(log, HumanAuth, Token, work[c].verifiedAt) # {}
        => RevocationErrors(log', HumanAuth, Token, work[c].verifiedAt) # {}
  <2>1. \A l : RevocationErrors(l, HumanAuth, Token, work[c].verifiedAt) # {}
                  <=> ~AuthorityLiveNow(l, HumanAuth, Token, work[c].verifiedAt)
    BY DEF RevocationErrors, AuthorityLiveNow, When
  <2> QED
    BY <2>1, RevokedStays
<1> QED
  BY <1>1, <1>2 DEF Denials, AuthorizationErrors, ConnectorCall, Row

\* A step that leaves a call's state and the log alone keeps its part.
LEMMA BlockFrame ==
    ASSUME NEW d \in Calls, BlockRecorded(d), Denials(d) # {} => Denials(d)' # {},
           pc'[d] = pc[d], work'[d] = work[d], boundary'[d] = boundary[d],
           result'[d] = result[d]
    PROVE  BlockRecorded(d)'
<1>1. BoundaryReceipt(d, None)' = BoundaryReceipt(d, None)
  BY DEF BoundaryReceipt, ConnectorCall, Row, Status, Nonce
<1> QED
  BY <1>1 DEF BlockRecorded, Blocked

\* Blocks stay recorded, and denied, across every step.
LEMMA BlockNext ==
    ASSUME ReplayableGrant, BlockInv, [Next]_vars
    PROVE  BlockInv'
<1>1. AuditInv' /\ UsageInv' /\ TypeOK
  BY AuditNext, UsageNext DEF BlockInv, AuditInv
<1>2. CASE \E c \in Calls : Begin(c) \/ Continue(c)
  <2>1. PICK c \in Calls : Begin(c) \/ Continue(c)
    BY <1>2
  <2>2. BlockRecorded(c)'
    BY <2>1, BlockStep DEF ReplayableGrant
  <2>3. UNCHANGED log
    BY <2>1 DEF Begin, Continue, Bypass, ReadClock, CaptureHead, Evaluate, Issue, Execute,
                Complete, Record
  <2>4. ASSUME NEW d \in Calls, d # c PROVE BlockRecorded(d)'
    <3>1. /\ pc'[d] = pc[d] /\ work'[d] = work[d] /\ boundary'[d] = boundary[d]
          /\ result'[d] = result[d]
      BY <1>1, <2>1, <2>4, OthersUntouched
    <3>2. Denials(d)' = Denials(d)
      BY <2>3, <3>1 DEF Denials, ConnectorCall, Row
    <3> QED
      BY <3>1, <3>2, BlockFrame DEF BlockInv
  <2> QED
    BY <1>1, <2>2, <2>4 DEF BlockInv
<1>3. CASE RecordRevocation
  <2>1. UNCHANGED <<pc, work, boundary, result>>
    BY <1>3 DEF RecordRevocation
  <2>2. ASSUME NEW d \in Calls PROVE BlockRecorded(d)'
    BY <1>3, <2>1, DenialsStay, BlockFrame DEF BlockInv, ReplayableGrant
  <2> QED
    BY <1>1, <2>2 DEF BlockInv
<1>4. CASE Tick \/ UNCHANGED vars
  <2>1. UNCHANGED <<log, pc, work, boundary, result>>
    BY <1>4 DEF Tick, vars
  <2>2. ASSUME NEW d \in Calls PROVE BlockRecorded(d)'
    <3>1. Denials(d)' = Denials(d)
      BY <2>1 DEF Denials, ConnectorCall, Row
    <3> QED
      BY <2>1, <3>1, BlockFrame DEF BlockInv
  <2> QED
    BY <1>1, <2>2 DEF BlockInv
<1> QED
  BY <1>2, <1>3, <1>4 DEF Next

\* The codes of the replayed decision say nothing of the chain's integrity.
LEMMA DecisionCodes ==
    ASSUME NEW head, NEW verifiedAt, NEW maxAgeMs, NEW asOf, NEW request
    PROVE  "CHAIN_INTEGRITY_VIOLATION" \notin
               AuthorizationErrors(log, HumanAuth, Token, HashArtifact(HumanAuth), request,
                                   head, verifiedAt, maxAgeMs, asOf)
<1>1. \A k, owner, t :
          /\ "CHAIN_INTEGRITY_VIOLATION" \notin
                 CheckKey(k, owner, t, "ISSUER_KEY_REVOKED", "ISSUER_KEY_EXPIRED")
          /\ "CHAIN_INTEGRITY_VIOLATION" \notin
                 CheckKey(k, owner, t, "DELEGATEE_KEY_REVOKED", "DELEGATEE_KEY_EXPIRED")
  BY DEF CheckKey, KeyStatusAt, When
<1>2. "CHAIN_INTEGRITY_VIOLATION" \notin UpstreamErrors(HumanAuth, Token, HashArtifact(HumanAuth))
  BY <1>1 DEF UpstreamErrors, When
<1>3. "CHAIN_INTEGRITY_VIOLATION" \notin ScopeErrors(HumanAuth, Token, request)
  BY DEF ScopeErrors, When
<1>4. "CHAIN_INTEGRITY_VIOLATION" \notin ExpiryErrors(HumanAuth, Token, verifiedAt)
  BY DEF ExpiryErrors, When
<1>5. /\ "CHAIN_INTEGRITY_VIOLATION" \notin RevocationErrors(log, HumanAuth, Token, asOf)
      /\ "CHAIN_INTEGRITY_VIOLATION" \notin FreshnessErrors(Token, head, verifiedAt, maxAgeMs)
  BY DEF RevocationErrors, FreshnessErrors, When
<1> QED
  BY <1>2, <1>3, <1>4, <1>5 DEF AuthorizationErrors

\* auditor.py:184-186: under a grant of unlimited uses every block replays as a
\* block, at any later time and whatever the mediator's clock read.
THEOREM BlocksAuditConsistent ==
    ASSUME WellDeployed, ReplayableGrant,
           UpstreamErrors(HumanAuth, Token, HashArtifact(HumanAuth)) = {}
    PROVE  Spec => []BlockedAuditsConsistent
<1>1. Init => BlockInv
  <2> SUFFICES ASSUME Init PROVE BlockInv
    OBVIOUS
  <2>1. \A c \in Calls : BlockRecorded(c)
    BY DEF Init, BlockRecorded, Blocked, NoWork
  <2> QED
    BY <2>1, AuditInit, UsageInit DEF BlockInv
<1>2. BlockInv /\ [Next]_vars => BlockInv'
  BY BlockNext
<1>3. BlockInv => BlockedAuditsConsistent
  <2> SUFFICES ASSUME BlockInv, NEW c \in Calls, Blocked(c)
               PROVE  /\ ChainIntact(HumanAuth, Token, boundary[c], result[c])
                      /\ "CHAIN_INTEGRITY_VIOLATION" \notin Codes(c)
    BY DEF BlockedAuditsConsistent, Blocked
  <2> DEFINE b == boundary[c]
  <2>1. /\ result[c] = None /\ b = BoundaryReceipt(c, None)
        /\ work[c].errors # {} /\ Denials(c) # {}
    BY DEF BlockInv, BlockRecorded
  <2>2. /\ b.status = "BLOCKED" /\ b.verdict = "FAIL"
        /\ b.rootReceiptId = HumanAuth.receiptId
        /\ b.rootReceiptHash = HashArtifact(HumanAuth) /\ b.tokenHash = HashArtifact(Token)
        /\ b.executingAgent = AgentId /\ b.executingAgentKeyId = KeyId /\ b.signedBy = KeyId
        /\ b.policyHash = PolicyHash(HumanAuth, Token)
        /\ b.request = ConnectorCall(c) /\ b.verifiedAt = work[c].verifiedAt
        /\ b.ledgerHead = work[c].head /\ b.maxAgeMs = FreshnessBound[Row(c).risk]
    BY <2>1 DEF BoundaryReceipt, Status
  <2>3. ChainIntact(HumanAuth, Token, b, result[c])
    <3>1. /\ VerifySignature(HumanAuth.issuerKeyId, HumanAuth)
          /\ VerifySignature(Token.issuerKeyId, Token)
          /\ CheckKey(HumanAuth.issuerKeyId, GOVERNANCE_OWNER, HumanAuth.issuedAt,
                      "ISSUER_KEY_REVOKED", "ISSUER_KEY_EXPIRED") = {}
      BY DEF UpstreamErrors, When
    <3>2. OwnedBy(HumanAuth.issuerKeyId, GOVERNANCE_OWNER)
      BY <3>1 DEF CheckKey, KeyStatusAt, VerifySignature, When
    <3>3. VerifySignature(b.executingAgentKeyId, b) /\ OwnedBy(b.executingAgentKeyId, b.executingAgent)
      BY <2>2 DEF WellDeployed, OwnedBy, VerifySignature
    <3> QED
      BY <2>1, <2>2, <3>1, <3>2, <3>3 DEF WellDeployed, ChainIntact, IntactErrors, When
  <2>4. EffectiveInstant(b, None) = work[c].verifiedAt
    BY <2>2 DEF EffectiveInstant, NeedsAttestation
  <2>5. RecomputedErrors(log, HumanAuth, Token, b, None) = Denials(c)
    BY <2>2, <2>4 DEF RecomputedErrors, Denials
  <2>6. StatusErrors(log, HumanAuth, Token, b, None) = {}
    BY <2>1, <2>2, <2>5 DEF StatusErrors, When
  <2>7. "CHAIN_INTEGRITY_VIOLATION" \notin Denials(c)
    BY DecisionCodes DEF Denials
  <2>8. /\ AttestationErrors(b, None) = {} /\ ResultErrors(b, None) = {}
        /\ "CHAIN_INTEGRITY_VIOLATION" \notin HeadErrors(b, NoLastSequence)
        /\ \A head, instant :
              "CHAIN_INTEGRITY_VIOLATION" \notin StaleHeadErrors(log, head, instant)
    BY DEF AttestationErrors, NeedsAttestation, ResultErrors, HeadErrors, StaleHeadErrors, When
  <2> QED
    BY <2>1, <2>3, <2>5, <2>6, <2>7, <2>8 DEF Codes, AuthErrors
<1> QED
  BY <1>1, <1>2, <1>3, PTL DEF Spec

==============================================================================
