------------------------------- MODULE Mediator -------------------------------
(***************************************************************************)
(* The enforcement point, pfc/mediator.py: concurrent calls of handle(),   *)
(* each one action per point at which it touches a clock, a ledger, the    *)
(* time quorum, the artifact store or the resource adapter.  Time passes   *)
(* and the revocation service records revocations between any two of them. *)
(***************************************************************************)
EXTENDS RevocationLog, Verifier

CONSTANTS Calls,            \* invocations of handle()
          Request,          \* call -> [requestId, type, contact]
          Mapping,          \* request type -> [action, target, risk, noEffect]
          Routed,           \* actions some resource adapter serves
          FreshnessBound,   \* risk class -> maxAgeMs
          HumanAuth, Token, \* the session's upstream artifacts
          AgentId, KeyId,   \* the mediator's identity
          RevKeyId,         \* the revocation service's key
          QuorumKeys,       \* the time authorities' keys; {} when there is no quorum
          QuorumAnswers,    \* who may sign a proof: records of signers and corrupt ones
          RadiusMs,         \* the quorum's radius
          QuorumErrorMs,    \* how far the quorum's clock may be from true time
          WindowMs,         \* max_attestation_window_ms
          ClockErrorMs,     \* how far the mediator's clock may be from true time
          T0,               \* the instant the world is built
          Crms              \* what the CRM may hold at T0: sets of contacts

ASSUME MediatorAssumption ==
    /\ T0 \in Instants
    /\ RadiusMs \in Nat
    /\ QuorumErrorMs \in 0..RadiusMs
    /\ ClockErrorMs \in Nat
    /\ WindowMs \in Nat
    /\ HumanAuth.issuedAt \in Int /\ Token.issuedAt \in Int
    /\ \A a \in QuorumAnswers : IsFiniteSet(a.signers)
    /\ MaxUses(HumanAuth) # None => MaxUses(HumanAuth) \in Nat

VARIABLES now,          \* true time
          used,         \* UsageLedger count of the HumanAuthReceipt
          nonces,       \* NonceLog
          boundary,     \* ArtifactStore: call -> BoundaryReceipt or None
          result,       \* ArtifactStore: call -> ExecutionResultReceipt or None
          contacts,     \* the resource behind the adapter
          pc,           \* call -> the next step of handle()
          work,         \* call -> handle()'s local variables
          effectAt,     \* history: call -> true time of its effect, or None
          late          \* history: calls that began when authority was revoked for any reading

vars == <<log, now, used, nonces, boundary, result, contacts, pc, work, effectAt, late>>

ATTESTED_RISK_CLASSES == {"HIGH"}

-----------------------------------------------------------------------------
(* Clocks.                                                                 *)

\* self.clock(): the mediator's own, possibly wrong, clock.
ClockReadings ==
    {t \in Instants : now <= AddMs(t, ClockErrorMs) /\ t <= AddMs(now, ClockErrorMs)}

\* The authority is still live at the earliest instant that clock may read.
LiveForClock == AuthorityLiveNow(log, HumanAuth, Token, AddMs(now, -ClockErrorMs))

\* quorum.clock(): an honest time authority errs by no more than the radius it
\* states, and may be known to err by less.
QuorumReadings == AddMs(now, -QuorumErrorMs)..AddMs(now, QuorumErrorMs)

\* The proofs the quorum may answer a nonce with.
Proofs(nonce) == {TimeProof(nonce, m, RadiusMs, a.signers, a.corrupt) :
                     m \in QuorumReadings, a \in QuorumAnswers}

-----------------------------------------------------------------------------
(* What the code derives from a request.                                   *)

Mapped(c) == Request[c].type \in DOMAIN Mapping
Row(c) == Mapping[Request[c].type]

ConnectorCall(c) ==
    [action |-> Row(c).action, target |-> Row(c).target, payload |-> Request[c].contact]

Nonce(c) == <<"nonce", c>>      \* uuid4: no other call has it

AttestRequired(c) == QuorumKeys # {} /\ Row(c).risk \in ATTESTED_RISK_CLASSES

Status(c) == IF work[c].errors = {} THEN "PRE_EFFECT" ELSE "BLOCKED"

BoundaryReceipt(c, lowerProof) ==
    [receiptId           |-> <<"br", c>>,
     rootReceiptId       |-> HumanAuth.receiptId,
     rootReceiptHash     |-> HashArtifact(HumanAuth),
     tokenId             |-> Token.tokenId,
     tokenHash           |-> HashArtifact(Token),
     executingAgent      |-> AgentId,
     executingAgentKeyId |-> KeyId,
     request             |-> ConnectorCall(c),
     nonce               |-> Nonce(c),
     idempotencyKey      |-> Request[c].requestId,
     status              |-> Status(c),
     verdict             |-> IF work[c].errors = {} THEN "PASS" ELSE "FAIL",
     verifiedAt          |-> work[c].verifiedAt,
     ledgerHead          |-> work[c].head,
     maxAgeMs            |-> FreshnessBound[Row(c).risk],
     policyHash          |-> PolicyHash(HumanAuth, Token),
     lowerBoundProof     |-> lowerProof,
     maxAttestationWindowMs |-> IF lowerProof = None THEN None ELSE WindowMs,
     issuedAt            |-> work[c].verifiedAt,
     signedBy            |-> KeyId]

\* The content of the result receipt that the upper-bound proof is asked for.
ResultFields(c) ==
    [receiptId           |-> <<"er", c>>,
     boundaryReceiptId   |-> boundary[c].receiptId,
     boundaryReceiptHash |-> HashArtifact(boundary[c]),
     executingAgent      |-> AgentId,
     executingAgentKeyId |-> KeyId,
     observedRequest     |-> ConnectorCall(c),
     outcome             |-> work[c].outcome,
     effectRef           |-> work[c].effectRef,
     completedAt         |-> work[c].completedAt]

ResultReceipt(c, upperProof) ==
    [f \in DOMAIN ResultFields(c) \cup {"timeProof", "signedBy"} |->
        CASE f = "timeProof" -> upperProof
          [] f = "signedBy"  -> KeyId
          [] OTHER           -> ResultFields(c)[f]]

-----------------------------------------------------------------------------
NoWork == [verifiedAt |-> None, head |-> None, errors |-> {}, outcome |-> None,
           effectRef |-> None, completedAt |-> None]

Init ==
    /\ LogInit
    /\ now = T0
    /\ used = 0
    /\ nonces = {}
    /\ boundary = [c \in Calls |-> None]
    /\ result = [c \in Calls |-> None]
    /\ contacts \in Crms
    /\ pc = [c \in Calls |-> "idle"]
    /\ work = [c \in Calls |-> NoWork]
    /\ effectAt = [c \in Calls |-> None]
    /\ late = {}

Step(c, from, to) == pc[c] = from /\ pc' = [pc EXCEPT ![c] = to]

\* An unmapped type raises, a conversation or handoff returns None: neither
\* touches the chain.
Bypass(c) ==
    /\ \/ ~Mapped(c) /\ Step(c, "idle", "raised")
       \/ Mapped(c) /\ Row(c).noEffect /\ Step(c, "idle", "returned")
    /\ UNCHANGED <<log, now, used, nonces, boundary, result, contacts, work, effectAt, late>>

\* verified_at = self.clock()
ReadClock(c) ==
    /\ Mapped(c)
    /\ ~Row(c).noEffect
    /\ Step(c, "idle", "capture")
    /\ \E t \in ClockReadings : work' = [work EXCEPT ![c].verifiedAt = t]
    /\ late' = IF LiveForClock THEN late ELSE late \cup {c}
    /\ UNCHANGED <<log, now, used, nonces, boundary, result, contacts, effectAt>>

\* ledger_head = revocationLog.head(captured_at=verified_at)
CaptureHead(c) ==
    /\ Step(c, "capture", "evaluate")
    /\ work' = [work EXCEPT ![c].head = LedgerHead(log, work[c].verifiedAt, RevKeyId)]
    /\ UNCHANGED <<log, now, used, nonces, boundary, result, contacts, effectAt, late>>

\* evaluate_authorization: a request that passes consumes its nonce, then a use.
Evaluate(c) ==
    LET denied == AuthorizationErrors(log, HumanAuth, Token, HashArtifact(HumanAuth),
                      ConnectorCall(c), work[c].head, work[c].verifiedAt,
                      FreshnessBound[Row(c).risk], work[c].verifiedAt)
        replay == When(denied = {} /\ ~NonceIsNew(nonces, Nonce(c)), "NONCE_ALREADY_SEEN")
        spent  == When(denied \cup replay = {} /\ ~UsageAllowed(used, MaxUses(HumanAuth)),
                       "USAGE_LIMIT_EXCEEDED")
        errs   == denied \cup replay \cup spent
    IN  /\ Step(c, "evaluate", "issue")
        /\ work' = [work EXCEPT ![c].errors = errs]
        /\ nonces' = IF denied = {} THEN nonces \cup {Nonce(c)} ELSE nonces
        /\ used' = IF errs = {} THEN used + 1 ELSE used
        /\ UNCHANGED <<log, now, boundary, result, contacts, effectAt, late>>

MutIssue(c) ==
    /\ Step(c, "issue", IF Row(c).action \in Routed THEN "execute" ELSE "raised")
    /\ boundary' = [boundary EXCEPT ![c] = BoundaryReceipt(c, None)]
    /\ UNCHANGED <<log, now, used, nonces, result, contacts, work, effectAt, late>>

\* The lower-bound proof of an attested effect, then the receipt that fixes
\* the status; BLOCKED returns, and an action no adapter serves raises.
Issue(c) ==
    /\ Step(c, "issue", IF Status(c) = "BLOCKED" THEN "returned"
                        ELSE IF Row(c).action \in Routed THEN "execute" ELSE "raised")
    /\ \E lower \in IF Status(c) = "PRE_EFFECT" /\ AttestRequired(c)
                    THEN Proofs(Nonce(c)) ELSE {None} :
           boundary' = [boundary EXCEPT ![c] = BoundaryReceipt(c, lower)]
    /\ UNCHANGED <<log, now, used, nonces, result, contacts, work, effectAt, late>>

\* CrmResourceAdapter.execute can do what the call asks; else it throws.
Serves(c) ==
    LET contact == Request[c].contact
    IN  \/ Row(c).action = "delete" /\ contact \in contacts
        \/ Row(c).action = "read" /\ contact # None

Execute(c) ==
    /\ Step(c, "execute", "complete")
    /\ IF Serves(c)
       THEN /\ work' = [work EXCEPT ![c].outcome = "SUCCESS", ![c].effectRef = <<"op", c>>]
            /\ contacts' = IF Row(c).action = "delete"
                           THEN contacts \ {Request[c].contact} ELSE contacts
            /\ effectAt' = [effectAt EXCEPT ![c] = now]
       ELSE /\ work' = [work EXCEPT ![c].outcome = "FAILURE"]
            /\ UNCHANGED <<contacts, effectAt>>
    /\ UNCHANGED <<log, now, used, nonces, boundary, result, late>>

MutCompleteUntimed(c) ==
    /\ Step(c, "complete", "record")
    /\ UNCHANGED <<log, now, used, nonces, boundary, result, contacts, work, effectAt, late>>

MutCompleteReturns(c) ==
    /\ Step(c, "complete", "returned")
    /\ \E t \in ClockReadings : work' = [work EXCEPT ![c].completedAt = t]
    /\ UNCHANGED <<log, now, used, nonces, boundary, result, contacts, effectAt, late>>

\* completed_at = self.clock()
Complete(c) ==
    /\ Step(c, "complete", "record")
    /\ \E t \in ClockReadings : work' = [work EXCEPT ![c].completedAt = t]
    /\ UNCHANGED <<log, now, used, nonces, boundary, result, contacts, effectAt, late>>

\* The upper-bound proof over the result, then the result receipt.
Record(c) ==
    /\ Step(c, "record", "returned")
    /\ \E upper \in IF AttestRequired(c)
                    THEN Proofs(ResultProofNonce(ResultFields(c))) ELSE {None} :
           result' = [result EXCEPT ![c] = ResultReceipt(c, upper)]
    /\ UNCHANGED <<log, now, used, nonces, boundary, contacts, work, effectAt, late>>

Begin(c) == Bypass(c) \/ ReadClock(c)

Continue(c) ==
    \/ CaptureHead(c) \/ Evaluate(c) \/ Issue(c)
    \/ Execute(c) \/ Complete(c) \/ Record(c)

\* The revocation service records a revocation; it never waits for a call.
RecordRevocation ==
    /\ LogNext
    /\ UNCHANGED <<now, used, nonces, boundary, result, contacts, pc, work, effectAt, late>>

Tick ==
    /\ \E t \in Instants : now < t /\ now' = t
    /\ UNCHANGED <<log, used, nonces, boundary, result, contacts, pc, work, effectAt, late>>

Next ==
    \/ \E c \in Calls : Begin(c) \/ Continue(c)
    \/ RecordRevocation
    \/ Tick

\* handle() is straight-line code that never waits: a call that has begun
\* goes on to its end.  Nothing makes a call begin, time pass or a revocation
\* arrive.
Fairness == \A c \in Calls : WF_vars(Continue(c))

Spec == Init /\ [][Next]_vars /\ Fairness

==============================================================================
