--------------------------------- MODULE Audit ---------------------------------
(***************************************************************************)
(* The mediator together with its auditor (governed/auditor.py): at any     *)
(* moment the auditor may replay a call's stored receipts against the      *)
(* revocations recorded so far.  The audit reads and changes nothing, so   *)
(* it is a state function and every property below is a property of the    *)
(* verdict it would reach in that state.                                   *)
(***************************************************************************)
EXTENDS Mediator

\* audit(bundle) replays with last_sequence = -1.
NoLastSequence == -1

Authorized(c) ==
    AuthorizedAtExecution(log, HumanAuth, Token, boundary[c], result[c], NoLastSequence)

Codes(c) == AuthErrors(log, HumanAuth, Token, boundary[c], result[c], NoLastSequence)

UpstreamIds == {HumanAuth.receiptId, Token.tokenId}

Attested(c) == Mapped(c) /\ RiskOf(Row(c).action) = "HIGH" /\ AttestationThreshold > 0

\* What the audit relies on of the deployment: the mediator, the revocation
\* service and the time authorities hold keys of their own, the token delegates
\* the receipt to the mediator, and there is a quorum where one is called for.
WellDeployed ==
    /\ OwnedBy(KeyId, AgentId)
    /\ OwnedBy(RevKeyId, REVOCATION_SERVICE_OWNER)
    /\ \A a \in QuorumAnswers : \A k \in a.signers : OwnedBy(k, TIME_AUTHORITY_OWNER)
    /\ Token.parentReceiptId = HumanAuth.receiptId
    /\ Token.delegateeAgent = AgentId
    /\ \A t \in DOMAIN Mapping :
          (AttestationThreshold > 0 /\ RiskOf(Mapping[t].action) = "HIGH")
          => QuorumKeys # {} /\ Mapping[t].risk \in ATTESTED_RISK_CLASSES

-----------------------------------------------------------------------------
PcValues == {"idle", "capture", "evaluate", "issue", "execute", "complete", "record",
             "returned", "raised"}

\* Calls past the verification and not yet at their end, and all begun ones.
Cleared == {"execute", "complete", "record"}
Underway == {"capture", "evaluate", "issue"} \cup Cleared

\* Types, and which locals and receipts exist at which step of handle().
TypeOK ==
    /\ LogTypeOK
    /\ now \in Instants
    /\ used \in Nat
    /\ nonces \subseteq {Nonce(c) : c \in Calls}
    /\ contacts \subseteq UNION Crms
    /\ pc \in [Calls -> PcValues]
    /\ late \subseteq Calls
    /\ DOMAIN work = Calls /\ DOMAIN boundary = Calls /\ DOMAIN result = Calls
    /\ effectAt \in [Calls -> Instants \cup {None}]
    /\ \A c \in Calls :
        /\ DOMAIN work[c] = DOMAIN NoWork
        /\ work[c].verifiedAt \in Instants \cup {None}
        /\ work[c].completedAt \in Instants \cup {None}
        /\ pc[c] \in Underway => work[c].verifiedAt \in Instants
        /\ pc[c] \in Cleared => boundary[c].receiptId = <<"br", c>>
        /\ pc[c] = "record" => work[c].completedAt \in Instants

\* mediator.py:7-8, 204-207: an effect has a stored PRE_EFFECT receipt behind
\* it, issued for that very request.
EffectHasReceipt ==
    \A c \in Calls : effectAt[c] # None =>
        /\ boundary[c].status = "PRE_EFFECT"
        /\ boundary[c].request = ConnectorCall(c)

\* The uses of the grant are exactly the passed evaluations, and no more calls
\* pass than the receipt allows, whatever the overlap of calls
\* (verifier.py:282-285 with ledgers.py:180-187).
UsageWithinGrant ==
    /\ used = Cardinality({c \in Calls : Nonce(c) \in nonces /\ work[c].errors = {}})
    /\ MaxUses(HumanAuth) # None => used <= MaxUses(HumanAuth)

\* The chain's claim about attested effects (attested_clock.py:24-28,
\* verifier.py:396-402): if the audit certifies a call, no revocation of its
\* receipt or its token on record was effective at the true time of the effect,
\* whatever the mediator's clock said.
CertifiedMeansUnrevoked ==
    \A c \in Calls :
        (effectAt[c] # None /\ result[c] # None /\ Attested(c) /\ Authorized(c))
        => \A id \in UpstreamIds : ~IsRevokedAt(log, id, effectAt[c])

\* mediator.py:15-16: the revocation lands on the very next request.  A call
\* that begins when the receipt or the token has been revoked for longer than
\* the mediator's clock may be behind has no effect.
RevocationLandsOnNextCall == \A c \in late : effectAt[c] = None

\* auditor.py:184-186: a correctly blocked chain is sound and its verdict is
\* consistent with the ledgers.
BlockedAuditsConsistent ==
    \A c \in Calls :
        (boundary[c] # None /\ boundary[c].status = "BLOCKED")
        => /\ ChainIntact(HumanAuth, Token, boundary[c], result[c])
           /\ "CHAIN_INTEGRITY_VIOLATION" \notin Codes(c)

\* A revocation that is later than the instant as ms_between tells them apart.
TakesEffectAfter(e, instant) == MsBetween(instant, e.revokedAt) < 0

\* The effects the audit cannot fault: authority was live, as far as the
\* ledger knows, until the instant the audit judges the effect at.
Undisturbed(c) ==
    \A e \in AllEntries(log) : TakesEffectAfter(e, EffectiveInstant(boundary[c], result[c]))

\* What delay alone may cost an honest call: the attested interval.
DelayCodes == {"ATTESTATION_WINDOW_EXCEEDED", "ATTESTATION_INTERVAL_INCONSISTENT"}

\* What a wrong clock may cost it: a completion read before the verification.
ClockCodes == {"TIMING_VIOLATION"}

\* What too many faulty authorities may cost it.
QuorumCodes == {"ATTESTATION_QUORUM_NOT_MET", "ATTESTATION_INVALID_SIGNATURE"}

Signers(proof) == {s.keyId : s \in {x \in proof.signatures : x.valid}}

Attesting(proof) == Cardinality(Signers(proof)) >= AttestationThreshold

QuorumKept(c) ==
    /\ boundary[c].lowerBoundProof # None => Attesting(boundary[c].lowerBoundProof)
    /\ result[c].timeProof # None => Attesting(result[c].timeProof)

\* What delay, a wrong clock and a faulty quorum may cost an honest call.
CostsOfCircumstance(c) ==
    DelayCodes \cup (IF QuorumKept(c) THEN {} ELSE QuorumCodes)
               \cup (IF ClockErrorMs = 0 THEN {} ELSE ClockCodes)

\* attested_clock.py:145-152, verifier.py:403-426: the audit certifies an
\* attested action only if the effect happened and k authorities bound its true
\* time; neither a failed action nor a quorum of bad signatures gets there.
CertifiedMeansAttested ==
    \A c \in Calls :
        (result[c] # None /\ Attested(c) /\ Authorized(c)) =>
            /\ effectAt[c] # None
            /\ effectAt[c] <= TUpper(result[c].timeProof)
            /\ Attesting(result[c].timeProof)

\* attested_clock.py:30-34: where the mediator asks for both proofs, a certified
\* effect happened within the attested interval, and the interval is no wider
\* than the window, whatever the mediator's clock read.
CertifiedIntervalHoldsEffect ==
    \A c \in Calls :
        (result[c] # None /\ Attested(c) /\ AttestRequired(c) /\ Authorized(c)) =>
            LET tLb == TLower(boundary[c].lowerBoundProof)
                tUb == TUpper(result[c].timeProof)
            IN  /\ effectAt[c] \in tLb..tUb
                /\ MsBetween(tUb, tLb) <= WindowMs
                /\ Attesting(boundary[c].lowerBoundProof)

\* verifier.py:472: the stale-head check reads a lower sequence number as an
\* older state of the log.  The heads that receipts quote are all cut from one
\* history, so of any two the one with the lower number is the older.
HeadsFormOneHistory ==
    \A c, d \in {x \in Calls : boundary[x] # None} :
        LET older == boundary[c].ledgerHead
            newer == boundary[d].ledgerHead
        IN  older.sequenceNumber <= newer.sequenceNumber =>
                older.headHash = SubSeq(newer.headHash, 1, Len(older.headHash))

\* Precision of the audit: of an honest mediator's effect, with no revocation
\* effective by its instant, the audit finds nothing but delay, as long as k
\* authorities answer well, and if its clock is wrong that it went backwards.
HonestEffectAuditsClean ==
    \A c \in Calls :
        (effectAt[c] # None /\ result[c] # None /\ Undisturbed(c))
        => /\ ChainIntact(HumanAuth, Token, boundary[c], result[c])
           /\ Codes(c) \subseteq CostsOfCircumstance(c)

\* ledgers.py:121-123: what executed strictly before the instant of a revocation
\* keeps its authority.  A revocation of its receipt or token that takes effect
\* after the instant an honest effect is judged at, by however little, can cost
\* it the head, which is compared in whole milliseconds, and nothing else.
LaterRevocationCostsHeadOnly ==
    \A c \in Calls :
        (/\ effectAt[c] # None /\ result[c] # None
         /\ AuthorityLiveNow(log, HumanAuth, Token, EffectiveInstant(boundary[c], result[c])))
        => /\ ChainIntact(HumanAuth, Token, boundary[c], result[c])
           /\ Codes(c) \subseteq CostsOfCircumstance(c) \cup {"STALE_HEAD_VS_KNOWN_REVOCATION"}

\* README.md:154-157: a certified effect stays certified.  A step that records
\* no revocation effective by the effect's instant leaves the verdict standing.
CertificateStands ==
    [][ \A c \in Calls :
            (/\ result[c] # None
             /\ Authorized(c)
             /\ \A e \in AllEntries(log') \ AllEntries(log) :
                    TakesEffectAfter(e, EffectiveInstant(boundary[c], result[c])))
            => Authorized(c)' ]_vars

\* The effect came before true time had moved on by more than the radius leaves
\* room for beside the quorum's error, and the call ends within the window.
Prompt(c) ==
    /\ effectAt[c] <= AddMs(boundary[c].verifiedAt, RadiusMs - QuorumErrorMs)
    /\ AddMs(now, 2 * (RadiusMs + QuorumErrorMs)) <= AddMs(boundary[c].verifiedAt, WindowMs)

RadiusAccepted == MaxAttestationRadiusMs = None \/ RadiusMs <= MaxAttestationRadiusMs

\* mediator.py:157-163, 217-244 with verifier.py:403-454: what the delays of the
\* code between its clock readings and its proofs may add up to.  An honest call
\* that ends in time, by a right clock and with its quorum, leaves with receipts
\* that the audit certifies.
PromptEffectCertified ==
    [][ \A c \in Calls :
            (/\ ClockErrorMs = 0 /\ RadiusAccepted
             /\ effectAt[c] # None /\ result[c] = None /\ result'[c] # None
             /\ Attested(c) => Prompt(c)
             /\ Undisturbed(c)' /\ QuorumKept(c)')
            => Authorized(c)' ]_vars

\* mediator.py:12 and :266: every effect ends with its result on record.
EffectGetsRecorded == \A c \in Calls : effectAt[c] # None ~> result[c] # None

-----------------------------------------------------------------------------
(* Statements of the repository that the code does not keep.               *)

\* mediator.py:12: one request -> one BoundaryReceipt -> at most one effect.
OneEffectPerRequest ==
    \A c, d \in Calls :
        (effectAt[c] # None /\ effectAt[d] # None
            /\ Request[c].requestId = Request[d].requestId) => c = d

\* README.md:154-157 and THREAT_MODEL.md:55: an action that ran before its own
\* authority was pulled stays authorized at execution.  An honest effect whose
\* receipt and token were never revoked is faulted for nothing but delay.
UnrelatedRevocationHarmless ==
    \A c \in Calls :
        (effectAt[c] # None /\ result[c] # None /\ UpstreamIds \cap DOMAIN log.entries = {})
        => Codes(c) \subseteq DelayCodes

\* THREAT_MODEL.md:6-7: an effect does not occur after the authority behind it
\* has been revoked.
EffectUnderLiveAuthority ==
    [][ \A c \in Calls : effectAt'[c] # effectAt[c]
                         => AuthorityLiveNow(log, HumanAuth, Token, now) ]_vars

==============================================================================
