# A TLA+ model of the delegation chain and its OAuth baselines

This directory models and verifies the three enforcement points of the
repository: the mediator of the signed delegation chain, with its ledgers, clock,
verifier and auditor, and the two OAuth servers it is compared with. Every
definition is translated from the Python source; `PROJECT.json` gives the lines
each one stands for.

## 1. The system

The repository compares three ways to put a tool call (delete a CRM contact)
behind an authority that can be revoked: a stateless OAuth server
(`vulnerable/`), one that introspects on each call (`diligent/`), and a mediator
that verifies a signed delegation chain and leaves receipts an independent
auditor replays (`pfc/`, `governed/`).

| Component | State it keeps | Operations | What makes it correct |
|---|---|---|---|
| `pfc/crypto.py` | none | `ms_between`, `add_ms`, hashes, signatures | time differences compare as the chain's checks assume |
| `KeyRegistry` | key id → record | `register`, `is_active_at` | a key answers for its owner, within its life |
| `RevocationLog` | entries by artifact, sequence, head hash | `revoke`, `is_revoked_at`, `all_entries`, `head` | heads, entries and history agree; the history only grows |
| `UsageLedger`, `NonceLog` | counts, seen nonces | `record` | a grant is never used more often than it allows |
| `IdempotencyLog` | key → payload hash | `record` | nothing calls it |
| `ArtifactStore` | artifacts by id | `put_*`, `get_hash` | receipts are never replaced |
| `pfc/attested_clock.py` | the quorum's keys, clock and radius | `prove`, `verify_time_proof` | a proof bounds the true time of what it is asked for |
| `pfc/verifier.py` | none (reads and, at issuance, consumes ledgers) | `evaluate_authorization`, `verify_chain` | certify only what was authorized; fault only what was not |
| `pfc/mediator.py` | none of its own between calls | `handle` | no effect without a passed check and a receipt; every effect recorded |
| `governed/auditor.py` | none | `bundle_from_world`, `build_audit_config`, `audit` | the rebuilt ledgers answer as the live ones; its verdict agrees with what happened |
| `governed/setup.py`, `adapters.py`, `runtime.py` | the world; the CRM's contacts | `build_world`, `execute`, `handle_instruction` | the deployment fits the chain's rules |
| `vulnerable/oauth.py` | grants, issued and revoked tokens | `grant_authority`, `revoke_authority`, `issue_token`, `introspect`, `verify_jwt_stateless` | a token is inactive exactly when its grant was pulled |
| `vulnerable/server.py` | contacts, audit log | `call_tool` | how long a withdrawn grant can still act |
| `diligent/server.py` | contacts, audit log | `call_tool` | each decision is right for some moment of the call |

**How they interact.** A governed request goes to `Mediator.handle`, which reads its
clock, captures a signed head of the revocation log, has the verifier decide
(consuming a nonce and a use on a pass), asks the time quorum for a lower-bound
proof, stores a signed boundary receipt, calls the adapter, reads its clock
again, asks for an upper-bound proof over the result and stores a result
receipt. The revocation service appends to the log at any time. The auditor
takes the two receipts and a snapshot of the log, rebuilds the ledgers and
replays the decision with `verify_chain`. At the OAuth servers a client presents
a token; the stateless one looks at the token alone, the diligent one also asks
the authorization server what the subject is granted now; both then dispatch
and log.

**What is hard.** The code has no locks and no threads of its own, but
`handle()` shares its ledgers with other calls and with the revocation service,
so a revocation, another call or the passage of time can fall between any two
of its steps; heads and verdicts are stamped with a clock reading taken earlier;
revocations may be recorded long before or after they take effect, and
repeatedly; time differences are truncated to milliseconds in some comparisons
and not in others; the mediator's clock may be wrong (the auditor does not trust it),
the quorum's is only known up to a radius, and some of its authorities may be silent or
sign badly; the audit happens later, against ledgers that have moved on and keys that have been
rotated. At the OAuth servers the grant moves between issuance, introspection
and dispatch. The `hazards` of `PROJECT.json` list these at their
lines. Nothing is persisted, so there is no crash recovery to model; messages
are function calls, neither lost nor duplicated, except that a client may hand
in a request again.

## 2. The modules

```
ChainTime ─┐
           ├─ AttestedClock ── Verifier ─┐
Ledgers ───┤                             ├─ Mediator ── Audit ── GatedMediator ── GovernedWorld ── MC*
           └─ RevocationLog ─────────────┘                          │
                   └─ AuditBundle ── MCRevocationLog          AuthorityGate (INSTANCE)
                                                                    │
AuthorizationServer ── ResourceServers ── DiligentGate ─────────────┘
                                               └── MCOAuth

RevocationLog_proofs ── AuditBundle_proofs ─┐
Audit_proofs ───────────────────────────────┴─ Certificate_proofs ─┐
      └─────────────────────────────────────── Enforcement_proofs ─┴─ Honest_proofs
                                                    └─ Gate_proofs
OAuth_proofs
```

| Module | Models | Correspondence |
|---|---|---|
| `ChainTime` | `ms_between`, `add_ms` | a timestamp is an integer number of clock units; `MsBetween` truncates toward zero as `int(...)` does |
| `Ledgers` | the ledgers as values | one operator per method: what it answers and the ledger it leaves. The head hash is the history it digests (no collisions) |
| `RevocationLog` | the live revocation service | variable `log`, action `Revoke` |
| `AuditBundle` | the auditor's rebuilt log | `Revocations` is the bundle's list in dict order, `AuditLog` replays `revoke` over it, one step of a recursive function per entry |
| `AttestedClock` | proofs and their verification | a signature is the key it claims and whether it verifies |
| `Verifier` | `evaluate_authorization`, `verify_chain` | errors are sets of the code's error codes, one operator per block of checks; the chain of authority is data |
| `Mediator` | `handle()`, the adapter, time, the quorum | see below |
| `Audit` | the auditor's verdict, and the properties | `audit()` changes nothing, so the verdict is a state function: a property of it at every state is a property of an audit at any moment |
| `AuthorityGate` | what an enforcement point promises | abstract: two variables, no receipts, ledgers, tokens or clocks |
| `GatedMediator` | the mediator as a gate | the refinement mapping |
| `GovernedWorld` | `build_world()` | keys, policy, receipt and token, with durations of a few clock units; how the quorum may answer |
| `AuthorizationServer` | `vulnerable/oauth.py` | one action per method that changes state; `Introspect` and `VerifyJwtStateless` are operators. A token is the record of its claims |
| `ResourceServers` | the two `call_tool`s | see below |
| `DiligentGate` | the diligent server as a gate | the refinement mapping, one gate per token |

Operators called `Mut...` are faulty variants (a dropped guard, a wrong counter,
a missing reset), named beside the operator they vary. No specification uses
them: each is what a property is tested against.

**The mediator's actions.** `pc[c]` says how far call `c` is in `handle()`,
`work[c]` holds its locals. A step ends where the code touches something shared:

| Action | Code | Does |
|---|---|---|
| `Bypass` | 123-129 | an unmapped type raises, a no-effect row returns |
| `ReadClock` | 141 | `verified_at` from the mediator's clock |
| `CaptureHead` | 144 | the head, stamped with `verified_at` |
| `Evaluate` | 148-158, verifier 185-287 | all checks, then the nonce, then the use |
| `Issue` | 160-207 | lower-bound proof, boundary receipt; BLOCKED returns, an unrouted action raises |
| `Execute` | 208-214 | the adapter acts or throws |
| `Complete` | 215 | `completed_at` |
| `Record` | 216-271 | upper-bound proof, result receipt |
| `RecordRevocation`, `Tick` | the environment | a revocation is recorded; true time advances |

`Evaluate` is one step because nothing in it lets other code run: it neither waits
nor calls the clock, the quorum, the store or the adapter, which are the points
at which the model interleaves. The ledgers take no lock (`record` only claims to be
atomic, ledgers.py:181, 198), so a mediator that several threads share is outside the
model, and what `UsageWithinGrant` says of overlapping calls is not said of it. `effectAt` and `late` are history variables: the
true time of an effect, and which calls began when authority was already
revoked for every reading the mediator's clock could give (`LiveForClock`): since
longer than the clock may be behind. `startedAt` and `resultHash` are left out: no check of
`verify_chain` reads the first, and the second is a function of the request and the outcome.

**Clocks and the quorum.** `now` is true time. The mediator's clock reads anything within
`ClockErrorMs` of it, the quorum's within `QuorumErrorMs`, which is no more than its
`RadiusMs` (the threat model's honest quorum, `THREAT_MODEL.md:20`); the runs
let it err by all of that, the theorems by less as well. In the run `drift` the mediator's clock may read
any instant at all. Each proof is answered by one member of `QuorumAnswers`,
chosen anew: which authorities sign it, and which of those badly.

**The OAuth servers' actions.** `CallTool` is a call's start, with the checks on its token
alone; `IntrospectionStep`, `Dispatch` and `AppendAudit` follow, one per point
where the call reads or changes something shared. `GrantAuthority`,
`RevokeAuthority`, `IssueToken` and `Tick` fall between any two of them. The
history variables, all set by `Observe`, tell what governance did without
looking at the server's own books: which tokens had their grant pulled after
issuance (`withdrawn`), what each subject held and when (`held`), whether a
call's authority was live, or not, at some moment while it waited for its introspection
(`everLive`, `everDead`), and which calls began too late (`late`).

## 3. The runs

All counts are of distinct states.

| Run | Question | Bounds | States |
|---|---|---|---|
| `log` | do entries, history, heads and the replayed snapshot agree? | 2 artifacts, 3 instants, 3 revocations, repeats allowed | 259 |
| `drift` | is a certificate right whatever the mediator's clock says, and does it stand? | 1 attested call and an unmapped request, 3 instants, any clock error, 2 revocations, repeats allowed, radius 1, quorum 2 of 3 | 148,002 |
| `concurrent` | overlapping calls and revocations | 2 calls, one of them for an action no adapter serves, single-use grant, 3 instants, 2 clock units per millisecond, 2 revocations | 168,649 |
| `honest` | does the audit agree with an honest mediator, and how soon must a call end to be certified? | an attested delete and a handoff, right clock, radius 1, window 5; the contact may be missing, one of three authorities signs badly and another may be silent, the grant expires at 1, keys expire or are revoked after issuance; 3 instants, 2 revocations | 277,896 |
| `live` | does every effect get recorded; is the mediator a gate? | 2 calls, 2 instants, a clock off by up to 1 ms, 1 revocation | 10,106 |
| `oauth` | on what authority, and for how long, do the OAuth servers act; is the diligent one a gate? | one call per server, 1 subject, 1 scope, 2 tokens of lifetime 2, 3 instants, grants and revocations without limit | 217,649 |

*Why the bounds are enough.* Two revocations allow one of each upstream
artifact, the same one twice, and one recorded on either side of any step; three
instants allow a revocation effective before, at and after an effect; a second
call is enough to exceed a single-use grant, and a third would be symmetric to
it, since calls interact only through the usage count and the contacts. The
attested runs need one such call, because the audit of a call reads no other call's
receipts. The quorum's readings are not limited to the instants, so it errs both ways at the
first and the last of them. With two
units per millisecond a revocation can follow an effect by less than
`ms_between` resolves. In `honest` the window of 5 is
the radius and the error twice over and one more, so that a call may end promptly
or not: with either bound of `Prompt` one unit larger the run finds a call that is not
certified. Two tokens let one be issued before and one after a
grant is pulled and given back; the lifetime of 2 ends within the instants for
one issued at 0 and outside for the others. The theorems of section 4 have none
of these bounds.

| Property | Says | Run |
|---|---|---|
| `LogTypeOK`, `HeadNamesHistory`, `EntryPinned`, `NothingForgotten` | sequence numbers, entries and the hashed history name one another: the stale-head comparison means "captured before this revocation was recorded" | `log` |
| `SnapshotAnswersAsLive` | the auditor's rebuilt log answers every query as the live one | `log` |
| `CertifiedMeansUnrevoked` | a certified attested effect ran when no revocation on record of its receipt or token was effective | `drift` |
| `CertificateStands` | only a revocation effective by the effect's attested instant can take a certificate away | `drift` |
| `CertifiedIntervalHoldsEffect` | where both proofs are asked for, a certified effect ran within the attested interval, and that is no wider than the window | `drift` |
| `EffectHasReceipt` | an effect has a stored PRE_EFFECT receipt for that very request | `concurrent` |
| `UsageWithinGrant` | uses are exactly the passed evaluations and never exceed the grant | `concurrent` |
| `RevocationLandsOnNextCall` | a call begun after the revocation has no effect | `concurrent`, `live` |
| `HeadsFormOneHistory` | of any two heads that receipts quote, the one with the lower number is the earlier state of one history | `concurrent` |
| `BlockedAuditsConsistent` | the audit agrees with every block | `honest` |
| `CertifiedMeansAttested` | only an effect that happened, and that k authorities dated, is certified | `honest` |
| `HonestEffectAuditsClean` | an honest effect with no revocation in force is faulted for delay at most, for a quorum that lost its threshold, or, when the mediator's clock is wrong, because that clock went backwards | `honest`, `concurrent`, `drift` |
| `PromptEffectCertified` | by a right clock, an honest call is certified if its effect comes within the radius less the quorum's error of its verification, and its end within the window less twice their sum | `honest` |
| `LaterRevocationCostsHeadOnly` | a revocation of its own authority that follows an honest effect by however little costs it at most the head | `concurrent` |
| `EffectGetsRecorded` | an effect leads to a result receipt | `live` |
| `ImplementsGate` | the mediator refines `AuthorityGate`, liveness included | `live` |
| `InactiveMeansWithdrawn` | introspection calls a token inactive exactly when its grant was pulled after issuance: a new grant revives none | `oauth` |
| `IntrospectionKnowsBearer` | the answer about a jti is about the token that was presented | `oauth` |
| `DecidedOnLiveAuthority` | the diligent server's decision was right at some moment between the call's start and its introspection, and only served calls delete | `oauth` |
| `ExposureEndsWithToken` | the stateless server acts on authority its subject held no longer ago than the token's lifetime | `oauth` |
| `EffectGetsLogged` | a served call leads to its line in the audit log | `oauth` |
| `ImplementsGates` | the diligent server refines `AuthorityGate`, once for every token | `oauth` |

`DecidedOnLiveAuthority` and `ImplementsGates` speak of the decision, not of the
effect: the grant may be pulled between introspection and dispatch
(`diligent/LIMITS.md`), as it may between evaluation and adapter call at the
mediator.

*Deadlock.* Calls end, instants run out and revocations are bounded, so the
models stop; the runs say `CHECK_DEADLOCK FALSE`. That calls do not get stuck
before their end is the liveness of `live` and `oauth`.

*Fairness.* `WF_vars(Continue(c))` for each call, and at the OAuth servers
`WF_vars(Continue(c) /\ Observe)`: `handle()` and `call_tool()` are straight-line
code that waits for nobody, so a call that has begun and can go on does. No
fairness is assumed of the start of a call, of time, of revocations or of
grants.

*Assumption of `RevocationLandsOnNextCall` and `ImplementsGate`.* No artifact is
revoked twice (`RevokeOnce`): a repeated revocation takes the first back. "After
the revocation" allows for the clock: a mediator that is behind by
`ClockErrorMs` evaluates before a revocation that is more recent than that, so
the gate's authority counts as withdrawn once `ClockErrorMs` has passed
(`LiveForClock`); for a right clock, at once.

### Where code and documentation part

Each of these runs finds a behaviour of the code that contradicts a sentence of
the repository.

| Run | Sentence | Behaviour |
|---|---|---|
| `revoked_again` | the log is append-only (ledgers.py:120) | a second revocation at a later instant replaces the first, and the artifact is no longer revoked in between |
| `spent_grant` | a correctly blocked chain has a consistent verdict (auditor.py:184-185) | the replay does not count uses, so it calls a `USAGE_LIMIT_EXCEEDED` block a `CHAIN_INTEGRITY_VIOLATION` |
| `revoked_mid_call` | no effect after the authority is revoked (THREAT_MODEL.md:6-7) | nothing is checked between the evaluation and the adapter call |
| `retry` | one request, at most one effect (mediator.py:12) | the nonce is fresh per call and `IdempotencyLog` is never consulted, so a repeated request id acts twice |
| `unrelated` | a delete that ran before its grant was pulled stays authorized (README.md:154-157) | the revocation of any artifact that takes effect between the head's `capturedAt` and `t_ub` triggers the stale-head check, even one recorded before the head was captured and counted by it |
| `scope_in_token` | at the diligent server the scope is fixed in the token (THREAT_MODEL.md:47) | it authorizes by the subject's current grant and never reads the token's scope (server.py:50) |

## 4. What is proved

The `*_proofs` modules hold for every value of the constants, under the named
assumptions of the modules: `RevocationAssumption` (instants are integers,
`None` is not one), `UnitsPerMsAssumption`, `VerifierAssumption` (the threshold is a
number, the largest radius a number or `None`), `MediatorAssumption` (the world starts at an instant; radius, clock
error and window are not negative; the quorum errs by no more than its radius; the upstream artifacts are dated; a quorum
answer has finitely many signers; a limit on uses is a number), `AuthorizationAssumption` and `ServersAssumption` for the
OAuth servers. What a theorem assumes beyond these is in its `ASSUME`.

One hypothesis recurs in the theorems about certificates and honest chains:
`NoneIsNoValue`, that `None` is neither an effect reference nor a time proof. It
stands for Python's `None` being no string and no object, and TLC's model value
`None` satisfies it.

**The log** (`RevocationLog_proofs`: `LogInvariant`, `LogTypeCorrect`,
`HeadsNameHistory`, `EntriesArePinned`, `RevocationsAreKept`).
The four invariants are inductive together. `EntryPinned` is not by itself: that the
new entry's sequence is a place of the history needs `seq = Len(headHash)`,
which is `HeadNamesHistory`, and that the history is a sequence, which is
`LogTypeOK`. `RevokedOnceStaysRevoked` is the other side of the run
`revoked_again`: what that run refutes does hold where no artifact is revoked twice.

**The auditor's copy of the log** (`AuditBundle_proofs`: `SnapshotsAnswerAsLive`).
The bundle lists a dict, so the entries come by the place at which their
artifact was *first* recorded, and their sequence numbers are new. The places
number the artifacts (`PlacesNumberArtifacts`: two artifacts never share one, by
`NothingForgotten`), so the list names each entry once (`BundleListsEntries`), and
a replay step adds one artifact and disturbs no other (`ReplayedEntries`). A fact
about every step of the replay is shown by taking the smallest step that would
fail it (`SmallestOf`), which needs no induction theorem.

**The mediator and its certificates** (`Audit_proofs`).
* `TypeCorrect`: `TypeOK` is inductive because it ties locals to the
  program counter: `verifiedAt` is read by every call under way, the boundary
  receipt by every call past its verification, `completedAt` by `Record`.
* `EffectsHaveReceipts`: the strengthening is
  `CallOrdered` (an effect exists only from `complete` on, a result only at the
  end) and `ReceiptIssued` (a call past the verification, or with an effect,
  has its PRE_EFFECT receipt): the step that makes the effect reads the receipt
  its predecessor stored.
* `CertificatesAreSound`: two facts about true time
  are added: an effect is never in the future (`EffectPast`), and a proof on
  record ends at or after its effect (`ProofBounds`). The second holds because
  the proof is asked for after the effect and an honest quorum reads within its
  radius (`ProofIsUpperBound`), whatever the mediator's clock reads; no fact
  about that clock is used. `CertificateJudgedAtUpperBound` then shows that a
  certificate without errors was judged at that upper bound: no revocation of
  the receipt or token is effective by it, so none was at the earlier effect.

**What a certificate is worth** (`Certificate_proofs`).
* `CertificatesAreAttested`: `ResultTrue` says that a result receipt is true of
  what happened (an effect reference only after an effect, times that are times,
  finitely many signers); a clean verdict then leaves at least k of them.
* `CertificatesStand`: the receipts of a finished call are final
  (`ChainIsFinal`), so only the log can change the verdict. `EntryPinned` makes a recorded
  revocation a new entry, and one that takes effect later than the judged
  instant triggers neither comparison (`LaterRevocationIgnored`, `NotAfter`),
  for any clock unit.
* `CertifiedIntervalsHold` (under `NoneIsNoValue`): `BoundaryTrue` follows the head and the lower-bound
  proof from the step that obtains them to the receipt, whose proof ends no later than the
  effect because it was asked for before it (`ProofIsLowerBound`). The
  invariant `ReceiptInv`, with the upper bound of `ProofBounds`, is proved for
  every state (`ReceiptInvariant`). An accepted proof has k sound signers (`AcceptedProofAttests`).
* `CertifiedTimesAreTimely` (likewise): what that buys an auditor. The comparisons of the
  replay truncate to milliseconds (`MsBetweenTruncates`), so each loses up to
  one; added up, a certified `completedAt` is within the window and 3 ms of
  the true time of the effect, whatever the mediator's clock read.
* `HeadsAreOneHistory`: a head is the history cut at its number, and stays so as
  the history grows (`HeadStaysCut`).
* `BundleVerdictsAreLive`: with the result about the copy, every verdict
  stated above of the live log is the one an auditor reaches from a bundle.

**What the audit says of honest chains** (`Honest_proofs`), in a deployment that is `WellDeployed`:
keys with the right owners, a token that delegates the receipt to the mediator,
a quorum where the policy calls for one. `GovernedWorld` assumes it by name and every run checks it.
* `HonestEffectsAuditClean` (also `NoneIsNoValue`; any clock error). `HonestInv` says that each receipt is the one its call's locals
  give (`ReceiptsBuilt`), that a cleared call passed every check that neither time
  nor order can change (`SoundRequest`), and, for a right clock, that its readings are in order
  (`ReadInOrder`); a wrong one can cost it the codes for a clock that went
  backwards (`ClockCodes`), and no others. The audit's checks are then taken one group at a time:
  what no order can change is sound, the head is the one given, no revocation
  is effective (`NothingRevoked`), and a proof of the quorum lacks only what
  delay or missing authorities cost it (`StampedProofFaults`). Repeated
  revocations are allowed.
* `UnrelatedRevocationsCostHead` bounds what the run `unrelated` finds: when
  neither upstream artifact is revoked, revocations of others can cost an honest
  effect `STALE_HEAD_VS_KNOWN_REVOCATION` and nothing else.
* `LaterRevocationsCostHeadOnly` (also `NoneIsNoValue`): `is_revoked_at` compares exactly and the
  stale-head check in whole milliseconds, so a revocation less than one after the effect can fault
  it, against ledgers.py:121-123; what it costs is the head and never the authority.
* `PromptEffectsAreCertified` (also `NoneIsNoValue`) turns "nothing but delay" into how much delay:
  `PromptInv` follows the lower-bound proof from the receipt to the effect and says
  how near it is to both (`LowerTight`), and that a right clock's completion is not in the
  future. The last step of the call dates the upper bound (`RecordDates`), and the
  sums of the two errors then order the attested times (`PromptSandwich`) within
  the truncated window (`WithinCap`). Whatever else the audit checks replays clean
  (`HonestDecisionReplays`), so the verdict stands. That verdict is of the state the step
  leads to, so it is stated as a fact of states (`PromptVerdict`) and used there.
* `BlocksAuditConsistent` (also a grant of unlimited uses, sound upstream
  artifacts and `RevokeOnce`; any mediator clock). What denied a blocked call denies it still
  (`Denials`): the replay reads the same head and the same reading, and the log
  can only add to the denial. The run `spent_grant` shows that the limit on uses
  cannot be dropped from its assumptions.

**Enforcement** (`Enforcement_proofs`).
* `UsesStayWithinGrant`: `UsageWithinGrant` counts
  the passed calls, so the strengthening says that a call has no nonce in the log
  before its evaluation (`NonceFresh`) and that the passed calls are a finite set:
  a pass then adds exactly one element, and the check before it leaves room.
* `RevocationLands`, assuming `RevokeOnce`: `Doomed` follows a call begun under revoked authority: until its
  evaluation the authority is revoked as of the clock reading it holds, after it
  the errors are not empty, and then the call has returned. The reading is at
  most `ClockErrorMs` behind (`ClockBehind`), and what is revoked at an instant is
  revoked at every later one (`RevokedLater`). That it stays so needs
  `RevokedStays`, which is where a repeated revocation would break the argument.

**The mediator is a gate** (`Gate_proofs`: `MediatorIsGate`, same assumption).
The initial state is the gate's and every step is a step of the gate or leaves
it as it is. `GateInv` joins the two invariants above with `Progress`, which
reads off a call's locals how far it is; the calls the gate has let through are
then the passed evaluations (`SpentIsPassed`), so the gate's limit on uses is
the ledger's.

**The OAuth servers** (`OAuth_proofs`).
* `OAuthTypeCorrect`, and `ServerInvariance`: every token is founded on what its
  subject held at its `iat`, and the revoked tokens are the withdrawn ones. From these
  `OnlyWithdrawnTokensDie`, `BearersAreKnown` and
  `StatelessExposureIsBounded`, for any subjects, lifetimes and histories.
* `DiligentDecisionsAreLive`: `DiligentInv` says that a call leaves its
  introspection only with an answer that governance would have given
  (`IntrospectionIsLive`), and that a missing contact was deleted by such a call.
* `DiligentServerIsGate`: each step is, for the gate of every token, its step or
  none. `LateKnowledge` (a late call waits with a token that stays withdrawn)
  is what makes a doomed call denied.

`OthersUntouched` and the frame lemmas reduce each step to the one call that takes
it, so the proofs hold for any number of calls.

*Only model-checked:* liveness (`EffectGetsRecorded`, `EffectGetsLogged`, and
that the gates decide every call), which is beyond the prover. Every other
property of a passing run is a theorem. Of `ImplementsGate` and
`ImplementsGates` the theorems state all but that liveness.
`CertifiedTimesAreTimely`, `UnrelatedRevocationsCostHead` and
`BundleVerdictsAreLive` are proved and no run checks them.

## 5. What is not modelled

* Canonical JSON, SHA-256, Ed25519, JWT encoding: a digest is its argument, a signature is the
  key it verifies under, a token is its claims.
* A proof that repeats a signature: `prove()` lists each key once, and signatures are a set here.
* The rounding of `ms_between`'s float product (crypto.py:145), by which a whole
  number of milliseconds may come out one short. It never changes a sign, and of the
  comparisons only those with a cap or a bound could differ by that one.
* `KeyRegistry.register` as an action: nothing registers a key after
  `build_world()`, and a replaced record is read as of an instant like any other.
  Keys that expire or are revoked in the course of a run are in `honest`.
* A quorum or a store that raises: those of the repository return.
  An exception after the effect (mediator.py:244) would leave an effect without
  a result.
* A mediator that forges receipts. The model's mediator runs its code with a
  clock that may be wrong; what an auditor makes of altered receipts is the
  subject of the repository's tests. Likewise tokens the authorization server did not sign.
* `IdempotencyLog`, which nothing calls, and a `last_sequence` given to `audit()`,
  which no caller passes. `HeadsFormOneHistory` is what an auditor who kept one
  could rely on.
* The instant `authorityLiveNow` is asked about: `bundle_from_world` stamps a bundle
  with the wall clock, `audit()` falls back to it (auditor.py:111-112), `main()` to the
  latest timestamp of the bundle. `AuthorityLiveNow` is a function of any of them, and
  `BundleVerdictsAreLive` says that for each it is what the live log answers.
* The demos, the tests, the stub language model, the channel adapter, the
  auditor's file format and command line.

## 6. Plan

The modules were written from the ledgers up: ledgers, clock, verifier,
mediator, auditor; then the abstract gate; then the OAuth servers, as a second
implementation of it; then the proofs, from type correctness to the
refinements and the audit's agreement with the mediator. The plan is done. What could still be added needs
code the repository does not have: a mediator that consults
`IdempotencyLog` (then `OneEffectPerRequest` should pass), an auditor that
remembers heads (then the rollback check has something to compare with), and
stores and quorums that raise (then `EffectGetsRecorded` needs a recovery to
rest on).
