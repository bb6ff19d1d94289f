----------------------------- MODULE GovernedWorld -----------------------------
(***************************************************************************)
(* governed/setup.py, build_world(): the deployment the runs instantiate,   *)
(* with durations scaled to a few clock units.                             *)
(***************************************************************************)
EXTENDS GatedMediator

AGENT_A == "agent:issuer"
MEDIATOR == "agent:crm-mediator"
TimeAuthorityKeys == {"ta-key-0", "ta-key-1", "ta-key-2"}

\* All authorities sign; or one of three signs badly, and of the others one
\* may not answer at all.
UNANIMOUS == {[signers |-> TimeAuthorityKeys, corrupt |-> {}]}
FAULTY == UNANIMOUS \cup
    {[signers |-> TimeAuthorityKeys, corrupt |-> {"ta-key-0"}],
     [signers |-> {"ta-key-0", "ta-key-1"}, corrupt |-> {"ta-key-0"}]}

KeyOwner ==
    [k \in {"gov-key", "a-key", "b-key", "rev-key"} \cup TimeAuthorityKeys |->
        CASE k = "gov-key" -> GOVERNANCE_OWNER
          [] k = "a-key"   -> AGENT_A
          [] k = "b-key"   -> MEDIATOR
          [] k = "rev-key" -> REVOCATION_SERVICE_OWNER
          [] OTHER         -> TIME_AUTHORITY_OWNER]

KeyRegistry ==
    [k \in DOMAIN KeyOwner |->
        [owner |-> KeyOwner[k], registeredAt |-> -1, expiresAt |-> 1000, revokedAt |-> None]]

PERMITTED_ACTIONS == {"delete", "read"}
PERMITTED_TARGETS == {"crm"}

MAPPING ==
    [t \in {"DELETE_CONTACT", "READ_CONTACT", "HANDOFF"} |->
        [action   |-> CASE t = "DELETE_CONTACT" -> "delete" [] t = "READ_CONTACT" -> "read"
                        [] OTHER -> "",
         target   |-> IF t = "HANDOFF" THEN "" ELSE "crm",
         risk     |-> IF t = "DELETE_CONTACT" THEN "HIGH" ELSE "LOW",
         noEffect |-> t = "HANDOFF"]]

ACTION_RISK == [a \in PERMITTED_ACTIONS |-> IF a = "delete" THEN "HIGH" ELSE "LOW"]

\* The session token carries the loosest bound; the actions tighten it.
FRESHNESS == [r \in {"HIGH", "MEDIUM", "LOW"} |->
                CASE r = "HIGH" -> 1 [] r = "MEDIUM" -> 2 [] OTHER -> 3]

MakeHumanAuth(usagePolicy, maxUses, expiresAt) ==
    [receiptId |-> "har-1", authorizedAgent |-> AGENT_A,
     permittedActions |-> PERMITTED_ACTIONS, permittedTargets |-> PERMITTED_TARGETS,
     usagePolicy |-> usagePolicy, maxUses |-> maxUses,
     issuedAt |-> 0, expiresAt |-> expiresAt, issuerKeyId |-> "gov-key", signedBy |-> "gov-key"]

MakeToken(har, expiresAt) ==
    [tokenId |-> "dt-1", issuerAgent |-> AGENT_A, issuerKeyId |-> "a-key",
     parentReceiptId |-> har.receiptId, parentReceiptHash |-> HashArtifact(har),
     delegateeAgent |-> MEDIATOR, delegateeKeyId |-> "b-key",
     permittedActions |-> PERMITTED_ACTIONS, permittedTargets |-> PERMITTED_TARGETS,
     maxAgeMs |-> FRESHNESS["LOW"],
     issuedAt |-> 0, expiresAt |-> expiresAt, signedBy |-> "a-key"]

\* The deployment is one the chain's rules fit (setup.py:62-117).
ASSUME WellDeployedAssumption == WellDeployed

==============================================================================
