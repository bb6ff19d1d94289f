--------------------------- MODULE ResourceServers ---------------------------
(***************************************************************************)
(* The two OAuth baselines, vulnerable/server.py and diligent/server.py,    *)
(* in front of one authorization server: concurrent calls of call_tool,     *)
(* one action per point at which a call reads or changes something shared.  *)
(* Grants, revocations, issuance and time go on between any two of them.    *)
(***************************************************************************)
EXTENDS AuthorizationServer

CONSTANTS None,         \* Python's None
          Calls,        \* invocations of call_tool()
          Server,       \* call -> "stateless" or "diligent"
          Tool,         \* call -> the tool and operation it names
          Contact,      \* call -> contactId
          Audience,     \* the audience both servers answer to
          Contacts      \* contacts each server starts with

Servers == {"stateless", "diligent"}

ASSUME ServersAssumption ==
    /\ Server \in [Calls -> Servers]
    /\ None \notin Claims \cup Int

VARIABLES contacts,     \* server -> contacts left in its CRM
          auditLog,     \* calls that have a line in their server's audit_log
          pc,           \* call -> the next step of call_tool()
          bearer,       \* call -> the token it presents
          calledAt,     \* call -> its "now" argument
          withdrawn,    \* history: tokens whose grant was popped after they were issued
          held,         \* history: <<sub, scope, instant>> the subject was granted
          everLive,     \* history: calls whose authority was live while they waited
          everDead,     \* history: calls whose authority was not, while they waited
          late          \* history: calls that began with a withdrawn token

callVars == <<contacts, auditLog, pc, bearer, calledAt>>
history == <<withdrawn, held, everLive, everDead, late>>
vars == <<asVars, callVars, history>>

TOOL_SCOPES == [delete |-> "crm:delete", read |-> "crm:read"]

Known(c) == Tool[c] \in DOMAIN TOOL_SCOPES
Required(c) == TOOL_SCOPES[Tool[c]]

Init ==
    /\ ASInit
    /\ contacts = [s \in Servers |-> Contacts]
    /\ auditLog = {}
    /\ pc = [c \in Calls |-> "idle"]
    /\ bearer = [c \in Calls |-> None]
    /\ calledAt = [c \in Calls |-> None]
    /\ withdrawn = {} /\ held = {} /\ everLive = {} /\ everDead = {} /\ late = {}

Goto(c, from, to) == pc[c] = from /\ pc' = [pc EXCEPT ![c] = to]

\* The checks a call passes on its token alone, at the start of call_tool.
PassesStateless(c, token) ==
    /\ VerifyJwtStateless(token, Audience, now)
    /\ Server[c] = "stateless" => Known(c) /\ Required(c) \in token.scope

\* A client calls with any token it was ever given (client.py keeps one).
CallTool(c) ==
    /\ \E j \in DOMAIN issued :
        /\ bearer' = [bearer EXCEPT ![c] = issued[j]]
        /\ Goto(c, "idle", IF ~PassesStateless(c, issued[j]) THEN "refused"
                           ELSE IF Server[c] = "stateless" THEN "dispatch" ELSE "introspect")
    /\ calledAt' = [calledAt EXCEPT ![c] = now]
    /\ UNCHANGED <<asVars, contacts, auditLog>>

\* The scope the diligent server authorizes against is the live one.
IntrospectionStep(c) ==
    LET info == Introspect(bearer[c].jti)
    IN  /\ Goto(c, "introspect",
                IF info.active /\ Known(c) /\ Required(c) \in info.scope
                THEN "dispatch" ELSE "refused")
        /\ UNCHANGED <<asVars, contacts, auditLog, bearer, calledAt>>

\* _dispatch: a delete pops the contact if it is there, a read changes nothing.
Dispatch(c) ==
    /\ Goto(c, "dispatch", "log")
    /\ contacts' = IF Tool[c] = "delete"
                   THEN [contacts EXCEPT ![Server[c]] = @ \ {Contact[c]}] ELSE contacts
    /\ UNCHANGED <<asVars, auditLog, bearer, calledAt>>

MutAppendAudit(c) ==
    Goto(c, "log", "returned") /\ UNCHANGED <<asVars, contacts, auditLog, bearer, calledAt>>

AppendAudit(c) ==
    /\ Goto(c, "log", "returned")
    /\ auditLog' = auditLog \cup {c}
    /\ UNCHANGED <<asVars, contacts, bearer, calledAt>>

Continue(c) == IntrospectionStep(c) \/ Dispatch(c) \/ AppendAudit(c)

-----------------------------------------------------------------------------
(* The authority behind a call, told from what governance did: its token's  *)
(* grant has not been popped since issuance, and the subject is granted now *)
(* what the tool requires.                                                  *)
Granted(sub, scope) == sub \in DOMAIN grants /\ scope \in grants[sub]

AuthorityLive(c) ==
    /\ bearer[c].jti \notin withdrawn
    /\ Known(c) /\ Granted(bearer[c].sub, Required(c))

Observe ==
    /\ withdrawn' = withdrawn \cup
          {j \in DOMAIN issued : issued[j].sub \in DOMAIN grants \ DOMAIN grants'}
    /\ held' = held \cup {h \in Subs \X Scopes \X {now'} : Granted(h[1], h[2])'}
    /\ everLive' = everLive \cup {c \in Calls : pc'[c] = "introspect" /\ AuthorityLive(c)'}
    /\ everDead' = everDead \cup {c \in Calls : pc'[c] = "introspect" /\ ~AuthorityLive(c)'}
    /\ late' = late \cup {c \in Calls : /\ pc[c] = "idle" /\ pc'[c] = "introspect"
                                         /\ bearer'[c].jti \in withdrawn}

Next ==
    /\ \/ ASNext /\ UNCHANGED callVars
       \/ \E c \in Calls : CallTool(c) \/ Continue(c)
    /\ Observe

\* A call in progress never waits; nothing makes a call, a grant or time go on.
Fairness == \A c \in Calls : WF_vars(Continue(c) /\ Observe)

Spec == Init /\ [][Next]_vars /\ Fairness

-----------------------------------------------------------------------------
PcValues == {"idle", "introspect", "dispatch", "log", "returned", "refused"}

Served(c) == pc[c] \in {"log", "returned"}

TypeOK ==
    /\ now \in Instants
    /\ DOMAIN grants \subseteq Subs /\ \A s \in DOMAIN grants : grants[s] \subseteq Scopes
    /\ issued \in Seq(Claims)
    /\ revokedJti \subseteq DOMAIN issued
    /\ contacts \in [Servers -> SUBSET Contacts]
    /\ auditLog \subseteq Calls
    /\ pc \in [Calls -> PcValues]
    /\ bearer \in [Calls -> Claims \cup {None}]
    /\ calledAt \in [Calls -> Instants \cup {None}]
    /\ \A c \in Calls : pc[c] # "idle" => bearer[c] # None /\ calledAt[c] # None
    /\ \A c \in Calls : pc[c] = "introspect" => Server[c] = "diligent"
    /\ withdrawn \subseteq Nat /\ held \subseteq Subs \X Scopes \X Instants
    /\ everLive \subseteq Calls /\ everDead \subseteq Calls /\ late \subseteq Calls

\* What introspection says of a jti it says of the token that was presented:
\* no later issue_token reuses or rewrites it (oauth.py:87).
IntrospectionKnowsBearer ==
    \A c \in Calls : bearer[c] # None =>
        /\ bearer[c].jti \in DOMAIN issued
        /\ issued[bearer[c].jti] = bearer[c]

\* oauth.py:71-78: a token is inactive exactly when its grant was popped after
\* it was issued.  A new grant to the subject revives none of its old tokens,
\* and a revocation reaches no other subject's.
InactiveMeansWithdrawn ==
    \A j \in DOMAIN issued : Introspect(j).active <=> j \notin withdrawn

\* diligent/LIMITS.md:3-7 and README.md:73-77: the diligent server decides by
\* the authority that was live at some moment between the start of the call
\* and its introspection.  A call it serves was authorized then; a call it
\* refuses after introspection was not; and a contact is gone from its CRM only
\* if such a call deleted it.
DecidedOnLiveAuthority ==
    /\ \A c \in Calls : Server[c] = "diligent" =>
        /\ Served(c) => c \in everLive
        /\ pc[c] = "refused" /\ c \in everLive \cup everDead => c \in everDead
    /\ \A x \in Contacts \ contacts["diligent"] :
        \E c \in everLive : Served(c) /\ Tool[c] = "delete" /\ Contact[c] = x

\* vulnerable/oauth.py:71-74, server.py:44-45: the stateless server serves a
\* call on authority its subject may have lost, but had within the lifetime
\* of the token before the call.
ExposureEndsWithToken ==
    \A c \in Calls :
        (Server[c] = "stateless" /\ Served(c)) =>
            \E t \in Instants :
                /\ <<bearer[c].sub, Required(c), t>> \in held
                /\ t <= calledAt[c]
                /\ calledAt[c] < t + (bearer[c].exp - bearer[c].iat)

\* server.py:48-49: what a call did ends up in its server's audit log.
EffectGetsLogged == \A c \in Calls : Served(c) ~> c \in auditLog

-----------------------------------------------------------------------------
\* THREAT_MODEL.md:47: the scope of a call is fixed in its token, for both
\* servers.
ScopeFixedInToken == \A c \in Calls : Served(c) => Required(c) \in bearer[c].scope

==============================================================================
