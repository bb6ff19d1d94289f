---------------------------- MODULE OAuth_proofs ----------------------------
(***************************************************************************)
(* What the two OAuth baselines keep, for any subjects, scopes, clock,      *)
(* number of tokens and calls, and the diligent server as an authority     *)
(* gate.                                                                    *)
(***************************************************************************)
EXTENDS DiligentGate, TLAPS

\* A token is numbered by its place, issued in the past, and every scope in it
\* was granted to its subject when it was issued.
TokensFounded ==
    \A j \in DOMAIN issued :
        /\ issued[j].jti = j
        /\ issued[j].iat <= now
        /\ \A x \in issued[j].scope : <<issued[j].sub, x, issued[j].iat>> \in held

\* The server's books agree with what governance did.
RevokedAreWithdrawn ==
    /\ withdrawn = revokedJti
    /\ \A j \in DOMAIN issued : j \notin revokedJti => issued[j].sub \in DOMAIN grants

GrantsAreHeld == \A s \in DOMAIN grants : \A x \in grants[s] : <<s, x, now>> \in held

ServerInv == TokensFounded /\ RevokedAreWithdrawn /\ GrantsAreHeld

-----------------------------------------------------------------------------
\* Governance and time leave the calls alone, a call leaves the server alone.
LEMMA StepCases ==
    ASSUME Next
    PROVE  /\ Observe
           /\ \/ ASNext /\ UNCHANGED callVars
              \/ UNCHANGED asVars /\ \E c \in Calls : CallTool(c) \/ Continue(c)
BY DEF Next, CallTool, Continue, IntrospectionStep, Dispatch, AppendAudit

\* The tokens issued so far are never changed: issue_token only adds one.
LEMMA IssuedOnlyGrows ==
    ASSUME TypeOK, Next
    PROVE  /\ issued' \in Seq(Claims)
           /\ now' \in Instants /\ now <= now'
           /\ \A j \in DOMAIN issued : j \in DOMAIN issued' /\ issued'[j] = issued[j]
<1> USE AuthorizationAssumption
<1>1. CASE UNCHANGED asVars
    BY <1>1 DEF asVars, TypeOK
<1>2. ASSUME NEW s \in Subs, NEW aud \in Audiences, NEW scope \in SUBSET Scopes,
             NEW ttl \in Ttls, IssueToken(s, aud, scope, ttl)
      PROVE  /\ issued' \in Seq(Claims)
             /\ now' \in Instants /\ now <= now'
             /\ \A j \in DOMAIN issued : j \in DOMAIN issued' /\ issued'[j] = issued[j]
    <2>1. Token(s, aud, scope, ttl, Len(issued) + 1) \in Claims
        BY DEF Token, Claims, TypeOK
    <2>2. issued' = Append(issued, Token(s, aud, scope, ttl, Len(issued) + 1)) /\ now' = now
        BY <1>2 DEF IssueToken
    <2> QED BY <2>1, <2>2 DEF TypeOK
<1>3. CASE \E s \in Subs, scopes \in SUBSET Scopes : GrantAuthority(s, scopes)
    BY <1>3 DEF GrantAuthority, TypeOK
<1>4. CASE \E s \in Subs : RevokeAuthority(s)
    BY <1>4 DEF RevokeAuthority, TypeOK
<1>5. CASE Tick
    BY <1>5 DEF Tick, TypeOK
<1> QED BY <1>1, <1>2, <1>3, <1>4, <1>5, StepCases DEF ASNext

\* Governance keeps the grants a map from subjects to scopes.
LEMMA GrantsTyped ==
    ASSUME TypeOK, Next
    PROVE  /\ DOMAIN grants' \subseteq Subs
           /\ \A s \in DOMAIN grants' : grants'[s] \subseteq Scopes
<1>1. CASE UNCHANGED grants
    BY <1>1 DEF TypeOK
<1>2. ASSUME NEW s \in Subs, NEW scopes \in SUBSET Scopes, GrantAuthority(s, scopes)
      PROVE  /\ DOMAIN grants' \subseteq Subs
             /\ \A x \in DOMAIN grants' : grants'[x] \subseteq Scopes
    BY <1>2 DEF GrantAuthority, TypeOK
<1>3. ASSUME NEW s \in Subs, RevokeAuthority(s)
      PROVE  /\ DOMAIN grants' \subseteq Subs
             /\ \A x \in DOMAIN grants' : grants'[x] \subseteq Scopes
    BY <1>3 DEF RevokeAuthority, Without, TypeOK
<1> QED BY <1>1, <1>2, <1>3, StepCases DEF ASNext, IssueToken, Tick, asVars

\* Where a step may take a call, and what it may change on the way.
Unmoved(c) == pc'[c] = pc[c] /\ bearer'[c] = bearer[c] /\ calledAt'[c] = calledAt[c]

Begins(c) ==
    /\ pc[c] = "idle" /\ now' = now /\ calledAt'[c] = now
    /\ \E j \in DOMAIN issued :
        /\ bearer'[c] = issued[j]
        /\ pc'[c] = IF ~PassesStateless(c, issued[j]) THEN "refused"
                    ELSE IF Server[c] = "stateless" THEN "dispatch" ELSE "introspect"

Decides(c) ==
    /\ pc[c] = "introspect" /\ UNCHANGED asVars
    /\ pc'[c] = IF /\ Introspect(bearer[c].jti).active
                   /\ Known(c) /\ Required(c) \in Introspect(bearer[c].jti).scope
                THEN "dispatch" ELSE "refused"
    /\ bearer'[c] = bearer[c] /\ calledAt'[c] = calledAt[c]

Finishes(c) ==
    /\ \/ pc[c] = "dispatch" /\ pc'[c] = "log"
       \/ pc[c] = "log" /\ pc'[c] = "returned"
    /\ bearer'[c] = bearer[c] /\ calledAt'[c] = calledAt[c]

\* What a step does to a call: how far it gets, and what it keeps.
LEMMA CallMoves ==
    ASSUME TypeOK, Next, NEW c \in Calls
    PROVE  Unmoved(c) \/ Begins(c) \/ Decides(c) \/ Finishes(c)
<1> USE DEF Goto
<1>1. pc \in [Calls -> PcValues] /\ DOMAIN bearer = Calls /\ DOMAIN calledAt = Calls
    BY DEF TypeOK
<1>2. CASE ASNext /\ UNCHANGED callVars
    BY <1>2 DEF callVars, Unmoved
<1>3. ASSUME NEW d \in Calls, CallTool(d) PROVE Unmoved(c) \/ Begins(c)
    BY <1>1, <1>3 DEF CallTool, asVars, Unmoved, Begins
<1>4. ASSUME NEW d \in Calls, IntrospectionStep(d) PROVE Unmoved(c) \/ Decides(c)
    BY <1>1, <1>4 DEF IntrospectionStep, Unmoved, Decides
<1>5. ASSUME NEW d \in Calls, Dispatch(d) PROVE Unmoved(c) \/ Finishes(c)
    BY <1>1, <1>5 DEF Dispatch, Unmoved, Finishes
<1>6. ASSUME NEW d \in Calls, AppendAudit(d) PROVE Unmoved(c) \/ Finishes(c)
    BY <1>1, <1>6 DEF AppendAudit, Unmoved, Finishes
<1> QED BY <1>2, <1>3, <1>4, <1>5, <1>6, StepCases DEF Continue

\* Governance touches the books only by adding to them, and a token that is
\* withdrawn by a step is one whose grant the step pops.
LEMMA Observations ==
    ASSUME TypeOK, Next
    PROVE  /\ withdrawn' = withdrawn \cup
                 {j \in DOMAIN issued : issued[j].sub \in DOMAIN grants \ DOMAIN grants'}
           /\ held \subseteq held'
           /\ held' \subseteq held \cup Subs \X Scopes \X {now'}
           /\ \A s \in DOMAIN grants' : \A x \in grants'[s] : <<s, x, now'>> \in held'
<1>1. /\ DOMAIN grants' \subseteq Subs
      /\ \A s \in DOMAIN grants' : grants'[s] \subseteq Scopes
    BY GrantsTyped
<1>2. Observe
    BY StepCases
<1> QED BY <1>1, <1>2 DEF Observe, Granted

\* PassesStateless keeps the stateless server's calls out of introspection.
LEMMA TypeStep == TypeOK /\ [Next]_vars => TypeOK'
<1> SUFFICES ASSUME TypeOK, [Next]_vars PROVE TypeOK'
    OBVIOUS
<1>1. CASE UNCHANGED vars
    BY <1>1 DEF vars, asVars, callVars, history, TypeOK
<1>2. ASSUME Next PROVE TypeOK'
    <2> USE <1>2
    <2>1. /\ now' \in Instants
          /\ DOMAIN grants' \subseteq Subs /\ \A s \in DOMAIN grants' : grants'[s] \subseteq Scopes
          /\ issued' \in Seq(Claims)
        BY IssuedOnlyGrows, GrantsTyped
    <2>2. revokedJti' \subseteq DOMAIN issued'
        <3>1. revokedJti' \subseteq DOMAIN issued
            BY StepCases DEF TypeOK, asVars, ASNext, GrantAuthority, RevokeAuthority, IssueToken, Tick
        <3> QED BY <3>1, IssuedOnlyGrows
    <2>3. /\ contacts' \in [Servers -> SUBSET Contacts]
          /\ auditLog' \subseteq Calls
          /\ pc' \in [Calls -> PcValues]
          /\ bearer' = [c \in Calls |-> bearer'[c]] /\ calledAt' = [c \in Calls |-> calledAt'[c]]
        <3>1. CASE UNCHANGED callVars
            BY <3>1 DEF callVars, TypeOK
        <3>2. ASSUME NEW c \in Calls, CallTool(c) \/ Continue(c)
              PROVE  /\ contacts' \in [Servers -> SUBSET Contacts]
                     /\ auditLog' \subseteq Calls
                     /\ pc' \in [Calls -> PcValues]
                     /\ bearer' = [d \in Calls |-> bearer'[d]]
                     /\ calledAt' = [d \in Calls |-> calledAt'[d]]
            BY <3>2 DEF CallTool, Continue, IntrospectionStep, Dispatch, AppendAudit, Goto,
                        TypeOK, PcValues
        <3> QED BY <3>1, <3>2, StepCases
    <2>4. ASSUME NEW c \in Calls
          PROVE  /\ bearer'[c] \in Claims \cup {None}
                 /\ calledAt'[c] \in Instants \cup {None}
                 /\ pc'[c] # "idle" => bearer'[c] # None /\ calledAt'[c] # None
                 /\ pc'[c] = "introspect" => Server[c] = "diligent"
        <3> USE DEF TypeOK
        <3>1. CASE Unmoved(c)
            BY <3>1 DEF Unmoved
        <3>2. CASE Begins(c)
            <4>1. /\ bearer'[c] \in Claims /\ calledAt'[c] \in Instants
                  /\ pc'[c] = "introspect" => Server[c] # "stateless"
                BY <3>2 DEF Begins
            <4> QED BY <4>1, ServersAssumption, AuthorizationAssumption DEF Servers
        <3>3. CASE Decides(c)
            BY <3>3 DEF Decides
        <3>4. CASE Finishes(c)
            BY <3>4 DEF Finishes
        <3> QED BY <3>1, <3>2, <3>3, <3>4, CallMoves
    <2>5. /\ bearer' \in [Calls -> Claims \cup {None}]
          /\ calledAt' \in [Calls -> Instants \cup {None}]
        BY <2>3, <2>4
    <2>6. /\ withdrawn' \subseteq Nat /\ held' \subseteq Subs \X Scopes \X Instants
          /\ everLive' \subseteq Calls /\ everDead' \subseteq Calls /\ late' \subseteq Calls
        <3>1. Observe
            BY StepCases
        <3>2. DOMAIN issued \subseteq Nat
            BY DEF TypeOK
        <3> QED BY <3>1, <3>2, <2>1, Observations DEF Observe, TypeOK
    <2> QED BY <2>1, <2>2, <2>3, <2>4, <2>5, <2>6 DEF TypeOK
<1> QED BY <1>1, <1>2

\* Every state of the two baselines is well typed: books, calls and histories.
THEOREM OAuthTypeCorrect == Spec => []TypeOK
<1>1. Init => TypeOK
    BY AuthorizationAssumption DEF Init, ASInit, TypeOK, PcValues, Servers
<1> QED BY <1>1, TypeStep, PTL DEF Spec

-----------------------------------------------------------------------------
(* The authorization server's books.                                       *)

\* issue_token founds every token on what its subject held at its iat.
LEMMA TokensStayFounded ==
    ASSUME TypeOK, Next, TokensFounded, GrantsAreHeld
    PROVE  TokensFounded'
<1> SUFFICES ASSUME NEW j \in DOMAIN issued'
             PROVE  /\ issued'[j].jti = j
                    /\ issued'[j].iat <= now'
                    /\ \A x \in issued'[j].scope : <<issued'[j].sub, x, issued'[j].iat>> \in held'
    BY DEF TokensFounded
<1>1. CASE j \in DOMAIN issued
    <2>1. issued'[j] = issued[j] /\ now <= now' /\ now' \in Int /\ now \in Int
        BY <1>1, IssuedOnlyGrows, AuthorizationAssumption DEF TypeOK
    <2>2. issued[j].iat \in Int
        <3>1. issued[j] \in Claims
            BY <1>1 DEF TypeOK
        <3> QED BY <3>1, AuthorizationAssumption DEF Claims
    <2> QED BY <1>1, <2>1, <2>2, Observations DEF TokensFounded
<1>2. CASE j \notin DOMAIN issued
    <2>1. PICK s \in Subs, aud \in Audiences, scope \in SUBSET Scopes, ttl \in Ttls :
              IssueToken(s, aud, scope, ttl)
        BY <1>2, StepCases DEF asVars, ASNext, GrantAuthority, RevokeAuthority, Tick
    <2>2. /\ issued' = Append(issued, Token(s, aud, scope, ttl, Len(issued) + 1))
          /\ now' = now /\ s \in DOMAIN grants /\ scope \subseteq grants[s]
        BY <2>1 DEF IssueToken, MayIssue
    <2>3. j = Len(issued) + 1 /\ issued'[j] = Token(s, aud, scope, ttl, j)
        BY <1>2, <2>2 DEF TypeOK
    <2>4. now \in Int
        BY AuthorizationAssumption DEF TypeOK
    <2> QED BY <2>2, <2>3, <2>4, Observations DEF Token, GrantsAreHeld
<1> QED BY <1>1, <1>2

\* A revocation withdraws exactly the tokens it revokes, and nothing else pops
\* a grant.
LEMMA BooksStayTrue ==
    ASSUME TypeOK, Next, RevokedAreWithdrawn
    PROVE  RevokedAreWithdrawn'
<1>1. withdrawn' = withdrawn \cup
          {j \in DOMAIN issued : issued[j].sub \in DOMAIN grants \ DOMAIN grants'}
    BY Observations
<1>2. \A j \in DOMAIN issued : j \in DOMAIN issued' /\ issued'[j] = issued[j]
    BY IssuedOnlyGrows
<1>3. CASE UNCHANGED <<grants, revokedJti, issued>>
    BY <1>1, <1>3 DEF RevokedAreWithdrawn
<1>4. ASSUME NEW s \in Subs, NEW scopes \in SUBSET Scopes, GrantAuthority(s, scopes)
      PROVE  RevokedAreWithdrawn'
    BY <1>1, <1>4 DEF RevokedAreWithdrawn, GrantAuthority
<1>5. ASSUME NEW s \in Subs, RevokeAuthority(s)
      PROVE  RevokedAreWithdrawn'
    <2>1. /\ DOMAIN grants' = DOMAIN grants \ {s} /\ issued' = issued
          /\ revokedJti' = revokedJti \cup {j \in DOMAIN issued : issued[j].sub = s}
        BY <1>5 DEF RevokeAuthority, Without
    <2>2. CASE s \in DOMAIN grants
        BY <1>1, <2>1, <2>2 DEF RevokedAreWithdrawn
    <2>3. CASE s \notin DOMAIN grants
        <3>1. {j \in DOMAIN issued : issued[j].sub = s} \subseteq revokedJti
            BY <2>3 DEF RevokedAreWithdrawn
        <3> QED BY <1>1, <2>1, <2>3, <3>1 DEF RevokedAreWithdrawn
    <2> QED BY <2>2, <2>3
<1>6. ASSUME NEW s \in Subs, NEW aud \in Audiences, NEW scope \in SUBSET Scopes,
             NEW ttl \in Ttls, IssueToken(s, aud, scope, ttl)
      PROVE  RevokedAreWithdrawn'
    <2>1. /\ issued' = Append(issued, Token(s, aud, scope, ttl, Len(issued) + 1))
          /\ grants' = grants /\ revokedJti' = revokedJti /\ s \in DOMAIN grants
        BY <1>6 DEF IssueToken, MayIssue
    <2>2. \A j \in DOMAIN issued' : j \notin DOMAIN issued => issued'[j].sub = s
        BY <2>1 DEF TypeOK, Token
    <2> QED BY <1>1, <1>2, <2>1, <2>2 DEF RevokedAreWithdrawn
<1> QED BY <1>3, <1>4, <1>5, <1>6, StepCases DEF ASNext, asVars, Tick

\* The server's invariant is inductive.
LEMMA ServerStep == TypeOK /\ ServerInv /\ [Next]_vars => ServerInv'
<1>1. ASSUME TypeOK, ServerInv, UNCHANGED vars PROVE ServerInv'
    BY <1>1 DEF vars, asVars, history, ServerInv, TokensFounded, RevokedAreWithdrawn, GrantsAreHeld
<1>2. ASSUME TypeOK, ServerInv, Next PROVE ServerInv'
    <2>1. TokensFounded' /\ RevokedAreWithdrawn'
        BY <1>2, TokensStayFounded, BooksStayTrue DEF ServerInv
    <2>2. GrantsAreHeld'
        BY <1>2, Observations DEF GrantsAreHeld
    <2> QED BY <2>1, <2>2 DEF ServerInv
<1> QED BY <1>1, <1>2

\* The authorization server's books are true, whatever governance does.
THEOREM ServerInvariance == Spec => []ServerInv
<1>1. Init => ServerInv
    BY DEF Init, ASInit, ServerInv, TokensFounded, RevokedAreWithdrawn, GrantsAreHeld
<1> QED BY <1>1, ServerStep, OAuthTypeCorrect, PTL DEF Spec

\* oauth.py:71-78, for any number of subjects and tokens: introspection reports
\* a token inactive exactly when the grant it was issued under was pulled.
THEOREM OnlyWithdrawnTokensDie == Spec => []InactiveMeansWithdrawn
<1>1. TypeOK /\ ServerInv => InactiveMeansWithdrawn
    BY DEF ServerInv, RevokedAreWithdrawn, InactiveMeansWithdrawn, Introspect, Inactive
<1> QED BY <1>1, OAuthTypeCorrect, ServerInvariance, PTL

\* No step separates a call from the record of its token.
LEMMA BearerStep == TypeOK /\ TokensFounded /\ IntrospectionKnowsBearer /\ [Next]_vars
                        => IntrospectionKnowsBearer'
<1>1. ASSUME UNCHANGED vars, IntrospectionKnowsBearer PROVE IntrospectionKnowsBearer'
    BY <1>1 DEF vars, asVars, callVars, IntrospectionKnowsBearer
<1>2. ASSUME TypeOK, TokensFounded, IntrospectionKnowsBearer, Next, NEW c \in Calls,
             bearer'[c] # None
      PROVE  /\ bearer'[c].jti \in DOMAIN issued'
             /\ issued'[bearer'[c].jti] = bearer'[c]
    <2>1. CASE bearer'[c] = bearer[c]
        BY <1>2, <2>1, IssuedOnlyGrows DEF IntrospectionKnowsBearer
    <2>2. ASSUME NEW j \in DOMAIN issued, bearer'[c] = issued[j]
          PROVE  /\ bearer'[c].jti \in DOMAIN issued'
                 /\ issued'[bearer'[c].jti] = bearer'[c]
        BY <1>2, <2>2, IssuedOnlyGrows DEF TokensFounded
    <2> QED BY <1>2, <2>1, <2>2, CallMoves DEF Unmoved, Begins, Decides, Finishes
<1> QED BY <1>1, <1>2 DEF IntrospectionKnowsBearer

\* oauth.py:87: what introspection answers about a jti is about the token that
\* was presented, however many tokens are issued meanwhile.
THEOREM BearersAreKnown == Spec => []IntrospectionKnowsBearer
<1>1. Init => IntrospectionKnowsBearer
    BY DEF Init, IntrospectionKnowsBearer
<1>2. ServerInv => TokensFounded
    BY DEF ServerInv
<1> QED BY <1>1, <1>2, BearerStep, OAuthTypeCorrect, ServerInvariance, PTL DEF Spec

-----------------------------------------------------------------------------
(* The stateless server.                                                   *)

Accepted(c) == pc[c] \in {"dispatch", "log", "returned"}

\* The subject of the call's token held what the tool requires when the token
\* was issued, and the token had not expired when the call was made.
OnIssuedAuthority(c) ==
    /\ bearer[c] \in Claims /\ calledAt[c] \in Instants
    /\ bearer[c].iat <= calledAt[c] /\ calledAt[c] < bearer[c].exp
    /\ <<bearer[c].sub, Required(c), bearer[c].iat>> \in held

StatelessInv ==
    \A c \in Calls : (Server[c] = "stateless" /\ Accepted(c)) => OnIssuedAuthority(c)

\* The stateless server accepts a call on the authority its token was issued under.
LEMMA StatelessStep == TypeOK /\ ServerInv /\ StatelessInv /\ [Next]_vars => StatelessInv'
<1>1. ASSUME UNCHANGED vars, StatelessInv PROVE StatelessInv'
    BY <1>1 DEF vars, asVars, callVars, history, StatelessInv, Accepted, OnIssuedAuthority
<1>2. ASSUME TypeOK, ServerInv, StatelessInv, Next, NEW c \in Calls,
             Server[c] = "stateless", Accepted(c)'
      PROVE  OnIssuedAuthority(c)'
    <2>1. held \subseteq held'
        BY <1>2, Observations
    <2>2. CASE Begins(c)
        <3>1. PICK j \in DOMAIN issued : bearer'[c] = issued[j] /\ PassesStateless(c, issued[j])
            BY <1>2, <2>2 DEF Begins, Accepted
        <3>2. issued[j] \in Claims /\ now \in Instants /\ calledAt'[c] = now
            BY <1>2, <2>2 DEF TypeOK, Begins
        <3>3. now < issued[j].exp /\ Required(c) \in issued[j].scope
            BY <1>2, <3>1 DEF PassesStateless, VerifyJwtStateless
        <3>4. /\ issued[j].iat <= now
              /\ <<issued[j].sub, Required(c), issued[j].iat>> \in held
            BY <1>2, <3>3 DEF ServerInv, TokensFounded
        <3> QED BY <2>1, <3>1, <3>2, <3>3, <3>4 DEF OnIssuedAuthority, Required
    <2>3. CASE Unmoved(c)
        BY <1>2, <2>1, <2>3 DEF Unmoved, StatelessInv, Accepted, OnIssuedAuthority, Required
    <2>4. CASE Decides(c)
        BY <1>2, <2>4 DEF Decides, TypeOK
    <2>5. CASE Finishes(c)
        BY <1>2, <2>1, <2>5 DEF Finishes, StatelessInv, Accepted, OnIssuedAuthority, Required
    <2> QED BY <1>2, <2>2, <2>3, <2>4, <2>5, CallMoves
<1> QED BY <1>1, <1>2 DEF StatelessInv

\* vulnerable/oauth.py:71-74, for any lifetimes and any history of grants: how
\* far the stateless server may outlive the authority it acts on.
THEOREM StatelessExposureIsBounded == Spec => []ExposureEndsWithToken
<1>1. Init => StatelessInv
    BY DEF Init, StatelessInv, Accepted
<1>2. StatelessInv => ExposureEndsWithToken
    <2> SUFFICES ASSUME StatelessInv, NEW c \in Calls, Server[c] = "stateless", Served(c)
                 PROVE  \E t \in Instants :
                            /\ <<bearer[c].sub, Required(c), t>> \in held
                            /\ t <= calledAt[c]
                            /\ calledAt[c] < t + (bearer[c].exp - bearer[c].iat)
        BY DEF ExposureEndsWithToken
    <2>1. OnIssuedAuthority(c)
        BY DEF StatelessInv, Served, Accepted
    <2>2. bearer[c].iat \in Instants /\ bearer[c].exp \in Int
        BY <2>1 DEF OnIssuedAuthority, Claims
    <2>3. bearer[c].iat \in Int /\ calledAt[c] \in Int
        BY <2>1, <2>2, AuthorizationAssumption DEF OnIssuedAuthority
    <2>4. calledAt[c] < bearer[c].iat + (bearer[c].exp - bearer[c].iat)
        BY <2>1, <2>2, <2>3 DEF OnIssuedAuthority
    <2> QED BY <2>1, <2>2, <2>4 DEF OnIssuedAuthority
<1> QED BY <1>1, <1>2, StatelessStep, OAuthTypeCorrect, ServerInvariance, PTL DEF Spec

-----------------------------------------------------------------------------
(* The diligent server.                                                    *)

Watched(c) == c \in everLive \cup everDead

\* What the histories say of a call at each step of call_tool.
Weighed(c) ==
    /\ pc[c] = "idle" => ~Watched(c)
    /\ pc[c] = "introspect" => IF AuthorityLive(c) THEN c \in everLive ELSE c \in everDead
    /\ Server[c] = "diligent" /\ Accepted(c) => c \in everLive
    /\ pc[c] = "refused" /\ Watched(c) => c \in everDead

Deleted(x) ==
    \E c \in everLive : Served(c) /\ Tool[c] = "delete" /\ Contact[c] = x

DiligentInv ==
    /\ \A c \in Calls : Weighed(c)
    /\ \A x \in Contacts \ contacts["diligent"] : Deleted(x)

\* The introspection endpoint answers with the authority governance gave.
LEMMA IntrospectionIsLive ==
    ASSUME TypeOK, ServerInv, IntrospectionKnowsBearer, NEW c \in Calls, pc[c] = "introspect"
    PROVE  AuthorityLive(c) <=>
               /\ Introspect(bearer[c].jti).active
               /\ Known(c) /\ Required(c) \in Introspect(bearer[c].jti).scope
<1>1. /\ bearer[c].jti \in DOMAIN issued
      /\ issued[bearer[c].jti] = bearer[c]
    BY DEF TypeOK, IntrospectionKnowsBearer
<1>2. withdrawn = revokedJti
    BY DEF ServerInv, RevokedAreWithdrawn
<1> QED BY <1>1, <1>2 DEF AuthorityLive, Introspect, Inactive, Granted

\* A call leaves introspection only with an answer that was true of it.
LEMMA WeighedStep ==
    ASSUME TypeOK, ServerInv, IntrospectionKnowsBearer, Next, NEW c \in Calls, Weighed(c)
    PROVE  Weighed(c)'
<1>1. /\ c \in everLive' <=> c \in everLive \/ (pc'[c] = "introspect" /\ AuthorityLive(c)')
      /\ c \in everDead' <=> c \in everDead \/ (pc'[c] = "introspect" /\ ~AuthorityLive(c)')
    BY StepCases DEF Observe
<1>2. CASE Unmoved(c)
    BY <1>1, <1>2 DEF Unmoved, Weighed, Watched, Accepted
<1>3. CASE Begins(c)
    BY <1>1, <1>3, ServersAssumption DEF Begins, Weighed, Watched, Accepted, Servers
<1>4. CASE Decides(c)
    BY <1>1, <1>4, IntrospectionIsLive DEF Decides, Weighed, Watched, Accepted
<1>5. CASE Finishes(c)
    BY <1>1, <1>5 DEF Finishes, Weighed, Watched, Accepted
<1> QED BY <1>2, <1>3, <1>4, <1>5, CallMoves

\* A contact leaves the diligent server's CRM only by a call it accepted.
LEMMA DeletionStep ==
    ASSUME TypeOK, Next, DiligentInv, NEW x \in Contacts \ contacts'["diligent"]
    PROVE  Deleted(x)'
<1>1. everLive \subseteq everLive'
    BY StepCases DEF Observe
<1>2. \A c \in Calls : Served(c) => Served(c)'
    <2> SUFFICES ASSUME NEW c \in Calls, Served(c) PROVE Served(c)'
        OBVIOUS
    <2> QED BY CallMoves DEF Served, Unmoved, Begins, Decides, Finishes
<1>3. CASE x \notin contacts["diligent"]
    BY <1>1, <1>2, <1>3 DEF DiligentInv, Deleted, TypeOK
<1>4. CASE x \in contacts["diligent"]
    <2>1. PICK c \in Calls : Dispatch(c) /\ contacts' # contacts
        BY <1>4, StepCases DEF callVars, CallTool, Continue, IntrospectionStep, AppendAudit
    <2>2. /\ Tool[c] = "delete" /\ pc[c] = "dispatch" /\ Served(c)'
          /\ contacts' = [contacts EXCEPT ![Server[c]] = @ \ {Contact[c]}]
        BY <2>1 DEF Dispatch, Goto, Served, TypeOK
    <2>3. Server[c] = "diligent" /\ Contact[c] = x
        BY <1>4, <2>2, ServersAssumption DEF TypeOK, Servers
    <2>4. c \in everLive
        BY <2>2, <2>3 DEF DiligentInv, Weighed, Accepted
    <2> QED BY <1>1, <2>2, <2>3, <2>4 DEF Deleted
<1> QED BY <1>3, <1>4

\* The diligent server's invariant is inductive.
LEMMA DiligentStep ==
    TypeOK /\ ServerInv /\ IntrospectionKnowsBearer /\ DiligentInv /\ [Next]_vars => DiligentInv'
<1>1. ASSUME UNCHANGED vars, DiligentInv PROVE DiligentInv'
    BY <1>1 DEF vars, asVars, callVars, history, DiligentInv, Weighed, Watched, Accepted,
                Deleted, Served, AuthorityLive, Granted
<1>2. ASSUME TypeOK, ServerInv, IntrospectionKnowsBearer, DiligentInv, Next
      PROVE  DiligentInv'
    BY <1>2, WeighedStep, DeletionStep DEF DiligentInv
<1> QED BY <1>1, <1>2

\* diligent/server.py:42-53: every decision taken rests on an answer that was true.
THEOREM DiligentInvariance == Spec => []DiligentInv
<1>1. Init => DiligentInv
    BY DEF Init, DiligentInv, Weighed, Watched, Accepted, Servers
<1> QED BY <1>1, DiligentStep, OAuthTypeCorrect, ServerInvariance, BearersAreKnown, PTL DEF Spec

\* README.md:73-77, for any number of calls, tokens and changes of the grant:
\* every decision of the diligent server is right for some moment of the call.
THEOREM DiligentDecisionsAreLive == Spec => []DecidedOnLiveAuthority
<1>1. DiligentInv => DecidedOnLiveAuthority
    BY DEF DiligentInv, Weighed, Watched, Accepted, Deleted, Served, DecidedOnLiveAuthority
<1> QED BY <1>1, DiligentInvariance, PTL

-----------------------------------------------------------------------------
(* The diligent server implements one authority gate per token: its first   *)
(* state is the gates', and each of its steps is for every gate a step of  *)
(* that gate or none.  That every begun call is decided is left to TLC.    *)

\* A late call is one that waits, or waited, with a withdrawn token.
LateKnown(c) == c \in late => pc[c] # "idle" /\ Watched(c) /\ bearer[c].jti \in withdrawn

LateKnowledge == \A c \in Calls : LateKnown(c)

GatesInv == TypeOK /\ ServerInv /\ IntrospectionKnowsBearer /\ DiligentInv /\ LateKnowledge

-----------------------------------------------------------------------------
(* The invariant.                                                          *)

\* What a step adds to the histories of a call.
LEMMA HistoryOf ==
    ASSUME Next, NEW c \in Calls
    PROVE  /\ Watched(c)' <=> Watched(c) \/ pc'[c] = "introspect"
           /\ c \in late' <=> c \in late \/ (/\ pc[c] = "idle" /\ pc'[c] = "introspect"
                                             /\ bearer'[c].jti \in withdrawn)
           /\ withdrawn \subseteq withdrawn'
  BY StepCases DEF Observe, Watched

\* A withdrawn token stays withdrawn while the call that presented it goes on.
LEMMA LateKnownStep ==
    ASSUME TypeOK, Next, NEW c \in Calls, LateKnown(c)
    PROVE  LateKnown(c)'
<1>1. CASE Unmoved(c) \/ Decides(c) \/ Finishes(c)
  BY <1>1, HistoryOf DEF Unmoved, Decides, Finishes, LateKnown
<1>2. CASE Begins(c)
  BY <1>2, HistoryOf DEF Begins, LateKnown
<1> QED
  BY <1>1, <1>2, CallMoves

\* What the server keeps while calls wait with tokens that are withdrawn.
THEOREM GatesInvariance == Spec => []GatesInv
<1>1. Init => LateKnowledge
  BY DEF Init, LateKnowledge, LateKnown
<1>2. TypeOK /\ LateKnowledge /\ [Next]_vars => LateKnowledge'
  <2>1. ASSUME UNCHANGED vars, NEW c \in Calls, LateKnown(c) PROVE LateKnown(c)'
    BY <2>1 DEF vars, callVars, history, LateKnown, Watched
  <2> QED
    BY <2>1, LateKnownStep DEF LateKnowledge
<1> QED
  BY <1>1, <1>2, OAuthTypeCorrect, ServerInvariance, BearersAreKnown, DiligentInvariance, PTL
  DEF Spec, GatesInv

-----------------------------------------------------------------------------
(* The refinement.                                                         *)

\* A call moves alone.
LEMMA OneCallMoves ==
    ASSUME TypeOK, NEW d \in Calls, CallTool(d) \/ Continue(d), NEW c \in Calls, c # d
    PROVE  Unmoved(c)
  BY DEF TypeOK, CallTool, Continue, IntrospectionStep, Dispatch, AppendAudit, Goto, Unmoved

\* The gates see nothing of a call that does not move.
LEMMA UnmovedUnseen ==
    ASSUME GatesInv, Next, NEW c \in Calls, Unmoved(c), NEW j
    PROVE  GateStatus(j, c)' = GateStatus(j, c)
<1>1. Watched(c)' <=> Watched(c)
  BY HistoryOf DEF GatesInv, DiligentInv, Weighed, Watched, Unmoved
<1>2. c \in late' <=> c \in late
  BY HistoryOf DEF Unmoved
<1> QED
  BY <1>1, <1>2 DEF Unmoved, GateStatus, Watched

\* What a step of a call is to the gate of token j.
LEMMA GateSees ==
    ASSUME GatesInv, Next, UNCHANGED asVars, NEW c \in DiligentCalls, NEW j
    PROVE  \/ GateStatus(j, c)' = GateStatus(j, c)
           \/ /\ GateStatus(j, c) = "idle"
              /\ GateStatus(j, c)' = IF j \notin withdrawn THEN "open" ELSE "doomed"
           \/ GateStatus(j, c) = "open" /\ GateStatus(j, c)' = "allowed"
           \/ GateStatus(j, c) \in {"open", "doomed"} /\ GateStatus(j, c)' = "denied"
           \/ GateStatus(j, c) = "allowed" /\ GateStatus(j, c)' = "acted"
<1>1. c \in Calls /\ Server[c] = "diligent" /\ Weighed(c) /\ LateKnown(c)
  BY DEF DiligentCalls, GatesInv, DiligentInv, LateKnowledge
<1>2. CASE Unmoved(c)
  BY <1>1, <1>2, UnmovedUnseen
<1>3. CASE Begins(c)
  <2>1. /\ pc[c] = "idle" /\ pc'[c] \in {"introspect", "refused"}
    BY <1>1, <1>3 DEF Begins
  <2>2. ~Watched(c) /\ c \notin late
    BY <1>1, <2>1 DEF Weighed, LateKnown
  <2>3. Watched(c)' <=> pc'[c] = "introspect"
    BY <1>1, <2>2, HistoryOf
  <2>4. pc'[c] = "introspect" => (c \in late' <=> bearer'[c].jti \in withdrawn)
    BY <1>1, <2>1, <2>2, HistoryOf
  <2> QED
    BY <2>1, <2>2, <2>3, <2>4 DEF GateStatus, Watched
<1>4. CASE Decides(c)
  <2>1. /\ pc[c] = "introspect" /\ pc'[c] \in {"dispatch", "refused"}
        /\ bearer'[c] = bearer[c]
    BY <1>4 DEF Decides
  <2>2. Watched(c) /\ Watched(c)' /\ (c \in late' <=> c \in late)
    BY <1>1, <2>1, HistoryOf DEF Weighed, Watched
  <2>3. c \in late => pc'[c] = "refused"
    <3>1. c \in late => bearer[c].jti \in revokedJti
      BY <1>1 DEF LateKnown, GatesInv, ServerInv, RevokedAreWithdrawn
    <3> QED
      BY <1>4, <3>1 DEF Decides, Introspect, Inactive
  <2> QED
    BY <2>1, <2>2, <2>3 DEF GateStatus, Watched
<1>5. CASE Finishes(c)
  <2>1. /\ \/ pc[c] = "dispatch" /\ pc'[c] = "log"
           \/ pc[c] = "log" /\ pc'[c] = "returned"
        /\ bearer'[c] = bearer[c]
    BY <1>5 DEF Finishes
  <2>2. Watched(c)' <=> Watched(c)
    BY <1>1, <2>1, HistoryOf
  <2> QED
    BY <2>1, <2>2 DEF GateStatus, Watched
<1> QED
  BY <1>1, <1>2, <1>3, <1>4, <1>5, CallMoves DEF GatesInv

\* Every step of the servers is, for the gate of each token, its step or none.
LEMMA GatesStep ==
    ASSUME GatesInv, Next, NEW j \in Gates
    PROVE  [Gate(j)!GateNext]_(Gate(j)!gateVars)
<1> DEFINE status == [c \in DiligentCalls |-> GateStatus(j, c)]
<1>1. TypeOK
  BY DEF GatesInv
<1>2. CASE ASNext /\ UNCHANGED callVars
  <2>1. \A c \in Calls : Unmoved(c)
    BY <1>2 DEF callVars, Unmoved
  <2>2. status' = status
    BY <2>1, UnmovedUnseen DEF DiligentCalls
  <2>3. CASE (j \notin withdrawn') = (j \notin withdrawn)
    BY <2>2, <2>3 DEF Gate!gateVars
  <2>4. CASE j \notin withdrawn /\ j \in withdrawn'
    <3>1. Gate(j)!Withdraw
      BY <2>2, <2>4 DEF Gate!Withdraw
    <3> QED
      BY <3>1 DEF Gate!GateNext
  <2>5. withdrawn \subseteq withdrawn'
    BY <1>1, Observations
  <2> QED
    BY <2>3, <2>4, <2>5
<1>3. CASE UNCHANGED asVars /\ \E c \in Calls : CallTool(c) \/ Continue(c)
  <2>1. PICK c \in Calls : CallTool(c) \/ Continue(c)
    BY <1>3
  <2>2. (j \notin withdrawn') = (j \notin withdrawn)
    BY <1>1, <1>3, Observations DEF asVars
  <2>3. \A d \in DiligentCalls : d # c => GateStatus(j, d)' = GateStatus(j, d)
    BY <1>1, <2>1, OneCallMoves, UnmovedUnseen DEF DiligentCalls
  <2>4. CASE c \notin DiligentCalls \/ GateStatus(j, c)' = GateStatus(j, c)
    BY <2>2, <2>3, <2>4 DEF Gate!gateVars
  <2>5. CASE c \in DiligentCalls /\ GateStatus(j, c)' # GateStatus(j, c)
    <3>1. status' = [status EXCEPT ![c] = GateStatus(j, c)']
      BY <2>3, <2>5
    <3>2. CASE /\ GateStatus(j, c) = "idle"
               /\ GateStatus(j, c)' = IF j \notin withdrawn THEN "open" ELSE "doomed"
      <4>1. Gate(j)!Open(c)
        BY <2>2, <2>5, <3>1, <3>2 DEF Gate!Open, Gate!Move
      <4> QED
        BY <2>5, <4>1 DEF Gate!GateNext
    <3>3. CASE GateStatus(j, c) = "open" /\ GateStatus(j, c)' = "allowed"
      <4>1. Gate(j)!Allow(c)
        BY <2>2, <2>5, <3>1, <3>3 DEF Gate!Allow, Gate!Move
      <4> QED
        BY <2>5, <4>1 DEF Gate!GateNext
    <3>4. CASE GateStatus(j, c) \in {"open", "doomed"} /\ GateStatus(j, c)' = "denied"
      <4>1. Gate(j)!Deny(c)
        BY <2>2, <2>5, <3>1, <3>4 DEF Gate!Deny, Gate!Move
      <4> QED
        BY <2>5, <4>1 DEF Gate!GateNext
    <3>5. CASE GateStatus(j, c) = "allowed" /\ GateStatus(j, c)' = "acted"
      <4>1. Gate(j)!Act(c)
        BY <2>2, <2>5, <3>1, <3>5 DEF Gate!Act, Gate!Move
      <4> QED
        BY <2>5, <4>1 DEF Gate!GateNext
    <3> QED
      BY <1>3, <2>5, <3>2, <3>3, <3>4, <3>5, GateSees
  <2> QED
    BY <2>4, <2>5
<1> QED
  BY <1>2, <1>3, StepCases

\* Before any call begins every gate is idle and its authority live.
LEMMA GatesStart == Init => \A j \in Gates : Gate(j)!GateInit
<1> SUFFICES ASSUME Init, NEW j \in Gates PROVE Gate(j)!GateInit
  OBVIOUS
<1>1. j \notin withdrawn /\ \A c \in Calls : GateStatus(j, c) = "idle"
  BY DEF Init, GateStatus
<1> QED
  BY <1>1 DEF Gate!GateInit, DiligentCalls

\* README.md:73-77: live introspection makes the diligent server, like the
\* mediator, an authority gate: whatever the calls, the tokens and the changes
\* of the grants meanwhile, it takes no step its gates do not take.
THEOREM DiligentServerIsGate ==
    Spec => /\ \A j \in Gates : Gate(j)!GateInit
            /\ [][ \A j \in Gates : [Gate(j)!GateNext]_(Gate(j)!gateVars) ]_vars
<1>1. GatesInv /\ [Next]_vars => [\A j \in Gates : [Gate(j)!GateNext]_(Gate(j)!gateVars)]_vars
  BY GatesStep
<1> QED
  BY <1>1, GatesStart, GatesInvariance, PTL DEF Spec

==============================================================================
