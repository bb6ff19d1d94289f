-------------------------- MODULE AuthorizationServer --------------------------
(***************************************************************************)
(* The OAuth authorization server of vulnerable/oauth.py, which the         *)
(* stateless and the diligent resource server share (diligent/oauth.py      *)
(* re-exports it): the grants of its subjects, the access tokens issued     *)
(* under them, and the introspection endpoint.                              *)
(*                                                                         *)
(* A token is the record of its claims.  Every token here was signed by     *)
(* this server, so a signature always verifies.                             *)
(***************************************************************************)
EXTENDS Integers, Sequences

CONSTANTS Subs,         \* subjects that may be granted authority
          Scopes,       \* scopes a grant or a token may carry
          Audiences,    \* resource servers a token may be issued for
          Ttls,         \* lifetimes a token may be issued with
          Instants,     \* instants of the clock
          T0,           \* the instant the server starts at
          MaxTokens     \* bound on issue_token() calls

ASSUME AuthorizationAssumption ==
    /\ Instants \subseteq Int
    /\ T0 \in Instants
    /\ Ttls \subseteq Int
    /\ MaxTokens \in Nat

VARIABLES now,          \* true time, in the seconds tokens are stamped with
          grants,       \* _grants: subject -> scopes; a revoked one is absent
          issued,       \* _issued: the claims of jti-1, jti-2, ...
          revokedJti    \* _revoked_jti

asVars == <<now, grants, issued, revokedJti>>

Claims == [sub : Subs, aud : Audiences, scope : SUBSET Scopes, iat : Instants,
           exp : Int, jti : Nat \ {0}]

ASInit ==
    /\ now = T0
    /\ grants = [s \in {} |-> {}]
    /\ issued = <<>>
    /\ revokedJti = {}

\* A grant replaces the subject's earlier one; tokens issued under that one are
\* left as they are, and a revoked token stays revoked.
GrantAuthority(sub, scopes) ==
    /\ grants' = [s \in DOMAIN grants \cup {sub} |-> IF s = sub THEN scopes ELSE grants[s]]
    /\ UNCHANGED <<now, issued, revokedJti>>

Without(sub) == [s \in DOMAIN grants \ {sub} |-> grants[s]]

(* Operators named Mut... are faulty variants of the operator they precede. *)
(* No specification uses them: each shows that a property can fail.         *)

MutRevokeGrantOnly(sub) == grants' = Without(sub) /\ UNCHANGED <<now, issued, revokedJti>>

\* revoke_authority: the grant goes, and with it every token issued under it.
RevokeAuthority(sub) ==
    /\ grants' = Without(sub)
    /\ revokedJti' = revokedJti \cup {j \in DOMAIN issued : issued[j].sub = sub}
    /\ UNCHANGED <<now, issued>>

\* The check of issue_token; when it fails the call raises TokenInvalid.
MayIssue(sub, scope) == sub \in DOMAIN grants /\ scope \subseteq grants[sub]

MutToken(sub, aud, scope, ttl, jti) ==
    [sub |-> sub, aud |-> aud, scope |-> scope, iat |-> now, exp |-> now + ttl, jti |-> jti - 1]

Token(sub, aud, scope, ttl, jti) ==
    [sub |-> sub, aud |-> aud, scope |-> scope, iat |-> now, exp |-> now + ttl, jti |-> jti]

MutIssueReusesJti(sub, aud, scope, ttl) ==
    /\ Len(issued) < MaxTokens
    /\ MayIssue(sub, scope)
    /\ issued' = IF 1 \in revokedJti THEN [issued EXCEPT ![1] = Token(sub, aud, scope, ttl, 1)]
                 ELSE Append(issued, Token(sub, aud, scope, ttl, Len(issued) + 1))
    /\ UNCHANGED <<now, grants, revokedJti>>

IssueToken(sub, aud, scope, ttl) ==
    /\ Len(issued) < MaxTokens
    /\ MayIssue(sub, scope)
    /\ issued' = Append(issued, Token(sub, aud, scope, ttl, Len(issued) + 1))
    /\ UNCHANGED <<now, grants, revokedJti>>

Inactive == [active |-> FALSE, scope |-> {}]

MutIntrospectTokenScope(jti) ==
    IF jti \in revokedJti \/ jti \notin DOMAIN issued THEN Inactive
    ELSE [active |-> TRUE, scope |-> issued[jti].scope]

\* introspect(jti): the scope it returns is the subject's current grant, not
\* the scope the token was issued with.
Introspect(jti) ==
    IF jti \in revokedJti \/ jti \notin DOMAIN issued THEN Inactive
    ELSE LET sub == issued[jti].sub
         IN  IF sub \notin DOMAIN grants THEN Inactive
             ELSE [active |-> TRUE, scope |-> grants[sub]]

MutVerifyJwtStateless(token, audience, at) == token.aud = audience

\* verify_jwt_stateless at the caller's reading of the time: audience and
\* expiry (and the signature), nothing that can change after issuance.
VerifyJwtStateless(token, audience, at) == token.aud = audience /\ at < token.exp

Tick == \E t \in Instants : now < t /\ now' = t /\ UNCHANGED <<grants, issued, revokedJti>>

ASNext ==
    \/ \E s \in Subs, scopes \in SUBSET Scopes : GrantAuthority(s, scopes)
    \/ \E s \in Subs : RevokeAuthority(s)
    \/ \E s \in Subs, aud \in Audiences, scope \in SUBSET Scopes, ttl \in Ttls :
          IssueToken(s, aud, scope, ttl)
    \/ Tick

==============================================================================
