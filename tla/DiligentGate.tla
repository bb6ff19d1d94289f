----------------------------- MODULE DiligentGate -----------------------------
(***************************************************************************)
(* The diligent server seen as an authority gate: the same promise the      *)
(* mediator is shown to keep (GatedMediator), here for each token and with  *)
(* no limit on its uses.                                                    *)
(***************************************************************************)
EXTENDS ResourceServers

DiligentCalls == {c \in Calls : Server[c] = "diligent"}

\* Where the gate of token j stands with a call: it sees the calls that
\* present j and pass the stateless checks.
GateStatus(j, c) ==
    IF c \notin everLive \cup everDead \/ bearer[c].jti # j THEN "idle"
    ELSE IF pc[c] = "introspect" THEN (IF c \in late THEN "doomed" ELSE "open")
    ELSE IF pc[c] = "refused" THEN "denied"
    ELSE IF pc[c] = "dispatch" THEN "allowed" ELSE "acted"

Gate(j) == INSTANCE AuthorityGate
              WITH Calls <- DiligentCalls, Uses <- None, Unlimited <- None,
                   live <- j \notin withdrawn,
                   status <- [c \in DiligentCalls |-> GateStatus(j, c)]

Gates == 1..MaxTokens

\* README.md:73-77: the diligent server is an authority gate for every token.
\* A call begun after the grant behind its token was pulled is denied, one
\* begun before is served or denied; each is decided.
ImplementsGates ==
    /\ \A j \in Gates : Gate(j)!GateInit
    /\ [][ \A j \in Gates : [Gate(j)!GateNext]_(Gate(j)!gateVars) ]_vars
    /\ \A c \in Calls : pc[c] = "introspect" ~> pc[c] \in {"dispatch", "refused"}

==============================================================================
