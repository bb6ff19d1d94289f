---------------------------- MODULE GatedMediator ----------------------------
(***************************************************************************)
(* The mediator seen as an authority gate.  The gate decides a call in one  *)
(* step; the mediator reads its clock, captures a head and evaluates in    *)
(* three, while revocations and time go on.                                *)
(***************************************************************************)
EXTENDS Audit

\* Where the gate stands with a call, from the progress of handle().  A call
\* that bypasses the chain never reaches the gate.
GateStatus(c) ==
    IF work[c].verifiedAt = None THEN "idle"
    ELSE IF pc[c] \in {"capture", "evaluate"} THEN (IF c \in late THEN "doomed" ELSE "open")
    ELSE IF work[c].errors # {} THEN "denied"
    ELSE IF effectAt[c] = None THEN "allowed" ELSE "acted"

Gate == INSTANCE AuthorityGate
            WITH Uses <- MaxUses(HumanAuth), Unlimited <- None,
                 live <- LiveForClock,
                 status <- [c \in Calls |-> GateStatus(c)]

\* mediator.py:12-16: with no artifact revoked twice, the mediator is an
\* authority gate: it decides by what held, up to the error of its clock, when
\* the call began, within the grant's uses, and always decides.
ImplementsGate == Gate!GateSpec

==============================================================================
