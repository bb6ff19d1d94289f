---------------------------- MODULE AuthorityGate ----------------------------
(***************************************************************************)
(* What an enforcement point promises about calls made under one grant,     *)
(* with no receipts, ledgers or clocks: a call begun after the authority   *)
(* was withdrawn is denied, a call begun before is allowed or denied, no   *)
(* more calls are allowed than the grant has uses, and only an allowed     *)
(* call may act, once.                                                     *)
(***************************************************************************)
EXTENDS Integers, FiniteSets

CONSTANTS Calls, Uses, Unlimited

VARIABLES live,     \* the authority has not been withdrawn
          status    \* call -> how far the gate is with it

gateVars == <<live, status>>

Statuses == {"idle", "open", "doomed", "allowed", "denied", "acted"}

Spent == {c \in Calls : status[c] \in {"allowed", "acted"}}

Move(c, from, to) == status[c] \in from /\ status' = [status EXCEPT ![c] = to]

GateInit == live = TRUE /\ status = [c \in Calls |-> "idle"]

Withdraw == live /\ live' = FALSE /\ UNCHANGED status

Open(c) == Move(c, {"idle"}, IF live THEN "open" ELSE "doomed") /\ UNCHANGED live

Allow(c) ==
    /\ Uses # Unlimited => Cardinality(Spent) < Uses
    /\ Move(c, {"open"}, "allowed")
    /\ UNCHANGED live

Deny(c) == Move(c, {"open", "doomed"}, "denied") /\ UNCHANGED live

Act(c) == Move(c, {"allowed"}, "acted") /\ UNCHANGED live

GateNext == Withdraw \/ \E c \in Calls : Open(c) \/ Allow(c) \/ Deny(c) \/ Act(c)

\* Every opened call is decided; an allowed call may still fail to act.
GateSpec ==
    /\ GateInit
    /\ [][GateNext]_gateVars
    /\ \A c \in Calls : WF_gateVars(Allow(c) \/ Deny(c))

==============================================================================
