------------------------------- MODULE MCConcurrent -------------------------------
\* Two overlapping calls under a single-use grant, by a mediator whose clock
\* is right; attestation is switched off.
EXTENDS GovernedWorld
MCInstants == 0..2
MCRequest ==
    [c \in Calls |-> [requestId |-> c, contact |-> "c-1001",
                     type |-> IF c = "read" THEN "READ_CONTACT" ELSE "DELETE_CONTACT"]]
MCHumanAuth == MakeHumanAuth("SINGLE_USE", None, 100)
MCToken == MakeToken(MCHumanAuth, 100)
MCRevocable == {"har-1", "dt-1"}
================================================================================
