-------------------------------- MODULE MCDrift --------------------------------
\* One attested delete by a mediator whose clock may read anything, with
\* revocations recorded late, early and repeatedly; beside
\* it a request of no mapped type.
EXTENDS GovernedWorld
MCInstants == 0..2
MCRequest ==
    [c \in Calls |-> [requestId |-> c, contact |-> "c-1001",
                     type |-> IF c = "other" THEN "TRANSFER" ELSE "DELETE_CONTACT"]]
MCHumanAuth == MakeHumanAuth("MULTI_USE", None, 100)
MCToken == MakeToken(MCHumanAuth, 100)
MCRevocable == {"har-1", "dt-1"}
================================================================================
