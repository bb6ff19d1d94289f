-------------------------------- MODULE MCRetry --------------------------------
\* One request handed to the mediator twice, as a client that retries does.
EXTENDS GovernedWorld
MCInstants == 0..1
MCRequest == [c \in Calls |-> [requestId |-> "r1", type |-> "READ_CONTACT", contact |-> "c-1001"]]
MCHumanAuth == MakeHumanAuth("MULTI_USE", None, 100)
MCToken == MakeToken(MCHumanAuth, 100)
MCRevocable == {"har-1", "dt-1"}
================================================================================
