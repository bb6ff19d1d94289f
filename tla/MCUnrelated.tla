------------------------------ MODULE MCUnrelated ------------------------------
\* One attested delete, and the revocation of another session's token.
EXTENDS GovernedWorld
MCInstants == 0..3
MCRequest == [c \in Calls |-> [requestId |-> c, type |-> "DELETE_CONTACT", contact |-> "c-1001"]]
MCHumanAuth == MakeHumanAuth("MULTI_USE", None, 100)
MCToken == MakeToken(MCHumanAuth, 100)
MCRevocable == {"dt-2"}
================================================================================
