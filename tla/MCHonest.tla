------------------------------- MODULE MCHonest -------------------------------
\* One attested delete, of a contact the CRM may not have, by a mediator whose
\* clock is right and a quorum whose authorities may not be, under a grant that
\* expires and keys that expire or are revoked once it is issued;
\* beside it a handoff, which does not touch the chain.
EXTENDS GovernedWorld
MCInstants == 0..2
MCRequest ==
    [c \in Calls |-> [requestId |-> c, contact |-> "c-1001",
                     type |-> IF c = "talk" THEN "HANDOFF" ELSE "DELETE_CONTACT"]]
MCHumanAuth == MakeHumanAuth("MULTI_USE", None, 1)
MCToken == MakeToken(MCHumanAuth, 1)
MCKeys == [KeyRegistry EXCEPT !["gov-key"].expiresAt = 2, !["a-key"].revokedAt = 1,
                              !["b-key"].revokedAt = 1]
MCRevocable == {"har-1", "dt-1"}
================================================================================
