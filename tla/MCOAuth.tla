-------------------------------- MODULE MCOAuth --------------------------------
\* One delete at each server, by one agent.  MCScopeInToken has the diligent one
\* alone, with two scopes.
EXTENDS DiligentGate
MCInstants == 0..2
MCServer == [c \in Calls |-> IF c = "s" THEN "stateless" ELSE "diligent"]
MCTool == [c \in Calls |-> "delete"]
MCContact == [c \in Calls |-> "c-1001"]
================================================================================
