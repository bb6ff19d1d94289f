--------------------------- MODULE MCRevocationLog ---------------------------
EXTENDS AuditBundle
MCInstants == 0..2
==============================================================================
