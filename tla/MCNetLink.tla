------------------------------ MODULE MCNetLink ------------------------------
\* The instance of NetLink for TLC: see NetLink.cfg.
EXTENDS NetLink
=============================================================================
