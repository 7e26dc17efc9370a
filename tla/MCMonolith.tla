----------------------------- MODULE MCMonolith -----------------------------
EXTENDS Monolith
=============================================================================
