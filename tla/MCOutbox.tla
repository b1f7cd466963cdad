------------------------------ MODULE MCOutbox ------------------------------
EXTENDS Outbox
=============================================================================
