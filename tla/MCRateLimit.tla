---------------------------- MODULE MCRateLimit ----------------------------
EXTENDS RateLimit
=============================================================================
