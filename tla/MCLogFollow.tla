---------------------------- MODULE MCLogFollow ----------------------------
EXTENDS LogFollow
============================================================================
