----------------------------- MODULE MCHashMap -----------------------------
EXTENDS HashMap
CONSTANTS v1, v2
=============================================================================
