----------------------------- MODULE MCSessions -----------------------------
EXTENDS Sessions
=============================================================================
