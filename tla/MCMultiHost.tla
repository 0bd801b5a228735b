----------------------------- MODULE MCMultiHost -----------------------------
EXTENDS MultiHost
CONSTANTS h1, h2, j1, j2, w1, w2
=============================================================================
