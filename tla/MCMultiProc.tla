---- MODULE MCMultiProc ----
EXTENDS MultiProc
====
