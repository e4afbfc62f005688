---- MODULE MCCgiServer ----
EXTENDS CgiServer
====
