----------------------------- MODULE HttpServer -----------------------------
(***************************************************************************)
(* np_project3/http_server.cpp: accepts a connection, reads a request,     *)
(* answers "200 OK", forks and executes the CGI program with the socket as *)
(* its standard output.  A child inherits every socket the server has      *)
(* open, not only its own; nothing closes the others.                      *)
(*                                                                         *)
(* Connections are numbered as they are accepted; the child that serves r  *)
(* is child r.  holds is who has which connections open.                   *)
(***************************************************************************)
EXTENDS Integers, FiniteSets

CONSTANT MaxRequests     \* bound: connections accepted

Conns == 1..MaxRequests
Server == 0
Processes == {Server} \cup Conns

VARIABLES
    alive,       \* the server runs
    stage,       \* of each connection: "none", "read", "send", "served", "dropped"
    child,       \* of each connection's child: "none", "runs", "ended", "reaped"
    holds,       \* the connections each process has open
    sigchld

hvars == <<alive, stage, child, holds, sigchld>>

Goto(r, l) == stage' = [stage EXCEPT ![r] = l]
Drop(p, r) == holds' = [holds EXCEPT ![p] = @ \ {r}]

----------------------------------------------------------------------------
do_accept(r) ==
    /\ alive /\ stage[r] = "none"
    /\ \A q \in 1..r-1 : stage[q] # "none"
    /\ Goto(r, "read")
    /\ holds' = [holds EXCEPT ![Server] = @ \cup {r}]
    /\ UNCHANGED <<alive, child, sigchld>>

(* A whole request; or none, and the session object goes with its socket. *)
do_read(r) ==
    /\ alive /\ stage[r] = "read"
    /\ \/ Goto(r, "send") /\ UNCHANGED holds
       \/ Goto(r, "dropped") /\ Drop(Server, r)
    /\ UNCHANGED <<alive, child, sigchld>>

(* A request cut before the name of its host: setup_http_session indexes   *)
(* past the end of a vector; what is there may end the server. *)
CutRequest(r) ==
    /\ alive /\ stage[r] = "read"
    /\ alive' = FALSE
    /\ holds' = [holds EXCEPT ![Server] = {}]
    /\ UNCHANGED <<stage, child, sigchld>>

(* Mutant: the server does not close its own copy of the socket. *)
Mut_Fork(r) ==
    /\ alive /\ stage[r] = "send"
    /\ Goto(r, "served")
    /\ child' = [child EXCEPT ![r] = "runs"]
    /\ holds' = [holds EXCEPT ![r] = holds[Server]]
    /\ UNCHANGED <<alive, sigchld>>

(* The handler of async_send: fork, and _socket.close in the parent. *)
Fork(r) ==
    /\ alive /\ stage[r] = "send"
    /\ Goto(r, "served")
    /\ child' = [child EXCEPT ![r] = "runs"]
    /\ holds' = [holds EXCEPT ![Server] = @ \ {r}, ![r] = holds[Server]]
    /\ UNCHANGED <<alive, sigchld>>

SendFails(r) ==
    /\ alive /\ stage[r] = "send"
    /\ Goto(r, "dropped") /\ Drop(Server, r)
    /\ UNCHANGED <<alive, child, sigchld>>

(* The program ends, or execlp fails and the child exits. *)
ChildEnds(r) ==
    /\ child[r] = "runs"
    /\ child' = [child EXCEPT ![r] = "ended"]
    /\ holds' = [holds EXCEPT ![r] = {}]
    /\ sigchld' = alive
    /\ UNCHANGED <<alive, stage>>

child_handler ==
    /\ alive /\ sigchld
    /\ sigchld' = FALSE
    /\ child' = [r \in Conns |-> IF child[r] = "ended" THEN "reaped" ELSE child[r]]
    /\ UNCHANGED <<alive, stage, holds>>

----------------------------------------------------------------------------
HttpInit ==
    /\ alive = TRUE
    /\ stage = [r \in Conns |-> "none"]
    /\ child = [r \in Conns |-> "none"]
    /\ holds = [p \in Processes |-> {}]
    /\ sigchld = FALSE

(* The browser of r sees the end of the response when nobody has r open. *)
EndOfResponse(r) == \A p \in Processes : r \notin holds[p]
=============================================================================
