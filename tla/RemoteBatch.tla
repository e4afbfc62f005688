---------------------------- MODULE RemoteBatch ----------------------------
(***************************************************************************)
(* The HTTP server and a console it starts: request 1 is for console.cgi,  *)
(* whose process is the session of Console; the others are for programs    *)
(* that end when they like.                                                *)
(***************************************************************************)
EXTENDS Console

CONSTANT MaxRequests

ASSUME RemoteBatchAssumption == MaxRequests \in Nat

VARIABLES alive, stage, child, holds, sigchld

H == INSTANCE HttpServer

hvars == <<alive, stage, child, holds, sigchld>>

vars == <<cvars, hvars>>

Init == ConsoleInit /\ H!HttpInit

(* exec of console.cgi. *)
Exec == H!Fork(1) /\ ConsoleStarts

Http(r) ==
    \/ r # 1 /\ H!Fork(r) /\ UNCHANGED cvars
    \/ r = 1 /\ Exec
    \/ (H!do_accept(r) \/ H!do_read(r) \/ H!CutRequest(r) \/ H!SendFails(r)) /\ UNCHANGED cvars

Ends(r) == (r = 1 => ConsoleEnded) /\ H!ChildEnds(r) /\ UNCHANGED cvars

Next ==
    \/ \E r \in H!Conns : Http(r) \/ Ends(r)
    \/ H!child_handler /\ UNCHANGED cvars
    \/ (Handlers \/ Shell) /\ UNCHANGED hvars

Spec == Init /\ [][Next]_vars

(* The io_service of the console, the shell and the programs of the other  *)
(* requests run, and a process without handlers ends; browsers need not    *)
(* send anything. *)
FairSpec ==
    /\ Spec
    /\ WF_vars(Handlers /\ UNCHANGED hvars)
    /\ WF_vars(Expire /\ UNCHANGED hvars)
    /\ WF_vars(do_send_cmd /\ UNCHANGED hvars)
    /\ WF_vars(Shell /\ UNCHANGED hvars)
    /\ \A r \in H!Conns : WF_vars(Ends(r))

(***************************************************************************)
(* The browser of a request whose program has ended sees the end of its    *)
(* response, though children forked in between may have inherited its      *)
(* connection: if a console among them never ends, it never does.          *)
(***************************************************************************)
ResponseEnds ==
    (<>[](child[1] # "runs")) => \A r \in H!Conns : child[r] = "ended" ~> H!EndOfResponse(r)
=============================================================================
