----------------------------- MODULE CgiServer -----------------------------
(***************************************************************************)
(* np_project3/main.cpp: the HTTP server that is its own panel.cgi and     *)
(* console.cgi.  One thread runs one handler at a time; an action is a     *)
(* handler with all it calls.  The handler that has sent the console page  *)
(* starts a session per host and calls io_service.run again, from inside   *)
(* the run it was called by: it never returns, so its local shared_ptr to  *)
(* the browser's socket is counted for ever.                               *)
(*                                                                         *)
(* server_conf and host_num are global: the table of the console request   *)
(* that was parsed last.  A table is abstracted to the request it is from. *)
(* The shells and browsers are external.                                   *)
(***************************************************************************)
EXTENDS Integers, FiniteSets

CONSTANTS
    MAXSERVER,     \* hosts a console request may name
    MaxRequests,   \* bound: connections accepted
    MaxWaits       \* bound: timer handlers of a session at a time

ASSUME CgiAssumption ==
    MAXSERVER \in Nat \ {0} /\ MaxRequests \in Nat \ {0} /\ MaxWaits \in Nat

Requests == 1..MaxRequests
Sessions == 0..MAXSERVER-1

VARIABLES
    alive,       \* the server runs
    stage,       \* of a request: "none", "read", "panel", "console", "talks", "over"
    hosts,       \* hosts a console request names
    server_conf, \* the console request parsed last; 0: none
    table,       \* server_conf when the sessions of a request were started
    session,     \* of each request and session: its handlers
    use_count,   \* of the shared_ptr to a request's socket
    open,        \* the requests whose socket is open
    parsed       \* console requests parsed since that of a request

vars == <<alive, stage, hosts, server_conf, table, session, use_count, open, parsed>>
talk == <<table, session, use_count>>

Goto(r, l) == stage' = [stage EXCEPT ![r] = l]

(* step: the chain of reads; waits: handlers of the timer, which all send, *)
(* also those whose wait was cut off by the next; writing: some write has  *)
(* not completed. *)
NoSession == [step |-> "gone", waits |-> 0, writing |-> FALSE]
Start == [NoSession EXCEPT !.step = "resolve"]

(* A handler that is left holds a reference to the session. *)
Referenced(s) == s.step # "gone" \/ s.waits > 0 \/ s.writing
Alive(r) == {i \in Sessions : Referenced(session[r][i])}

host_num == IF server_conf = 0 THEN 0 ELSE hosts[server_conf]

----------------------------------------------------------------------------
do_accept(r) ==
    /\ alive /\ stage[r] = "none"
    /\ \A q \in 1..r-1 : stage[q] # "none"
    /\ Goto(r, "read") /\ open' = open \cup {r}
    /\ UNCHANGED <<alive, hosts, server_conf, talk, parsed>>

RequestPanel(r) ==
    /\ alive /\ stage[r] = "read"
    /\ Goto(r, "panel")
    /\ UNCHANGED <<alive, hosts, server_conf, talk, open, parsed>>

(* Mutant: the table is only loaded when there is none. *)
Mut_RequestConsole(r) ==
    /\ alive /\ stage[r] = "read"
    /\ Goto(r, "console")
    /\ \E n \in 0..MAXSERVER : hosts' = [hosts EXCEPT ![r] = n]
    /\ server_conf' = IF server_conf = 0 THEN r ELSE server_conf
    /\ parsed' = [q \in Requests |-> IF stage[q] = "console" THEN parsed[q] \cup {r} ELSE parsed[q]]
    /\ UNCHANGED <<alive, talk, open>>

RequestConsole(r) ==
    /\ alive /\ stage[r] = "read"
    /\ Goto(r, "console")
    /\ \E n \in 0..MAXSERVER : hosts' = [hosts EXCEPT ![r] = n]
    /\ server_conf' = r
    /\ parsed' = [q \in Requests |-> IF stage[q] = "console" THEN parsed[q] \cup {r} ELSE parsed[q]]
    /\ UNCHANGED <<alive, talk, open>>

(* Neither program, or the read failed: no handler is left, and the socket *)
(* goes with its http_session. *)
RequestOther(r) ==
    /\ alive /\ stage[r] = "read"
    /\ Goto(r, "over") /\ open' = open \ {r}
    /\ UNCHANGED <<alive, hosts, server_conf, talk, parsed>>

(* console.cgi without parameters: substr throws, main catches and ends. A *)
(* request cut before its host indexes past the end of a vector. *)
RequestEndsServer(r) ==
    /\ alive /\ stage[r] = "read"
    /\ alive' = FALSE /\ open' = {}
    /\ session' = [q \in Requests |-> [i \in Sessions |-> NoSession]]
    /\ UNCHANGED <<stage, hosts, server_conf, table, use_count, parsed>>

SendFails(r) ==
    /\ alive /\ stage[r] \in {"panel", "console"}
    /\ Goto(r, "over") /\ open' = open \ {r}
    /\ UNCHANGED <<alive, hosts, server_conf, talk, parsed>>

PanelSent(r) ==
    /\ alive /\ stage[r] = "panel"
    /\ Goto(r, "over") /\ open' = open \ {r}
    /\ UNCHANGED <<alive, hosts, server_conf, talk, parsed>>

(* The names s0, s1, ... and their number come from the globals as they    *)
(* are now. *)
ConsoleSent(r) ==
    /\ alive /\ stage[r] = "console"
    /\ Goto(r, "talks")
    /\ table' = [table EXCEPT ![r] = server_conf]
    /\ session' = [session EXCEPT ![r] =
           [i \in Sessions |-> IF i < host_num THEN Start ELSE NoSession]]
    /\ use_count' = [use_count EXCEPT ![r] = 1 + host_num]
    /\ UNCHANGED <<alive, hosts, server_conf, open, parsed>>

----------------------------------------------------------------------------
(* Mutants: the local shared_ptr is not counted; every session closes. *)
Mut_destroy(r) ==
    /\ use_count' = [use_count EXCEPT ![r] = @ - 1]
    /\ open' = IF use_count[r] = 1 THEN open \ {r} ELSE open

Mut_destroy_each(r) ==
    /\ use_count' = [use_count EXCEPT ![r] = @ - 1]
    /\ open' = open \ {r}

(* ~cgi_session *)
destroy(r) ==
    /\ use_count' = [use_count EXCEPT ![r] = @ - 1]
    /\ open' = IF use_count[r] = 2 THEN open \ {r} ELSE open

(* Session i of r goes on as s, or with its last handler is destroyed. *)
Continue(r, i, s) ==
    /\ session' = [session EXCEPT ![r][i] = s]
    /\ IF Referenced(s) THEN UNCHANGED <<use_count, open>> ELSE destroy(r)
    /\ UNCHANGED <<alive, stage, hosts, server_conf, table, parsed>>

do_resolve(r, i) ==
    /\ session[r][i].step = "resolve"
    /\ \E l \in {"connect", "gone"} : Continue(r, i, [session[r][i] EXCEPT !.step = l])

do_connect(r, i) ==
    /\ session[r][i].step = "connect"
    /\ \E l \in {"read", "gone"} : Continue(r, i, [session[r][i] EXCEPT !.step = l])

(* With a prompt in it or without. *)
do_read(r, i) ==
    /\ session[r][i].step = "read"
    /\ \E n \in {0, 1} :
          /\ session[r][i].waits + n <= MaxWaits
          /\ Continue(r, i, [session[r][i] EXCEPT !.waits = @ + n, !.writing = TRUE])

ReadFails(r, i) ==
    /\ session[r][i].step = "read"
    /\ Continue(r, i, [session[r][i] EXCEPT !.step = "gone"])

do_send_cmd(r, i) ==
    /\ session[r][i].waits > 0
    /\ Continue(r, i, [session[r][i] EXCEPT !.waits = @ - 1, !.writing = TRUE])

Written(r, i) ==
    /\ session[r][i].writing
    /\ Continue(r, i, [session[r][i] EXCEPT !.writing = FALSE])

----------------------------------------------------------------------------
Init ==
    /\ alive = TRUE
    /\ stage = [r \in Requests |-> "none"]
    /\ hosts = [r \in Requests |-> 0]
    /\ server_conf = 0
    /\ table = [r \in Requests |-> 0]
    /\ session = [r \in Requests |-> [i \in Sessions |-> NoSession]]
    /\ use_count = [r \in Requests |-> 0]
    /\ open = {}
    /\ parsed = [r \in Requests |-> {}]

Http(r) ==
    \/ do_accept(r)
    \/ RequestPanel(r) \/ RequestConsole(r) \/ RequestOther(r) \/ RequestEndsServer(r)
    \/ SendFails(r) \/ PanelSent(r) \/ ConsoleSent(r)

Talk(r, i) ==
    \/ do_resolve(r, i) \/ do_connect(r, i)
    \/ do_read(r, i) \/ ReadFails(r, i)
    \/ do_send_cmd(r, i) \/ Written(r, i)

Next == \E r \in Requests : Http(r) \/ \E i \in Sessions : Talk(r, i)

Spec == Init /\ [][Next]_vars

(* Names resolve or do not, shells close at last, browsers read: every     *)
(* handler of a session is called. *)
FairSpec ==
    Spec /\ \A r \in Requests : \A i \in Sessions :
        WF_vars(Talk(r, i)) /\ WF_vars(ReadFails(r, i))

----------------------------------------------------------------------------
(***************************************************************************)
(* A console page shows the hosts its request named, unless another        *)
(* console request was parsed while the page was being sent: then the      *)
(* sessions are those of the last such request.                            *)
(***************************************************************************)
OwnHosts ==
    \A r \in Requests :
        alive /\ stage[r] = "talks" =>
            IF parsed[r] = {} THEN table[r] = r ELSE table[r] \in parsed[r]

(***************************************************************************)
(* No session outlives its browser's socket, and the socket outlives the   *)
(* last session only if there never was one: then nothing closes it.       *)
(***************************************************************************)
OpenForSessions ==
    \A r \in Requests :
        alive /\ stage[r] = "talks" =>
            (r \in open <=> Alive(r) # {} \/ hosts[table[r]] = 0)

(***************************************************************************)
(* The browser sees the end of its response, if sessions were started for  *)
(* it, however the handlers of several sessions fall.                      *)
(***************************************************************************)
ResponseEnds ==
    \A r \in Requests :
        stage[r] = "talks" /\ hosts[table[r]] > 0 ~> r \notin open
=============================================================================
