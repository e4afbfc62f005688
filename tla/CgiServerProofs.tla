-------------------------- MODULE CgiServerProofs --------------------------
(***************************************************************************)
(* Theorems about the CGI server of np_project3, for any number of         *)
(* requests, of hosts a request may name, and of waits of a session.       *)
(***************************************************************************)
EXTENDS CgiServer, FiniteSetTheorems, TLAPS

Stages == {"none", "read", "panel", "console", "talks", "over"}
SessionStates ==
    [step : {"resolve", "connect", "read", "gone"}, waits : Nat, writing : BOOLEAN]

TypeInv ==
    /\ alive \in BOOLEAN
    /\ stage \in [Requests -> Stages]
    /\ hosts \in [Requests -> 0..MAXSERVER]
    /\ server_conf \in {0} \cup Requests
    /\ table \in [Requests -> {0} \cup Requests]
    /\ session \in [Requests -> [Sessions -> SessionStates]]
    /\ use_count \in [Requests -> Int]
    /\ open \in SUBSET Requests
    /\ parsed \in [Requests -> SUBSET Requests]

(* A table in force is that of a request that has been parsed. *)
TableParsed(t) == t # 0 => stage[t] \notin {"none", "read"}

(* Whose hosts r will see, or sees: c is the table in force, or its own. *)
LastParsed(r, c) == c # 0 /\ IF parsed[r] = {} THEN c = r ELSE c \in parsed[r]

(* Before its sessions are started. *)
Waiting(r) ==
    /\ stage[r] # "talks" => Alive(r) = {}
    /\ alive /\ stage[r] \in {"read", "panel", "console"} => r \in open
    /\ stage[r] \in {"none", "read"} => parsed[r] = {}
    /\ stage[r] = "console" => LastParsed(r, server_conf)

(* The socket is counted once by each session, and once for ever. *)
Talking(r) ==
    alive /\ stage[r] = "talks" =>
        /\ LastParsed(r, table[r])
        /\ use_count[r] = 1 + Cardinality(Alive(r))
        /\ hosts[table[r]] = 0 => Alive(r) = {}
        /\ r \in open <=> Alive(r) # {} \/ hosts[table[r]] = 0

IInv ==
    /\ TypeInv
    /\ TableParsed(server_conf)
    /\ \A r \in Requests : TableParsed(table[r])
    /\ \A r \in Requests : Waiting(r)
    /\ \A r \in Requests : Talking(r)

LEMMA InvImplies == IInv => OwnHosts /\ OpenForSessions
<1>. SUFFICES ASSUME IInv, NEW r \in Requests, alive, stage[r] = "talks"
     PROVE  /\ IF parsed[r] = {} THEN table[r] = r ELSE table[r] \in parsed[r]
            /\ r \in open <=> Alive(r) # {} \/ hosts[table[r]] = 0
  BY DEF OwnHosts, OpenForSessions
<1>. QED  BY DEF IInv, Talking, LastParsed

LEMMA AliveFinite ==
    \A r \in Requests : IsFiniteSet(Alive(r)) /\ Cardinality(Alive(r)) \in Nat
<1>1. IsFiniteSet(Sessions)
  BY FS_Interval, CgiAssumption DEF Sessions
<1>. QED  BY <1>1, FS_Subset, FS_CardinalityType DEF Alive

LEMMA InitInv == Init => IInv
<1>. SUFFICES ASSUME Init PROVE IInv
  OBVIOUS
<1>1. NoSession \in SessionStates /\ ~Referenced(NoSession)
  BY DEF NoSession, SessionStates, Referenced
<1>2. \A r \in Requests : Alive(r) = {}
  BY <1>1 DEF Init, Alive
<1>3. TypeInv
  BY <1>1, CgiAssumption DEF Init, TypeInv, Stages, Requests
<1>. QED
  BY <1>2, <1>3 DEF Init, IInv, TableParsed, Waiting, Talking

----------------------------------------------------------------------------
(* A handler of a session that leaves another, or the last one of it.      *)
LEMMA ContinueKeepsInv ==
    ASSUME IInv, NEW r \in Requests, NEW i \in Sessions, NEW s \in SessionStates,
           Referenced(session[r][i]), Continue(r, i, s)
    PROVE  IInv'
<1>1. TypeInv /\ stage[r] = "talks" /\ i \in Alive(r)
  BY DEF IInv, Waiting, Alive
<1>2. session' = [session EXCEPT ![r] = [session[r] EXCEPT ![i] = s]]
  BY DEF Continue
<1>3. \A q \in Requests \ {r} : Alive(q)' = Alive(q)
  BY <1>1, <1>2 DEF Alive, TypeInv
<1>4. session'[r] = [session[r] EXCEPT ![i] = s]
  BY <1>1, <1>2 DEF TypeInv
<1>5. Alive(r)' = IF Referenced(s) THEN Alive(r) ELSE Alive(r) \ {i}
  <2>1. \A j \in Sessions : session'[r][j] = IF j = i THEN s ELSE session[r][j]
    BY <1>1, <1>4 DEF TypeInv
  <2>. QED  BY <1>1, <2>1 DEF Alive
<1>6. TypeInv'
  <2>1. session' \in [Requests -> [Sessions -> SessionStates]]
    BY <1>1, <1>2 DEF TypeInv
  <2>2. use_count' \in [Requests -> Int] /\ open' \in SUBSET Requests
    BY <1>1 DEF TypeInv, Continue, destroy
  <2>. QED  BY <1>1, <2>1, <2>2 DEF TypeInv, Continue
<1>7. \A q \in Requests \ {r} :
         use_count'[q] = use_count[q] /\ (q \in open' <=> q \in open)
  BY <1>1 DEF TypeInv, Continue, destroy
<1>8. UNCHANGED <<alive, stage, hosts, server_conf, table, parsed>>
  BY DEF Continue
<1>9. \A q \in Requests \ {r} : Waiting(q)' /\ Talking(q)'
  BY <1>3, <1>7, <1>8 DEF IInv, Waiting, Talking, LastParsed
<1>10. Waiting(r)'
  BY <1>1, <1>8 DEF Waiting
<1>11. Talking(r)'
  <2>. SUFFICES ASSUME alive PROVE Talking(r)'
    BY <1>8 DEF Talking
  <2>1. /\ LastParsed(r, table[r])' /\ hosts[table[r]] # 0 /\ hosts'[table'[r]] # 0
        /\ use_count[r] = 1 + Cardinality(Alive(r)) /\ r \in open
    BY <1>1, <1>8 DEF IInv, Talking, LastParsed
  <2>2. CASE Referenced(s)
    BY <1>1, <1>5, <1>8, <2>1, <2>2 DEF Continue, Talking
  <2>3. CASE ~Referenced(s)
    <3>1. use_count'[r] = use_count[r] - 1
      BY <1>1, <2>3 DEF Continue, destroy, TypeInv
    <3>2. Cardinality(Alive(r) \ {i}) = Cardinality(Alive(r)) - 1
      BY <1>1, AliveFinite, FS_RemoveElement
    <3>3. Cardinality(Alive(r)) = 1 <=> Alive(r) \ {i} = {}
      BY <3>2, <1>1, AliveFinite, FS_EmptySet, FS_Subset
    <3>4. r \in open' <=> Alive(r) \ {i} # {}
      BY <2>1, <2>3, <3>3, AliveFinite DEF Continue, destroy
    <3>5. Cardinality(Alive(r)) \in Nat
      BY AliveFinite
    <3>6. use_count'[r] = 1 + Cardinality(Alive(r) \ {i})
      BY <2>1, <3>1, <3>2, <3>5
    <3>. QED  BY <1>5, <1>8, <2>1, <2>3, <3>4, <3>6 DEF Talking
  <2>. QED  BY <2>2, <2>3
<1>12. TableParsed(server_conf)' /\ \A q \in Requests : TableParsed(table[q])'
  BY <1>8 DEF IInv, TableParsed
<1>. QED  BY <1>6, <1>9, <1>10, <1>11, <1>12 DEF IInv

LEMMA WaitAndWrite ==
    ASSUME NEW c \in SessionStates, NEW n \in Nat
    PROVE  [c EXCEPT !.waits = n, !.writing = TRUE] \in SessionStates
<1>1. [c EXCEPT !.waits = n] \in SessionStates
  BY DEF SessionStates
<1>2. \A d \in SessionStates : [d EXCEPT !.writing = TRUE] \in SessionStates
  BY DEF SessionStates
<1>. QED  BY <1>1, <1>2

LEMMA TalkKeepsInv ==
    ASSUME IInv, NEW r \in Requests, NEW i \in Sessions, Talk(r, i)
    PROVE  IInv'
<1>. DEFINE c == session[r][i]
<1>1. c \in SessionStates
  BY DEF IInv, TypeInv
<1>2. CASE do_resolve(r, i)
  <2>1. PICK l \in {"connect", "gone"} : Continue(r, i, [c EXCEPT !.step = l])
    BY <1>2 DEF do_resolve
  <2>. QED  BY <1>1, <1>2, <2>1, ContinueKeepsInv DEF do_resolve, Referenced, SessionStates
<1>3. CASE do_connect(r, i)
  <2>1. PICK l \in {"read", "gone"} : Continue(r, i, [c EXCEPT !.step = l])
    BY <1>3 DEF do_connect
  <2>. QED  BY <1>1, <1>3, <2>1, ContinueKeepsInv DEF do_connect, Referenced, SessionStates
<1>4. CASE do_read(r, i)
  <2>1. PICK n \in {0, 1} : Continue(r, i, [c EXCEPT !.waits = c.waits + n, !.writing = TRUE])
    BY <1>4 DEF do_read
  <2>2. c.waits + n \in Nat
    BY <1>1 DEF SessionStates
  <2>3. [c EXCEPT !.waits = c.waits + n, !.writing = TRUE] \in SessionStates
    BY <1>1, <2>2, WaitAndWrite
  <2>. QED  BY <1>4, <2>1, <2>3, ContinueKeepsInv DEF do_read, Referenced
<1>5. CASE ReadFails(r, i)
  BY <1>1, <1>5, ContinueKeepsInv DEF ReadFails, Referenced, SessionStates
<1>6. CASE do_send_cmd(r, i)
  <2>1. c.waits - 1 \in Nat
    BY <1>1, <1>6 DEF SessionStates, do_send_cmd
  <2>2. [c EXCEPT !.waits = c.waits - 1, !.writing = TRUE] \in SessionStates
    BY <1>1, <2>1, WaitAndWrite
  <2>. QED  BY <1>6, <2>2, ContinueKeepsInv DEF do_send_cmd, Referenced
<1>7. CASE Written(r, i)
  BY <1>1, <1>7, ContinueKeepsInv DEF Written, Referenced, SessionStates
<1>. QED  BY <1>2, <1>3, <1>4, <1>5, <1>6, <1>7 DEF Talk

----------------------------------------------------------------------------
(* Steps of the HTTP part that leave the sessions and their counts alone.  *)
LEMMA HttpKeepsInv ==
    ASSUME IInv, NEW r \in Requests, Http(r)
    PROVE  IInv'
<1>1. TypeInv /\ r # 0 /\ 0 \notin Requests
  BY DEF IInv, Requests
<1>2. CASE /\ \/ do_accept(r) \/ RequestPanel(r) \/ RequestOther(r)
              \/ SendFails(r) \/ PanelSent(r)
  <2>1. PICK l \in Stages \ {"talks", "console"} :
           /\ stage' = [stage EXCEPT ![r] = l]
           /\ stage[r] # "talks"
           /\ l \in {"none", "read"} => stage[r] = "none"
           /\ l \in {"read", "panel"} => r \in open'
           /\ open' \in {open, open \cup {r}, open \ {r}}
    BY <1>2 DEF do_accept, RequestPanel, RequestOther, SendFails, PanelSent,
                Goto, Stages, IInv, Waiting
  <2>2. UNCHANGED <<alive, hosts, server_conf, table, session, use_count, parsed>>
    BY <1>2 DEF do_accept, RequestPanel, RequestOther, SendFails, PanelSent, talk
  <2>3. TypeInv'
    BY <1>1, <2>1, <2>2 DEF TypeInv
  <2>4. stage'[r] = l /\ \A q \in Requests \ {r} :
           stage'[q] = stage[q] /\ (q \in open' <=> q \in open)
    BY <1>1, <2>1 DEF TypeInv
  <2>5. \A q \in Requests : Alive(q)' = Alive(q)
    BY <2>2 DEF Alive
  <2>6. TableParsed(server_conf)' /\ \A q \in Requests : TableParsed(table[q])'
    BY <1>1, <2>1, <2>2, <2>4 DEF IInv, TableParsed, TypeInv
  <2>7. \A q \in Requests \ {r} : Waiting(q)' /\ Talking(q)'
    BY <2>2, <2>4, <2>5 DEF IInv, Waiting, Talking, LastParsed
  <2>8. Waiting(r)' /\ Talking(r)'
    BY <2>1, <2>2, <2>4, <2>5 DEF IInv, Waiting, Talking
  <2>. QED  BY <2>3, <2>6, <2>7, <2>8 DEF IInv
<1>3. CASE RequestConsole(r)
  <2>1. PICK n \in 0..MAXSERVER : hosts' = [hosts EXCEPT ![r] = n]
    BY <1>3 DEF RequestConsole
  <2>2. /\ alive /\ stage[r] = "read" /\ stage' = [stage EXCEPT ![r] = "console"]
        /\ server_conf' = r
        /\ parsed' = [q \in Requests |-> IF stage[q] = "console"
                                         THEN parsed[q] \cup {r} ELSE parsed[q]]
        /\ UNCHANGED <<alive, table, session, use_count, open>>
    BY <1>3 DEF RequestConsole, Goto, talk
  <2>3. TypeInv'
    BY <1>1, <2>1, <2>2 DEF TypeInv, Stages
  <2>4. stage'[r] = "console" /\ \A q \in Requests \ {r} : stage'[q] = stage[q]
    BY <1>1, <2>2 DEF TypeInv
  <2>5. /\ \A q \in Requests : Alive(q)' = Alive(q)
        /\ \A q \in Requests : stage[q] = "console" => r \in parsed'[q]
        /\ \A q \in Requests : stage[q] # "console" => parsed'[q] = parsed[q]
    BY <2>2 DEF Alive
  <2>6. TableParsed(server_conf)' /\ \A q \in Requests : TableParsed(table[q])'
    BY <1>1, <2>2, <2>4 DEF IInv, TableParsed, TypeInv
  <2>7. ASSUME NEW q \in Requests \ {r} PROVE Waiting(q)' /\ Talking(q)'
    <3>1. Waiting(q)'
      <4>1. stage[q] = "console" => LastParsed(q, server_conf)'
        BY <1>1, <2>2, <2>5 DEF LastParsed
      <4>. QED  BY <2>2, <2>4, <2>5, <4>1 DEF IInv, Waiting
    <3>2. table[q] # r
      BY <1>1, <2>2 DEF IInv, TableParsed
    <3>3. CASE stage[q] = "talks"
      <4>1. parsed'[q] = parsed[q]
        BY <2>5, <3>3
      <4>2. hosts'[table'[q]] = hosts[table[q]] \/ table[q] = 0
        BY <1>1, <2>1, <2>2, <3>2 DEF TypeInv
      <4>3. table[q] # 0
        BY <2>2, <3>3 DEF IInv, Talking, LastParsed
      <4>. QED  BY <2>2, <2>4, <2>5, <3>1, <4>1, <4>2, <4>3 DEF IInv, Talking, LastParsed
    <3>4. CASE stage[q] # "talks"
      BY <2>4, <3>1, <3>4 DEF Talking
    <3>. QED  BY <3>3, <3>4
  <2>8. Waiting(r)' /\ Talking(r)'
    <3>1. r \in open' /\ Alive(r)' = {}
      BY <2>2, <2>5 DEF IInv, Waiting
    <3>2. LastParsed(r, server_conf)'
      <4>1. parsed'[r] = parsed[r]
        BY <2>2, <2>5
      <4>2. parsed[r] = {}
        BY <2>2 DEF IInv, Waiting
      <4>. QED  BY <1>1, <2>2, <4>1, <4>2 DEF LastParsed
    <3>. QED  BY <3>1, <3>2, <2>4 DEF Waiting, Talking
  <2>. QED  BY <2>3, <2>6, <2>7, <2>8 DEF IInv
<1>4. CASE RequestEndsServer(r)
  <2>1. /\ alive' = FALSE /\ open' = {}
        /\ session' = [q \in Requests |-> [i \in Sessions |-> NoSession]]
        /\ UNCHANGED <<stage, hosts, server_conf, table, use_count, parsed>>
    BY <1>4 DEF RequestEndsServer
  <2>2. NoSession \in SessionStates /\ ~Referenced(NoSession)
    BY DEF NoSession, SessionStates, Referenced
  <2>3. \A q \in Requests : Alive(q)' = {}
    BY <2>1, <2>2 DEF Alive
  <2>4. TypeInv'
    BY <1>1, <2>1, <2>2 DEF TypeInv
  <2>. QED  BY <2>1, <2>3, <2>4 DEF IInv, TableParsed, Waiting, Talking, LastParsed
<1>5. CASE ConsoleSent(r)
  <2>1. /\ alive /\ stage[r] = "console" /\ stage' = [stage EXCEPT ![r] = "talks"]
        /\ table' = [table EXCEPT ![r] = server_conf]
        /\ session' = [session EXCEPT ![r] =
               [i \in Sessions |-> IF i < host_num THEN Start ELSE NoSession]]
        /\ use_count' = [use_count EXCEPT ![r] = 1 + host_num]
        /\ UNCHANGED <<alive, hosts, server_conf, open, parsed>>
    BY <1>5 DEF ConsoleSent, Goto
  <2>2. LastParsed(r, server_conf) /\ r \in open /\ server_conf \in Requests
    BY <1>1, <2>1 DEF IInv, Waiting, LastParsed, TypeInv
  <2>3. host_num = hosts[server_conf] /\ host_num \in 0..MAXSERVER
    BY <1>1, <2>2 DEF host_num, TypeInv
  <2>4. /\ Start \in SessionStates /\ Referenced(Start)
        /\ NoSession \in SessionStates /\ ~Referenced(NoSession)
    <3>1. NoSession \in SessionStates /\ ~Referenced(NoSession)
      BY DEF NoSession, SessionStates, Referenced
    <3>2. [NoSession EXCEPT !.step = "resolve"] \in SessionStates
      BY <3>1 DEF SessionStates
    <3>3. [NoSession EXCEPT !.step = "resolve"].step = "resolve"
      BY DEF NoSession
    <3>. QED  BY <3>1, <3>2, <3>3 DEF Start, Referenced
  <2>5. TypeInv'
    BY <1>1, <2>1, <2>2, <2>3, <2>4 DEF TypeInv, Stages
  <2>6. /\ stage'[r] = "talks" /\ table'[r] = server_conf
        /\ use_count'[r] = 1 + host_num
        /\ \A q \in Requests \ {r} :
              /\ stage'[q] = stage[q] /\ table'[q] = table[q]
              /\ use_count'[q] = use_count[q]
    BY <1>1, <2>1 DEF TypeInv
  <2>7. \A q \in Requests \ {r} : Alive(q)' = Alive(q)
    BY <1>1, <2>1 DEF TypeInv, Alive
  <2>8. Alive(r)' = 0..host_num-1
    <3>1. session'[r] = [i \in Sessions |-> IF i < host_num THEN Start ELSE NoSession]
      BY <1>1, <2>1 DEF TypeInv
    <3>2. Alive(r)' = {i \in Sessions : i < host_num}
      BY <3>1, <2>4 DEF Alive
    <3>. QED  BY <3>2, <2>3, CgiAssumption DEF Sessions
  <2>9. Cardinality(Alive(r)') = host_num /\ (Alive(r)' = {} <=> host_num = 0)
    <3>1. host_num \in Int /\ host_num - 1 \in Int /\ host_num >= 0
      BY <2>3, CgiAssumption
    <3>2. Cardinality(0..host_num-1) = IF 0 > host_num - 1 THEN 0 ELSE (host_num - 1) - 0 + 1
      BY <3>1, FS_Interval
    <3>. QED  BY <3>1, <3>2, <2>8
  <2>10. TableParsed(server_conf)' /\ \A q \in Requests : TableParsed(table[q])'
    BY <1>1, <2>1, <2>2, <2>6 DEF IInv, TableParsed, TypeInv
  <2>11. \A q \in Requests \ {r} : Waiting(q)' /\ Talking(q)'
    BY <2>1, <2>6, <2>7 DEF IInv, Waiting, Talking, LastParsed
  <2>12. Waiting(r)' /\ Talking(r)'
    BY <2>1, <2>2, <2>3, <2>6, <2>9 DEF Waiting, Talking, LastParsed
  <2>. QED  BY <2>5, <2>10, <2>11, <2>12 DEF IInv
<1>. QED  BY <1>2, <1>3, <1>4, <1>5 DEF Http

LEMMA NextKeepsInv == IInv /\ [Next]_vars => IInv'
<1>. SUFFICES ASSUME IInv, [Next]_vars PROVE IInv'
  OBVIOUS
<1>1. CASE UNCHANGED vars
  <2>1. \A q \in Requests : Alive(q)' = Alive(q)
    BY <1>1 DEF vars, Alive
  <2>2. UNCHANGED <<alive, stage, hosts, server_conf, table, session, use_count, open, parsed>>
    BY <1>1 DEF vars
  <2>3. TypeInv' /\ TableParsed(server_conf)' /\ \A q \in Requests : TableParsed(table[q])'
    BY <2>2 DEF IInv, TypeInv, TableParsed
  <2>4. \A q \in Requests : Waiting(q)' /\ Talking(q)'
    BY <2>1, <2>2 DEF IInv, Waiting, Talking, LastParsed
  <2>. QED  BY <2>3, <2>4 DEF IInv
<1>2. CASE Next
  BY <1>2, HttpKeepsInv, TalkKeepsInv DEF Next
<1>. QED  BY <1>1, <1>2

(***************************************************************************)
(* main.cpp:257-271: a console page shows the hosts of its own request     *)
(* unless another was parsed while it was sent, and then those of the last *)
(* such request, for every number of requests and hosts.                   *)
(***************************************************************************)
THEOREM HostsCorrect == Spec => []OwnHosts
<1>1. IInv => OwnHosts
  BY InvImplies
<1>. QED  BY InitInv, NextKeepsInv, <1>1, PTL DEF Spec

(***************************************************************************)
(* main.cpp:53-60, the destructor of a session: the browser's socket is    *)
(* open exactly while a session is left, or for ever when there never was  *)
(* one, for every number of requests, hosts and waiting handlers.          *)
(***************************************************************************)
THEOREM SocketLifetime == Spec => []OpenForSessions
<1>1. IInv => OpenForSessions
  BY InvImplies
<1>. QED  BY InitInv, NextKeepsInv, <1>1, PTL DEF Spec
=============================================================================
