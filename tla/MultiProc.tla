------------------------------ MODULE MultiProc ------------------------------
(***************************************************************************)
(* np_project2/np_multi_proc.cpp: one process per client.  The processes   *)
(* share the table all_clients, guard most accesses with one semaphore and *)
(* tell each other of changes by signals: SIGUSR1, a message is in your    *)
(* slot; SIGUSR2, open the FIFO someone pipes to you; SIGALRM, a sender    *)
(* has left; SIGCHLD.                                                      *)
(*                                                                         *)
(* code[p] is what process p has still to execute, an instruction after    *)
(* the other.  Running a command prepends its instructions; so does a      *)
(* signal, at any point, with those of its handler and a "return".  An     *)
(* access under the semaphore is a "wait" and the body that follows it,    *)
(* whose step also executes sem_signal (a signal that arrives between the  *)
(* two is taken to arrive before the body; p waits for itself either way). *)
(*                                                                         *)
(* sem_wait stores -1 in the static op_op and calls semop; a handler run   *)
(* in between leaves +1 there ("flip"), and one that interrupts semop      *)
(* makes it fail.  In both cases p goes on without the semaphore.          *)
(*                                                                         *)
(* What a line does apart from user pipes is NpShell's.  Descriptors are   *)
(* the connection or FIFO they were opened on: a number that close freed   *)
(* and the kernel handed out again is not told apart from a new one.       *)
(***************************************************************************)
EXTENDS Integers, Sequences, FiniteSets

CONSTANTS
    MAX_CLIENTS,
    MaxConn,     \* bound: connections accepted, one process each
    Started,     \* those whose user is logged in to begin with
    Menu,        \* the commands users may type
    Names,       \* nicknames
    Budget       \* bound: commands typed after those logins

Slots == 1..MAX_CLIENTS
Conns == 1..MaxConn
Master == 0
Procs == {Master} \cup Conns
Signals == {"usr1", "usr2", "alrm", "chld"}

ASSUME MultiProcAssumption ==
    /\ MAX_CLIENTS \in Nat \ {0} /\ MaxConn \in Nat /\ Budget \in Nat
    /\ Started \subseteq Conns /\ Started = 1..Cardinality(Started)
    /\ Cardinality(Started) <= MAX_CLIENTS
    /\ {"", "(no name)"} \cap Names = {}

VARIABLES
    all_clients,
    sem,         \* value of the semaphore
    adj,         \* what its SEM_UNDO adds when the process exits
    code, pend, mask,
    me, sock,    \* the globals uid and client_sock
    fds,         \* sockets the process holds
    ffds,        \* FIFOs it holds open for reading
    used_fd,     \* the master's
    fifo,        \* files user_pipe/i_j_fifo
    jobs,        \* processes with a command nobody waits for
    typed, opened,
    slipped,     \* a wait has been skipped or turned into a signal
    crossed      \* servers that set up a pipe while another one did

vars == <<all_clients, sem, adj, code, pend, mask, me, sock, fds, ffds,
          used_fd, fifo, jobs, typed, opened, slipped, crossed>>
shared == <<all_clients, fifo, used_fd, me, sock, fds, ffds, jobs, typed, opened, crossed>>
files == <<fifo, opened, ffds, jobs, crossed>>
local == <<used_fd, me, sock, fds, typed>>

FreeSlot ==
    [uid |-> FALSE, pid |-> -1, fd |-> -1, nickname |-> "", message |-> 0,
     sender_id |-> -1, clear_id |-> -1, sent_fd |-> [i \in Slots |-> -1]]

(***************************************************************************)
(* Instructions and the sequences they form.                               *)
(***************************************************************************)
Do(op) == [do |-> op]
On(op, i) == [do |-> op, to |-> i]
Section(body) == <<Do("wait"), body>>
Peek == Section(Do("peek"))
Unlink(i, j) == [do |-> "unlink", from |-> i, to |-> j]

(* Mutant: the users are signalled before the message is stored. *)
Mut_broadcast == [i \in Slots |-> On("killif", i)] \o Section(Do("bcast"))

broadcast == Section(Do("bcast")) \o [i \in Slots |-> On("killif", i)]

Handler(p, s) ==
    (CASE s = "usr1" -> Section(Do("pass_message"))
       [] s = "usr2" -> <<Do("user_pipe_handler")>>
       [] s = "alrm" -> Section(Do("user_exit_clear"))
       [] s = "chld" -> IF p = Master THEN Section(Do("close_unused_fd")) ELSE <<>>)
    \o <<[do |-> "return", sig |-> s]>>

UsesSemaphore(p, s) == s \in {"usr1", "alrm"} \/ (s = "chld" /\ p = Master)

(* Mutant: the slot is not given back. *)
Mut_client_logout ==
    Peek \o broadcast \o [i \in Slots |-> On("user_pipe_clear", i)]
    \o <<Do("close"), Do("exit")>>

client_logout ==
    Peek \o broadcast \o [i \in Slots |-> On("user_pipe_clear", i)]
    \o Section(Do("clear_slot")) \o <<Do("close"), Do("exit")>>

Child ==
    Section(Do("close_other")) \o Section(Do("set_pid")) \o broadcast
    \o <<Do("prompt")>>

(* What a typed command executes before the next prompt. *)
Command(c) ==
    CASE c.cmd = "who"  -> Peek
      [] c.cmd = "tell" -> Section(On("tell", c.to)) \o <<On("killif", c.to)>>
      [] c.cmd = "yell" -> Peek \o broadcast
      [] c.cmd = "name" -> Section([do |-> "name_exists", name |-> c.name])
      [] c.cmd = "out"  -> Section(On("out_exists", c.to))
      [] c.cmd = "in"   -> Section([do |-> "in_exists", to |-> c.to, bad |-> c.bad])

Commands ==
    [cmd : {"who", "yell"} \cap Menu]
        \cup [cmd : {"tell", "out"} \cap Menu, to : Slots]
        \cup [cmd : {"name"} \cap Menu, name : Names]
        \cup [cmd : {"in"} \cap Menu, to : Slots, bad : {"badfile" \in Menu, FALSE}]

----------------------------------------------------------------------------
Alive(p) == code[p] # <<>>
At(p, op) == Alive(p) /\ Head(code[p]).do = op
Now(p) == Head(code[p])
Continue(p, s) == code' = [code EXCEPT ![p] = s \o Tail(@)]

(* The end of a section: the body's step releases the semaphore. *)
Leave(p, s) ==
    /\ Continue(p, s)
    /\ sem' = sem + 1
    /\ adj' = [adj EXCEPT ![p] = @ - 1]
    /\ UNCHANGED <<pend, mask, slipped>>

Plain(p, s) == Continue(p, s) /\ UNCHANGED <<sem, adj, pend, mask, slipped>>

Clients(new) == all_clients' = new

(* Exit of p: the kernel undoes its semaphore operations, closes its       *)
(* descriptors and sends SIGCHLD to the master. *)
Exit(p) ==
    /\ code' = [code EXCEPT ![p] = <<>>]
    /\ sem' = IF sem + adj[p] < 0 THEN 0 ELSE sem + adj[p]
    /\ adj' = [adj EXCEPT ![p] = 0]
    /\ pend' = [pend EXCEPT ![p] = {}, ![Master] = @ \cup {"chld"}]
    /\ mask' = [mask EXCEPT ![p] = {}]
    /\ fds' = [fds EXCEPT ![p] = {}]
    /\ ffds' = [ffds EXCEPT ![p] = {}]
    /\ jobs' = jobs \ {p}
    /\ UNCHANGED <<all_clients, me, sock, used_fd, fifo, typed, opened, slipped, crossed>>

(***************************************************************************)
(* kill(pid, s): pid -1 is every other process; a signal to oneself is     *)
(* delivered before kill returns.                                          *)
(***************************************************************************)
Kill(p, pid, s, then) ==
    LET targets == IF pid = -1 THEN {q \in Procs \ {p} : Alive(q)}
                   ELSE {q \in {pid} : Alive(q)}
        now == p \in targets /\ s \notin mask[p]
    IN  /\ pend' = [q \in Procs |->
                        IF q \in targets /\ ~(q = p /\ now)
                        THEN pend[q] \cup {s} ELSE pend[q]]
        /\ mask' = [mask EXCEPT ![p] = IF now THEN @ \cup {s} ELSE @]
        /\ Continue(p, (IF now THEN Handler(p, s) ELSE <<>>) \o then)
        /\ UNCHANGED <<all_clients, sem, adj, slipped>>
        /\ UNCHANGED <<local, files>>

----------------------------------------------------------------------------
Wait(p) ==
    /\ At(p, "wait") /\ sem > 0
    /\ sem' = sem - 1
    /\ adj' = [adj EXCEPT ![p] = @ + 1]
    /\ Continue(p, <<>>)
    /\ UNCHANGED <<shared, pend, mask, slipped>>

Flip(p) == At(p, "flip") /\ Leave(p, <<>>) /\ UNCHANGED shared

(* Where p goes on after the handler of s. *)
Resumptions(p, s) ==
    LET rest == Tail(code[p])
    IN  {code[p]}
        \cup (IF At(p, "wait") /\ UsesSemaphore(p, s) THEN {<<Do("flip")>> \o rest} ELSE {})
        \cup (IF At(p, "wait") /\ sem = 0 THEN {rest} ELSE {})

Deliver(p, s) ==
    /\ Alive(p) /\ s \in pend[p] \ mask[p]
    /\ pend' = [pend EXCEPT ![p] = @ \ {s}]
    /\ mask' = [mask EXCEPT ![p] = @ \cup {s}]
    /\ \E r \in Resumptions(p, s) :
          /\ code' = [code EXCEPT ![p] = Handler(p, s) \o r]
          /\ slipped' = (slipped \/ r # code[p])
    /\ UNCHANGED <<shared, sem, adj>>

Return(p) ==
    /\ At(p, "return")
    /\ mask' = [mask EXCEPT ![p] = @ \ {Now(p).sig}]
    /\ Continue(p, <<>>)
    /\ UNCHANGED <<shared, sem, adj, pend, slipped>>

----------------------------------------------------------------------------
(* The master: accept, client_init, fork; close_unused_fd on SIGCHLD.      *)
(* Bound: it accepts only while a slot is free. *)
Accept ==
    /\ At(Master, "accept")
    /\ sock[Master] < MaxConn
    /\ \E i \in Slots : ~all_clients[i].uid
    /\ LET c == sock[Master] + 1
       IN  /\ sock' = [sock EXCEPT ![Master] = c]
           /\ fds' = [fds EXCEPT ![Master] = @ \cup {c}]
    /\ code' = [code EXCEPT ![Master] = Section(Do("client_init")) \o @]
    /\ UNCHANGED <<all_clients, sem, adj, pend, mask, me, used_fd, files, typed, slipped>>

client_init ==
    /\ At(Master, "client_init")
    /\ LET i == CHOOSE j \in Slots :
                    /\ ~all_clients[j].uid
                    /\ \A k \in 1..j-1 : all_clients[k].uid
       IN  /\ Clients([all_clients EXCEPT ![i].uid = TRUE,
                  ![i].nickname = "(no name)", ![i].fd = sock[Master],
                  ![i].sender_id = -1, ![i].clear_id = -1])
           /\ Leave(Master, <<On("register", i), Do("fork")>>)
    /\ UNCHANGED <<local, files>>

Register ==
    /\ At(Master, "register")
    /\ me' = [me EXCEPT ![Master] = Now(Master).to]
    /\ used_fd' = [used_fd EXCEPT ![Now(Master).to] = sock[Master]]
    /\ Plain(Master, <<>>)
    /\ UNCHANGED <<all_clients, sock, fds, typed, files>>

Fork ==
    /\ At(Master, "fork")
    /\ LET c == sock[Master]
       IN  /\ code' = [code EXCEPT ![Master] = Tail(@), ![c] = Child]
           /\ me' = [me EXCEPT ![c] = me[Master]]
           /\ sock' = [sock EXCEPT ![c] = c]
           /\ fds' = [fds EXCEPT ![c] = fds[Master]]
           /\ ffds' = [ffds EXCEPT ![c] = ffds[Master]]
    /\ UNCHANGED <<all_clients, used_fd, sem, adj, pend, mask, fifo, opened, jobs, crossed, typed, slipped>>

(* Mutant: the socket is forgotten, not closed. *)
Mut_close_unused_fd ==
    /\ At(Master, "close_unused_fd")
    /\ used_fd' = [i \in Slots |-> IF all_clients[i].fd = -1 THEN -1 ELSE used_fd[i]]
    /\ Leave(Master, <<>>)
    /\ UNCHANGED <<all_clients, me, sock, fds, typed, files>>

close_unused_fd ==
    /\ At(Master, "close_unused_fd")
    /\ LET unused == {i \in Slots : used_fd[i] > 0 /\ all_clients[i].fd = -1}
       IN  /\ used_fd' = [i \in Slots |-> IF i \in unused THEN -1 ELSE used_fd[i]]
           /\ fds' = [fds EXCEPT ![Master] = @ \ {used_fd[i] : i \in unused}]
    /\ Leave(Master, <<>>)
    /\ UNCHANGED <<all_clients, me, sock, typed, files>>

(* A new process: closes the other clients' sockets, or exits at the first *)
(* that it does not hold. *)
close_other_client_fd(p) ==
    /\ At(p, "close_other")
    /\ LET others == {all_clients[i].fd : i \in {j \in Slots :
                          (all_clients[j].uid => j # me[p]) /\ all_clients[j].fd > 0}}
       IN  IF others \subseteq fds[p]
           THEN /\ fds' = [fds EXCEPT ![p] = @ \ others]
                /\ Leave(p, <<>>)
                /\ UNCHANGED <<all_clients, me, sock, used_fd, typed, files>>
           ELSE Exit(p)

client_login(p) ==
    /\ At(p, "set_pid")
    /\ Clients([all_clients EXCEPT ![me[p]].pid = p])
    /\ Leave(p, <<>>)
    /\ UNCHANGED <<local, files>>

----------------------------------------------------------------------------
(* Messages.  A message is the connection it is meant for, 0 once printed. *)
Bcast(p) ==
    /\ At(p, "bcast")
    /\ Clients([i \in Slots |->
          IF all_clients[i].uid
          THEN [all_clients[i] EXCEPT !.message = all_clients[i].fd]
          ELSE all_clients[i]])
    /\ Leave(p, <<>>)
    /\ UNCHANGED <<local, files>>

(* Mutant: the message goes to the slot of the one who tells. *)
Mut_Tell(p) ==
    /\ At(p, "tell")
    /\ LET i == Now(p).to
       IN  Clients(IF all_clients[i].uid
                   THEN [all_clients EXCEPT ![me[p]].message = all_clients[i].fd]
                   ELSE all_clients)
    /\ Leave(p, <<>>)
    /\ UNCHANGED <<local, files>>

Tell(p) ==
    /\ At(p, "tell")
    /\ LET i == Now(p).to
       IN  Clients(IF all_clients[i].uid
                   THEN [all_clients EXCEPT ![i].message = all_clients[i].fd]
                   ELSE all_clients)
    /\ Leave(p, <<>>)
    /\ UNCHANGED <<local, files>>

(* The uid is checked, then the pid read, both outside the semaphore. *)
KillIf(p) ==
    /\ At(p, "killif")
    /\ Plain(p, IF all_clients[Now(p).to].uid THEN <<On("killslot", Now(p).to)>> ELSE <<>>)
    /\ UNCHANGED shared

KillSlot(p) == At(p, "killslot") /\ Kill(p, all_clients[Now(p).to].pid, "usr1", <<>>)

pass_message(p) ==
    /\ At(p, "pass_message")
    /\ Clients([all_clients EXCEPT ![me[p]].message = 0])
    /\ Leave(p, <<>>)
    /\ UNCHANGED <<local, files>>

(* who, get_user_name, get_user_ip, get_user_port: they only read. *)
PeekBody(p) == At(p, "peek") /\ Leave(p, <<>>) /\ UNCHANGED shared

(* Mutants: the early return keeps the semaphore; the last slot is left out. *)
Mut_name_exists(p) ==
    /\ At(p, "name_exists")
    /\ IF \E i \in Slots : all_clients[i].nickname = Now(p).name
       THEN Plain(p, <<>>)
       ELSE Leave(p, Section([do |-> "set_name", name |-> Now(p).name,
                              checked |-> [i \in Slots |-> all_clients[i].nickname]]))
    /\ UNCHANGED shared

Mut_name_exists_short(p) ==
    /\ At(p, "name_exists")
    /\ Leave(p, IF \E i \in 1..MAX_CLIENTS-1 : all_clients[i].nickname = Now(p).name THEN <<>>
                ELSE Section([do |-> "set_name", name |-> Now(p).name,
                              checked |-> [i \in Slots |-> all_clients[i].nickname]]))
    /\ UNCHANGED shared

name_exists(p) ==
    /\ At(p, "name_exists")
    /\ Leave(p, IF \E i \in Slots : all_clients[i].nickname = Now(p).name THEN <<>>
                ELSE Section([do |-> "set_name", name |-> Now(p).name,
                              checked |-> [i \in Slots |-> all_clients[i].nickname]]))
    /\ UNCHANGED shared

Rename(p) ==
    /\ At(p, "set_name")
    /\ Clients([all_clients EXCEPT ![me[p]].nickname = Now(p).name])
    /\ Leave(p, Peek \o Peek \o broadcast)
    /\ UNCHANGED <<local, files>>

----------------------------------------------------------------------------
(* ">n" *)
out_exists(p) ==
    /\ At(p, "out_exists")
    /\ Leave(p, IF all_clients[Now(p).to].uid THEN <<On("out_fifo", Now(p).to)>> ELSE <<>>)
    /\ UNCHANGED shared

OutFifo(p) ==
    /\ At(p, "out_fifo")
    /\ Plain(p, IF fifo[<<me[p], Now(p).to>>] # 0 THEN <<>>
                ELSE Peek \o Peek \o Section(On("set_sender", Now(p).to)))
    /\ UNCHANGED shared

SettingUp(p) == \E k \in DOMAIN code[p] : code[p][k].do = "open_write"

SetSender(p) ==
    /\ At(p, "set_sender")
    /\ LET i == Now(p).to
       IN  /\ Clients([all_clients EXCEPT ![i].sender_id = me[p]])
           /\ LET others == {q \in Conns \ {p} : SettingUp(q)}
              IN  crossed' = IF others = {} THEN crossed ELSE crossed \cup others \cup {p}
           /\ Leave(p, <<On("mkfifo", i)>>
                       \o Section([do |-> "kill_usr2", pid |-> all_clients[i].pid])
                       \o <<[do |-> "open_write", to |-> i, pid |-> all_clients[i].pid]>>
                       \o broadcast \o <<Do("job")>>)
    /\ UNCHANGED <<local, fifo, opened, ffds, jobs>>

MkFifo(p) ==
    /\ At(p, "mkfifo")
    /\ LET f == <<me[p], Now(p).to>>
       IN  IF fifo[f] # 0 THEN UNCHANGED <<fifo, opened>>
           ELSE opened' = opened + 1 /\ fifo' = [fifo EXCEPT ![f] = opened + 1]
    /\ Plain(p, <<>>)
    /\ UNCHANGED <<all_clients, local, ffds, jobs, crossed>>

(* kill with a pid read earlier; SIGUSR2 is sent under the semaphore. *)
KillUsr2(p) == At(p, "kill_usr2") /\ Kill(p, Now(p).pid, "usr2", <<Do("signal")>>)

SemSignal(p) == At(p, "signal") /\ Leave(p, <<>>) /\ UNCHANGED shared

(* Both opens of a FIFO return when the other side is there too; the file  *)
(* is there, since only its receiver removes it, and after this. *)
OpenBoth(p, q) ==
    /\ At(p, "open_write") /\ At(q, "open_read")
    /\ Now(p).to = me[q] /\ Now(q).to = me[p] /\ fifo[<<me[p], me[q]>>] # 0
    /\ LET f == fifo[<<me[p], me[q]>>]
       IN  /\ ffds' = [ffds EXCEPT ![q] = @ \cup {f}]
           /\ code' = [code EXCEPT ![p] = Tail(@),
                  ![q] = <<[do |-> "set_sent", from |-> me[p], fd |-> f]>> \o Tail(@)]
    /\ UNCHANGED <<all_clients, sem, adj, pend, mask, slipped, local, fifo, opened, jobs, crossed>>

(* The forked command writes into the FIFO; the server closes its end.  It *)
(* does not wait for it: SIGCHLD comes when it does. *)
StartJob(p) ==
    /\ At(p, "job")
    /\ jobs' = jobs \cup {p}
    /\ Plain(p, <<>>)
    /\ UNCHANGED <<all_clients, local, fifo, opened, ffds, crossed>>

JobDone(p) ==
    /\ p \in jobs
    /\ jobs' = jobs \ {p}
    /\ pend' = [pend EXCEPT ![p] = @ \cup {"chld"}]
    /\ UNCHANGED <<all_clients, sem, adj, code, mask, slipped, local, fifo, opened, ffds, crossed>>

(* Mutant: sender_id is cleared before it is read. *)
Mut_user_pipe_handler(p) ==
    /\ At(p, "user_pipe_handler")
    /\ Clients([all_clients EXCEPT ![me[p]].sender_id = -1])
    /\ Plain(p, <<On("open_read", -1)>>)
    /\ UNCHANGED <<local, files>>

(* SIGUSR2: takes sender_id and opens its FIFO, neither under the          *)
(* semaphore. *)
user_pipe_handler(p) ==
    /\ At(p, "user_pipe_handler")
    /\ Clients([all_clients EXCEPT ![me[p]].sender_id = -1])
    /\ Plain(p, <<On("open_read", all_clients[me[p]].sender_id)>>)
    /\ UNCHANGED <<local, files>>

OpenReadFails(p) ==
    /\ At(p, "open_read")
    /\ ~(Now(p).to \in Slots /\ fifo[<<Now(p).to, me[p]>>] # 0)
    /\ Plain(p, <<>>)
    /\ UNCHANGED shared

(* Mutant: the descriptor is filed under the receiver itself. *)
Mut_SetSentFd(p) ==
    /\ At(p, "set_sent")
    /\ Clients([all_clients EXCEPT ![me[p]].sent_fd[me[p]] = Now(p).fd])
    /\ Plain(p, <<>>)
    /\ UNCHANGED <<local, files>>

SetSentFd(p) ==
    /\ At(p, "set_sent")
    /\ Clients([all_clients EXCEPT ![me[p]].sent_fd[Now(p).from] = Now(p).fd])
    /\ Plain(p, <<>>)
    /\ UNCHANGED <<local, files>>

----------------------------------------------------------------------------
(* "<n", alone or with a "> file" that cannot be opened (bad). *)
in_exists(p) ==
    /\ At(p, "in_exists")
    /\ Leave(p, IF all_clients[Now(p).to].uid
                THEN <<[do |-> "in_fifo", to |-> Now(p).to, bad |-> Now(p).bad]>>
                ELSE <<>>)
    /\ UNCHANGED shared

InFifo(p) ==
    /\ At(p, "in_fifo")
    /\ Plain(p, IF fifo[<<Now(p).to, me[p]>>] = 0 THEN <<>>
                ELSE Section([do |-> "take_fd", to |-> Now(p).to, bad |-> Now(p).bad]))
    /\ UNCHANGED shared

TakeFd(p) ==
    /\ At(p, "take_fd")
    /\ LET i == Now(p).to
           last == [do |-> "close_in", from |-> i, fd |-> all_clients[me[p]].sent_fd[i]]
       IN  /\ Clients([all_clients EXCEPT ![me[p]].sent_fd[i] = -1])
           /\ Leave(p, Peek \o Peek \o broadcast
                       \o (IF Now(p).bad THEN <<>> ELSE <<last>>))
    /\ UNCHANGED <<local, files>>

(* Mutant: the FIFO is removed but not closed. *)
Mut_CloseIn(p) ==
    /\ At(p, "close_in")
    /\ Plain(p, <<Unlink(Now(p).from, me[p])>>)
    /\ UNCHANGED shared

(* After the fork: close_fd(readfd), which exits on failure, and unlink. *)
CloseIn(p) ==
    /\ At(p, "close_in")
    /\ IF Now(p).fd \in ffds[p]
       THEN /\ ffds' = [ffds EXCEPT ![p] = @ \ {Now(p).fd}]
            /\ Plain(p, <<Unlink(Now(p).from, me[p])>>)
            /\ UNCHANGED <<all_clients, local, fifo, opened, jobs, crossed>>
       ELSE Exit(p)

UnlinkFifo(p) ==
    /\ At(p, "unlink")
    /\ fifo' = [fifo EXCEPT ![<<Now(p).from, Now(p).to>>] = 0]
    /\ Plain(p, <<>>)
    /\ UNCHANGED <<all_clients, local, opened, ffds, jobs, crossed>>

----------------------------------------------------------------------------
(* client_logout: user_pipe_clear for each slot, then the slot itself. *)
user_pipe_clear(p) ==
    /\ At(p, "user_pipe_clear")
    /\ Plain(p, Section(On("read_fds", Now(p).to)))
    /\ UNCHANGED shared

ReadFds(p) ==
    /\ At(p, "read_fds")
    /\ LET i == Now(p).to
       IN  Leave(p, (IF all_clients[me[p]].sent_fd[i] > 0 THEN <<Unlink(i, me[p])>> ELSE <<>>)
                    \o IF all_clients[i].sent_fd[me[p]] > 0
                       THEN Section(On("mark_clear", i)) ELSE <<>>)
    /\ UNCHANGED shared

MarkClear(p) ==
    /\ At(p, "mark_clear")
    /\ LET i == Now(p).to
       IN  /\ Clients([all_clients EXCEPT ![i].clear_id = me[p]])
           /\ Leave(p, <<[do |-> "kill_alrm", pid |-> all_clients[i].pid]>>
                       \o Section(On("reset_sent", i)) \o <<Unlink(me[p], i)>>)
    /\ UNCHANGED <<local, files>>

KillAlrm(p) == At(p, "kill_alrm") /\ Kill(p, Now(p).pid, "alrm", <<>>)

ResetSent(p) ==
    /\ At(p, "reset_sent")
    /\ Clients([all_clients EXCEPT ![Now(p).to].sent_fd[me[p]] = -1])
    /\ Leave(p, <<>>)
    /\ UNCHANGED <<local, files>>

(* SIGALRM: sent_fd[-1] is the field before the array, clear_id itself,    *)
(* and close(-1) does nothing. *)
user_exit_clear(p) ==
    /\ At(p, "user_exit_clear")
    /\ LET i == all_clients[me[p]].clear_id
       IN  ffds' = [ffds EXCEPT ![p] =
                       IF i = -1 THEN @ ELSE @ \ {all_clients[me[p]].sent_fd[i]}]
    /\ Clients([all_clients EXCEPT ![me[p]].clear_id = -1])
    /\ Leave(p, <<>>)
    /\ UNCHANGED <<local, fifo, opened, jobs, crossed>>

ClearSlot(p) ==
    /\ At(p, "clear_slot")
    /\ Clients([all_clients EXCEPT ![me[p]] = [FreeSlot EXCEPT !.message = all_clients[me[p]].message]])
    /\ Leave(p, <<>>)
    /\ UNCHANGED <<local, files>>

CloseSock(p) ==
    /\ At(p, "close")
    /\ fds' = [fds EXCEPT ![p] = @ \ {p}]
    /\ Plain(p, <<>>)
    /\ UNCHANGED <<all_clients, me, sock, used_fd, typed, files>>

ExitProcess(p) == At(p, "exit") /\ Exit(p)

----------------------------------------------------------------------------
(* A user types a command, or "exit", or closes the connection. *)
Type(p) ==
    /\ At(p, "prompt") /\ typed < Budget
    /\ typed' = typed + 1
    /\ \E c \in Commands : code' = [code EXCEPT ![p] = Command(c) \o @]
    /\ UNCHANGED <<all_clients, sem, adj, pend, mask, slipped, me, sock, fds, used_fd, files>>

Quit(p) ==
    /\ At(p, "prompt") /\ "exit" \in Menu /\ typed < Budget
    /\ typed' = typed + 1
    /\ Continue(p, client_logout)
    /\ UNCHANGED <<all_clients, sem, adj, pend, mask, slipped, me, sock, fds, used_fd, files>>

----------------------------------------------------------------------------
Login(i) == [FreeSlot EXCEPT !.uid = TRUE, !.pid = i, !.fd = i, !.nickname = "(no name)"]

Init ==
    /\ all_clients = [i \in Slots |-> IF i \in Started THEN Login(i) ELSE FreeSlot]
    /\ sem = 1 /\ adj = [p \in Procs |-> 0]
    /\ code = [p \in Procs |-> IF p = Master THEN <<Do("accept")>>
                               ELSE IF p \in Started THEN <<Do("prompt")>> ELSE <<>>]
    /\ pend = [p \in Procs |-> {}] /\ mask = [p \in Procs |-> {}]
    /\ me = [p \in Procs |-> IF p = Master THEN Cardinality(Started)
                             ELSE IF p \in Started THEN p ELSE -1]
    /\ sock = [p \in Procs |-> IF p = Master THEN Cardinality(Started)
                               ELSE IF p \in Started THEN p ELSE -1]
    /\ fds = [p \in Procs |-> IF p = Master THEN Started
                              ELSE IF p \in Started THEN {p} ELSE {}]
    /\ ffds = [p \in Procs |-> {}]
    /\ used_fd = [i \in Slots |-> IF i \in Started THEN i ELSE -1]
    /\ fifo = [f \in Slots \X Slots |-> 0]
    /\ jobs = {} /\ crossed = {} /\ typed = 0 /\ opened = 0 /\ slipped = FALSE

Step(p) ==
    \/ Wait(p) \/ Flip(p) \/ Return(p)
    \/ close_other_client_fd(p) \/ client_login(p)
    \/ Bcast(p) \/ Tell(p) \/ KillIf(p) \/ KillSlot(p) \/ pass_message(p)
    \/ PeekBody(p) \/ name_exists(p) \/ Rename(p)
    \/ out_exists(p) \/ OutFifo(p) \/ SetSender(p) \/ MkFifo(p) \/ KillUsr2(p) \/ KillAlrm(p)
    \/ SemSignal(p) \/ StartJob(p)
    \/ user_pipe_handler(p) \/ OpenReadFails(p) \/ SetSentFd(p)
    \/ in_exists(p) \/ InFifo(p) \/ TakeFd(p) \/ CloseIn(p) \/ UnlinkFifo(p)
    \/ user_pipe_clear(p) \/ ReadFds(p) \/ MarkClear(p) \/ ResetSent(p)
    \/ user_exit_clear(p) \/ ClearSlot(p) \/ CloseSock(p) \/ ExitProcess(p)

MasterStep == client_init \/ Register \/ Fork \/ close_unused_fd

(* What happens by itself, as opposed to what clients and commands do. *)
System ==
    \/ MasterStep
    \/ \E p \in Procs : Step(p)
    \/ \E p, q \in Procs : OpenBoth(p, q)
    \/ \E p \in Procs, s \in Signals : Deliver(p, s)

Next == Accept \/ System \/ \E p \in Procs : JobDone(p) \/ Type(p) \/ Quit(p)

Spec == Init /\ [][Next]_vars

(***************************************************************************)
(* The machine does not stop while a process can run or a signal is        *)
(* pending.  This is less than fairness to every process, and enough as    *)
(* long as finitely many commands are typed; clients need not connect nor  *)
(* type, and a command in the background need not end.                     *)
(***************************************************************************)
Fairness == WF_vars(System)

FairSpec == Spec /\ Fairness

----------------------------------------------------------------------------
Bodies == {"client_init", "close_unused_fd", "close_other", "set_pid", "bcast",
           "tell", "pass_message", "peek", "name_exists", "set_name", "out_exists",
           "set_sender", "kill_usr2", "signal", "in_exists", "take_fd", "read_fds",
           "mark_clear", "reset_sent", "user_exit_clear", "clear_slot"}

(* The sections p is in: bodies whose wait lies behind. *)
Inside(p) ==
    {k \in DOMAIN code[p] :
        /\ code[p][k].do \in Bodies
        /\ k = 1 \/ code[p][k-1].do \notin {"wait", "flip"}}

(* The sum of f over the processes. *)
Sum(f) ==
    LET s[p \in Procs] == f[p] + IF p = Master THEN 0 ELSE s[p-1]
    IN  s[MaxConn]

(***************************************************************************)
(* No two processes are in a section at once, nor one twice, unless a      *)
(* signal made a wait fail; the semaphore is not lost even then: it can    *)
(* only be 0 while somebody is in a section.                               *)
(***************************************************************************)
Exclusion ==
    /\ ~slipped => sem + Sum([p \in Procs |-> Cardinality(Inside(p))]) = 1
    /\ sem + Sum(adj) >= 1
    /\ sem = 0 => \E p \in Procs : Inside(p) # {}

LoggedIn(c) == \E i \in Slots : all_clients[i].uid /\ all_clients[i].pid = c
Serving(c) == LoggedIn(c) /\ c \in Conns /\ Alive(c)
Gone(c) == me[c] # -1 /\ ~Alive(c)
Leaving(c) == \E k \in DOMAIN code[c] : code[c][k].do = "exit"

(* Everybody waits for a process that is in a section itself, and there    *)
(* waits in a handler, for the semaphore or for a FIFO. *)
Stuck ==
    \E p \in Procs :
        sem = 0 /\ Inside(p) # {} /\ (At(p, "wait") \/ At(p, "open_read"))

(***************************************************************************)
(* A process prints only what was meant for its own client, unless it or   *)
(* the client meant has logged out: a slot changes hands with its message, *)
(* and a late SIGUSR1 prints the new user's message to the old client.     *)
(***************************************************************************)
Addressed ==
    [][\A p \in Conns :
          LET m == all_clients[me[p]].message
          IN  pass_message(p) /\ m \notin {0, p} => ~LoggedIn(p) \/ ~LoggedIn(m)]_vars

(***************************************************************************)
(* A message in the slot of a logged-in user is printed, itself or a later *)
(* one, unless the user leaves or everybody is stuck.                      *)
(***************************************************************************)
MessageSeen ==
    \A c \in Conns :
        (\E i \in Slots : all_clients[i].message = c /\ all_clients[i].pid = c)
            ~> \/ \A i \in Slots : all_clients[i].message # c
               \/ ~LoggedIn(c) \/ Stuck

(***************************************************************************)
(* The master closes the socket of a client that has left, unless a later  *)
(* client got the slot (used_fd is overwritten and the socket stays open   *)
(* for good, if the master had not looked before) or everybody is stuck.   *)
(***************************************************************************)
SocketClosed ==
    \A c \in Conns :
        (Gone(c) /\ c \in fds[Master] /\ \A i \in Slots : all_clients[i].fd # c)
            ~> \/ c \notin fds[Master]
               \/ \E d \in Conns : d > c /\ me[d] = me[c]
               \/ Stuck

(***************************************************************************)
(* Without user pipes a server process that is gone has given its slot     *)
(* back, unless a later client was accepted while it was logging in: it    *)
(* then finds a socket in the table that it does not hold, and exits.      *)
(***************************************************************************)
OrphanWasOvertaken ==
    \A c \in Conns :
        Gone(c) /\ (\E i \in Slots : all_clients[i].uid /\ all_clients[i].fd = c)
            => sock[Master] > c

(* Two users share a nickname only if the second checked before the first  *)
(* had taken it. *)
NameClash ==
    [][\A p \in Conns : Rename(p) =>
          \A i \in Slots : all_clients[i].nickname = Now(p).name
                                => Now(p).checked[i] # Now(p).name]_vars

(***************************************************************************)
(* When nothing moves any more, a server that still waits for the reader   *)
(* of its FIFO pipes to itself or to a user who has left, or everybody is  *)
(* stuck, or another pipe was set up meanwhile: to the same user, it       *)
(* overwrote sender_id; from the receiver back to the sender, each may be  *)
(* in its handler, waiting for the open which that handler interrupted in  *)
(* the other.                                                              *)
(***************************************************************************)
SenderReleased ==
    \A p \in Conns \ crossed :
        At(p, "open_write") /\ Now(p).to # me[p] /\ ~ENABLED System
            => ~Serving(Now(p).pid) \/ Stuck

Has(p, op, i) == \E k \in DOMAIN code[p] : code[p][k].do = op /\ code[p][k].to = i

Left(c) == Gone(c) \/ Leaving(c)

(***************************************************************************)
(* "<n" on a FIFO that exists finds no descriptor (and its server exits)   *)
(* only while the pipe is being opened, or when its sender or an earlier   *)
(* user of the slot has logged out or does, or when an earlier "<n" was    *)
(* dropped by a failing redirection.                                       *)
(***************************************************************************)
TakesNothing ==
    [][\A q \in Conns :
          TakeFd(q) /\ all_clients[me[q]].sent_fd[Now(q).to] = -1 =>
             \/ \E p \in Conns : me[p] = Now(q).to /\ Has(p, "open_write", me[q])
             \/ \E r \in Procs : /\ me[r] = me[q]
                                 /\ \E k \in DOMAIN code[r] : /\ code[r][k].do = "set_sent"
                                                              /\ code[r][k].from = Now(q).to
             \/ \E c \in Conns : me[c] \in {Now(q).to, me[q]} /\ Left(c)
             \/ "badfile" \in Menu]_vars

(***************************************************************************)
(* A FIFO a server has opened is in its table or in use by the command     *)
(* being run, unless a user has left or a redirection failed.  One that    *)
(* the master opened, on a SIGUSR2 sent to pid -1, is in no table but      *)
(* in every server forked later.                                           *)
(***************************************************************************)
FifosAccounted ==
    \A q \in {c \in Conns : LoggedIn(c)} : \A x \in ffds[q] \ ffds[Master] :
        \/ \E i \in Slots : all_clients[me[q]].sent_fd[i] = x
        \/ \E k \in DOMAIN code[q] : code[q][k].do \in {"close_in", "set_sent"} /\ code[q][k].fd = x
        \/ \E c \in Conns : Left(c)
        \/ "badfile" \in Menu
=============================================================================
