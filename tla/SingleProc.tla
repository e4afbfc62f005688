----------------------------- MODULE SingleProc -----------------------------
(***************************************************************************)
(* np_project2/np_single_proc.cpp: one process serves every client from a  *)
(* select loop, executes their command lines with run_npshell, and keeps   *)
(* the users, their numbered pipes, their environments and the pipes       *)
(* between users in all_clients.                                           *)
(*                                                                         *)
(* The server is single-threaded: between two steps of its loop only its   *)
(* clients act.  run_npshell is cut into one step per command, and a       *)
(* command into its "<N" part and the rest; nothing else runs in between.  *)
(* Descriptors are numbers the kernel hands out lowest first, so that a    *)
(* number kept after its close may come to mean something else: fdt says   *)
(* what each number refers to.  The children a command forks are those of  *)
(* NpShell and are left out here: the server only keeps its own ends.      *)
(*                                                                         *)
(* A write to a socket whose peer has gone may raise SIGPIPE, which the    *)
(* server does not handle ("killed").  A failing close_fd or pipe() ends   *)
(* the server with exit(1) ("exited").  A user number beyond MAX_CLIENTS   *)
(* indexes all_clients out of bounds; what follows is not defined          *)
(* ("undefined").                                                          *)
(***************************************************************************)
EXTENDS NumberedPipes, FiniteSets

CONSTANTS
    MAX_CLIENTS,
    FdMax,       \* the highest descriptor; 0 to 3 are the standard ones
                 \* and the listening socket
    Lines,       \* the command lines clients may send, "exit" excepted
    Names,       \* nicknames
    EnvVars,     \* environment variables, "PATH" among them
    EnvValues,   \* their values, "bin:." among them
    MaxOverdue   \* bound: how far below zero a pipe counter may go

Users == 1..MAX_CLIENTS
Fds == 4..FdMax

Programs == {"run", "setenv", "query", "tell", "name", "yell"}

(***************************************************************************)
(* One Command object.  "query" is printenv, who, or a built-in with a     *)
(* usage error.  in and out are the numbers of "<N" and ">N" (0: none), op *)
(* and num the operator that follows; to, name, var and val are arguments. *)
(***************************************************************************)
Commands ==
    [prog : Programs, in : Nat, op : {"none", "|", "!", ">"}, num : Nat,
     out : Nat, to : Nat, name : Names \cup {""}, var : EnvVars, val : EnvValues]

ASSUME SingleProcAssumption ==
    /\ MAX_CLIENTS \in Nat \ {0}
    /\ FdMax \in Nat
    /\ Lines \subseteq Seq(Commands)
    /\ \A l \in Lines : \A i \in DOMAIN l : l[i].prog = "name" => l[i].name # ""
    /\ "PATH" \in EnvVars /\ "bin:." \in EnvValues
    /\ {"", "(no name)"} \cap Names = {}
    /\ "unset" \notin EnvValues
    /\ MaxOverdue \in Nat

VARIABLES
    status,      \* of the server: "up", "exited", "killed", "interrupted",
                 \* "undefined"
    slots,       \* all_clients
    afds,        \* the descriptors select watches
    fd_uid_map,
    fdt,         \* what each descriptor of the server refers to
    penv,        \* the environment of the server process
    cur          \* the command line being executed

vars == <<status, slots, afds, fd_uid_map, fdt, penv, cur>>

(***************************************************************************)
(* What a descriptor refers to: a client's socket ("sock", uid), "dead"    *)
(* once its peer has closed, the read end of the pipe from user a to user  *)
(* b ("ur", a, b) or, for a moment, its write end ("uw"), an end of a      *)
(* numbered pipe of a ("nr", "nw"), a redirection file or /dev/null.       *)
(***************************************************************************)
Obj(kind, a, b) == [kind |-> kind, a |-> a, b |-> b]
Closed == Obj("closed", 0, 0)

(* open, pipe and accept return the lowest descriptor that is free. *)
LowestFree(t) ==
    {f \in Fds : t[f] = Closed /\ \A g \in Fds : t[g] = Closed => f <= g}

(* The two descriptors pipe() returns, none when it fails. *)
PipeFds(t) ==
    {p \in Fds \X Fds :
        /\ p[1] \in LowestFree(t)
        /\ p[2] \in LowestFree([t EXCEPT ![p[1]] = Obj("null", 0, 0)])}

CloseAll(t, S) == [f \in Fds |-> IF f \in S THEN Closed ELSE t[f]]

EmptyEnv == [v \in EnvVars |-> "unset"]

NoFds == [u \in Users |-> -1]

(* What client_logout and set_up_all_clients leave in a slot. *)
FreeSlot ==
    [uid |-> -1, fd |-> -1, nickname |-> "", sent_fd |-> NoFds, send_fd |-> NoFds,
     npipes |-> <<>>, env |-> EmptyEnv]

(* readfd is the descriptor of "<N", 0 when the command has none. *)
Idle == [pc |-> "idle", fd |-> 0, uid |-> 0, line |-> <<>>, readfd |-> 0]

(***************************** all_clients ********************************)

usr_exists(u) == slots[u].uid > 0

user_pipe_exists(u, other, mode) ==
    IF mode = "SEND" THEN slots[u].send_fd[other] > 0
                     ELSE slots[u].sent_fd[other] > 0

name_exists(name) == \E i \in Users : slots[i].nickname = name

(* The descriptors broadcast writes to. *)
BroadcastFds == {slots[i].fd : i \in {j \in Users : slots[j].uid # -1}}

(* Writing to the descriptors F may raise SIGPIPE. *)
Writes(F) ==
    \/ status' = "up"
    \/ (\E f \in F \cap Fds : fdt[f].kind = "dead") /\ status' = "killed"

(********************************* Init ***********************************)

(* set_up_all_clients, after socket, bind and listen have succeeded. *)
Init ==
    /\ status = "up"
    /\ slots = [u \in Users |-> FreeSlot]
    /\ afds = {}
    /\ fd_uid_map = [f \in Fds |-> 0]
    /\ fdt = [f \in Fds |-> Closed]
    /\ penv = EmptyEnv
    /\ cur = Idle

(**************************** The select loop *****************************)

(* The first free slot, MAX_CLIENTS + 1 when client_init finds none. *)
FirstFree ==
    {u \in 1..MAX_CLIENTS+1 :
        /\ u \in Users => slots[u].uid = -1
        /\ \A v \in Users : v < u => slots[v].uid # -1}

client_init(u, f) ==
    slots' = IF u \notin Users THEN slots
             ELSE [slots EXCEPT ![u] =
                     [@ EXCEPT !.uid = u, !.nickname = "(no name)", !.fd = f,
                               !.sent_fd = NoFds, !.send_fd = NoFds,
                               !.env["PATH"] = "bin:.", !.npipes = <<>>]]

(* select returns: it fails for ever once a watched number is closed. *)
Selects == status = "up" /\ cur = Idle /\ \A f \in afds : fdt[f] # Closed

(* accept, client_init, the welcome, client_login's broadcast, the prompt. *)
Accept ==
    /\ Selects
    /\ \E f \in LowestFree(fdt), u \in FirstFree :
          /\ fdt' = [fdt EXCEPT ![f] = Obj("sock", u, 0)]
          /\ afds' = afds \cup {f}
          /\ client_init(u, f)
          /\ fd_uid_map' = [fd_uid_map EXCEPT ![f] = u]
    /\ Writes(BroadcastFds)
    /\ UNCHANGED <<penv, cur>>

(* A client closes its end; what it sent before can still be read. *)
PeerCloses(f) ==
    /\ status = "up"
    /\ fdt[f].kind = "sock"
    /\ fdt' = [fdt EXCEPT ![f].kind = "dead"]
    /\ UNCHANGED <<status, slots, afds, fd_uid_map, penv, cur>>

(* A slip: FD_CLR is forgotten. *)
Mut_EndOfInput(f) ==
    /\ Selects
    /\ f \in afds /\ fdt[f].kind = "dead"
    /\ fdt' = CloseAll(fdt, {f})
    /\ UNCHANGED <<status, slots, afds, fd_uid_map, penv, cur>>

(* read returns nothing: the socket is closed, the user is not logged out. *)
EndOfInput(f) ==
    /\ Selects
    /\ f \in afds /\ fdt[f].kind = "dead"
    /\ fdt' = CloseAll(fdt, {f})
    /\ afds' = afds \ {f}
    /\ UNCHANGED <<status, slots, fd_uid_map, penv, cur>>

(***************************************************************************)
(* user_pipe_clear: for every user i in turn, close_fd of the pipe from i  *)
(* to u and of the pipe from u to i, each found by its own array.  Both    *)
(* entries of u are read before anything is closed and sent_fd of u is     *)
(* left as it is, so a pipe from u to itself is closed twice.              *)
(***************************************************************************)
ToClose(u) ==
    {<<"receiver", i, slots[u].sent_fd[i]>> :
            i \in {j \in Users : slots[u].sent_fd[j] > 0}}
        \cup {<<"sender", i, slots[i].sent_fd[u]>> :
            i \in {j \in Users : slots[u].send_fd[j] > 0}}

(* close_fd on every member of S: one of them is not open when its turn comes. *)
CloseFails(S) ==
    \/ \E x \in S : x[3] \notin Fds \/ fdt[x[3]] = Closed
    \/ \E x, y \in S : x # y /\ x[3] = y[3]

(* Slips: the other users keep one of the two records; only one branch runs. *)
Mut_user_pipe_clear(u) ==
    [i \in Users |->
        [slots[i] EXCEPT
            !.sent_fd[u] = IF slots[u].send_fd[i] > 0 THEN -1 ELSE @]]

Mut_user_pipe_clear_receiver(u) ==
    [i \in Users |->
        [slots[i] EXCEPT
            !.send_fd[u] = IF slots[u].sent_fd[i] > 0 THEN -1 ELSE @]]

user_pipe_clear(u) ==
    [i \in Users |->
        [slots[i] EXCEPT
            !.send_fd[u] = IF slots[u].sent_fd[i] > 0 THEN -1 ELSE @,
            !.sent_fd[u] = IF slots[u].send_fd[i] > 0 THEN -1 ELSE @]]

(* "exit": client_logout (a broadcast, user_pipe_clear), close, FD_CLR. *)
Logout(f) ==
    /\ Selects
    /\ f \in afds /\ fd_uid_map[f] \in Users
    /\ LET u == fd_uid_map[f]
           S == ToClose(u)
       IN /\ IF CloseFails(S) THEN status' = "exited" ELSE Writes(BroadcastFds)
          /\ slots' = [user_pipe_clear(u) EXCEPT ![u] = FreeSlot]
          /\ fd_uid_map' = [g \in Fds |->
                IF g = slots[u].fd THEN -1 ELSE fd_uid_map[g]]
          /\ fdt' = CloseAll(fdt, {x[3] : x \in S} \cup {f})
    /\ afds' = afds \ {f}
    /\ UNCHANGED <<penv, cur>>

(* A slip: without clearenv, the last user's variables stay. *)
Mut_ReadLine(f) ==
    /\ Selects
    /\ f \in afds /\ fd_uid_map[f] \in Users
    /\ \E l \in Lines :
          cur' = [pc |-> "cmd", fd |-> f, uid |-> fd_uid_map[f], line |-> l,
                  readfd |-> 0]
    /\ penv' = [v \in EnvVars |->
          IF slots[fd_uid_map[f]].env[v] = "unset" THEN penv[v]
          ELSE slots[fd_uid_map[f]].env[v]]
    /\ UNCHANGED <<status, slots, afds, fd_uid_map, fdt>>

(* Any other line: clearenv, set_env, run_npshell. *)
ReadLine(f) ==
    /\ Selects
    /\ f \in afds /\ fd_uid_map[f] \in Users
    /\ \E l \in Lines :
          /\ \A i \in DOMAIN slots[fd_uid_map[f]].npipes :
                slots[fd_uid_map[f]].npipes[i].counter - Len(l) >= -MaxOverdue
          /\ cur' = [pc |-> "cmd", fd |-> f, uid |-> fd_uid_map[f], line |-> l,
                     readfd |-> 0]
    /\ penv' = slots[fd_uid_map[f]].env
    /\ UNCHANGED <<status, slots, afds, fd_uid_map, fdt>>

(* A client without a slot sends anything at all. *)
LineWithoutSlot(f) ==
    /\ Selects
    /\ f \in afds /\ fd_uid_map[f] \notin Users
    /\ status' = "undefined"
    /\ UNCHANGED <<slots, afds, fd_uid_map, fdt, penv, cur>>

(****************************** run_npshell *******************************)

Cmd == Head(cur.line)
Me == cur.uid
Table == slots[Me].npipes
Updated == pipes_update(Table)

(* The command at hand starts. *)
AtCommand ==
    /\ status = "up" /\ cur.pc = "cmd" /\ cur.line # <<>>

NextCommand == cur' = [cur EXCEPT !.pc = "cmd", !.line = Tail(@), !.readfd = 0]

(* setenv: the process environment and the user's map change together. *)
CmdSetenv ==
    /\ AtCommand /\ Cmd.prog = "setenv"
    /\ penv' = [penv EXCEPT ![Cmd.var] = Cmd.val]
    /\ slots' = [slots EXCEPT ![Me].npipes = Updated,
                              ![Me].env[Cmd.var] = Cmd.val]
    /\ NextCommand
    /\ UNCHANGED <<status, afds, fd_uid_map, fdt>>

CmdQuery ==
    /\ AtCommand /\ Cmd.prog = "query"
    /\ slots' = [slots EXCEPT ![Me].npipes = Updated]
    /\ Writes({cur.fd})
    /\ NextCommand
    /\ UNCHANGED <<afds, fd_uid_map, fdt, penv>>

(* The ends erase_pipe closes, errors ignored, and the table it leaves. *)
DueEnds(tbl) ==
    LET r == pipe_for_reading(tbl)
    IN IF r = 0 THEN {} ELSE {tbl[r].readfd, tbl[r].writefd}

Erased(tbl) == erase_pipe(tbl, pipe_for_reading(tbl))

(* tell and yell erase a pipe that is due and drop the rest of the line. *)
Say(F) ==
    /\ Writes(F)
    /\ slots' = [slots EXCEPT ![Me].npipes = Erased(Updated)]
    /\ fdt' = CloseAll(fdt, DueEnds(Updated))
    /\ cur' = [cur EXCEPT !.line = <<>>]
    /\ UNCHANGED <<afds, fd_uid_map, penv>>

CmdTell ==
    /\ AtCommand /\ Cmd.prog = "tell" /\ Cmd.to \in Users
    /\ Say({slots[IF usr_exists(Cmd.to) THEN Cmd.to ELSE Me].fd})

CmdYell ==
    /\ AtCommand /\ Cmd.prog = "yell"
    /\ Say(BroadcastFds)

(* rename: every slot's nickname is compared, a free slot's is "". *)
CmdName ==
    /\ AtCommand /\ Cmd.prog = "name"
    /\ IF name_exists(Cmd.name)
       THEN /\ slots' = [slots EXCEPT ![Me].npipes = Updated]
            /\ Writes({slots[Me].fd})
       ELSE /\ slots' = [slots EXCEPT ![Me].npipes = Updated,
                                      ![Me].nickname = Cmd.name]
            /\ Writes(BroadcastFds)
    /\ NextCommand
    /\ UNCHANGED <<afds, fd_uid_map, fdt, penv>>

(* A user number that is no index of all_clients. *)
OutOfBounds ==
    /\ AtCommand
    /\ \/ Cmd.prog = "tell" /\ Cmd.to \notin Users
       \/ Cmd.prog = "run" /\ Cmd.in # 0 /\ Cmd.in \notin Users
       \/ /\ Cmd.prog = "run" /\ Cmd.op = "none"
          /\ Cmd.out # 0 /\ Cmd.out \notin Users
    /\ status' = "undefined"
    /\ UNCHANGED <<slots, afds, fd_uid_map, fdt, penv, cur>>

InBounds ==
    /\ Cmd.in \in Users \cup {0}
    /\ Cmd.op = "none" => Cmd.out \in Users \cup {0}

ToOutput(readfd) == cur' = [cur EXCEPT !.pc = "out", !.readfd = readfd]

NoUserPipeIn ==
    /\ AtCommand /\ Cmd.prog = "run" /\ InBounds
    /\ Cmd.in = 0
    /\ slots' = [slots EXCEPT ![Me].npipes = Updated]
    /\ ToOutput(0)
    /\ UNCHANGED <<status, afds, fd_uid_map, fdt, penv>>

(***************************************************************************)
(* Slips in "<N": the receiver's record stays; the sender's record stays.  *)
(***************************************************************************)
Receiving(sent, send(_)) ==
    /\ AtCommand /\ Cmd.prog = "run" /\ InBounds
    /\ Cmd.in # 0 /\ usr_exists(Cmd.in) /\ user_pipe_exists(Me, Cmd.in, "RECEIVE")
    /\ ToOutput(slots[Me].sent_fd[Cmd.in])
    /\ slots' = [u \in Users |->
          [slots[u] EXCEPT
              !.npipes = IF u = Me THEN Updated ELSE @,
              !.sent_fd[Cmd.in] = IF u = Me THEN sent ELSE @,
              !.send_fd = IF u = Cmd.in THEN send(@) ELSE @]]
    /\ Writes(BroadcastFds)
    /\ UNCHANGED <<afds, fd_uid_map, fdt, penv>>

Mut_UserPipeIn_sent ==
    LET Send(row) == [row EXCEPT ![Me] = -1]
    IN Receiving(slots[Me].sent_fd[Cmd.in], Send)

(* "<N": the pipe from N leaves both arrays before anything else is tried. *)
UserPipeIn ==
    /\ AtCommand /\ Cmd.prog = "run" /\ InBounds
    /\ Cmd.in # 0 /\ usr_exists(Cmd.in) /\ user_pipe_exists(Me, Cmd.in, "RECEIVE")
    /\ ToOutput(slots[Me].sent_fd[Cmd.in])
    /\ slots' = [u \in Users |->
          [slots[u] EXCEPT
              !.npipes = IF u = Me THEN Updated ELSE @,
              !.sent_fd[Cmd.in] = IF u = Me THEN -1 ELSE @,
              !.send_fd[Me] = IF u = Cmd.in THEN -1 ELSE @]]
    /\ Writes(BroadcastFds)
    /\ UNCHANGED <<afds, fd_uid_map, fdt, penv>>

(***************************************************************************)
(* "<N" when there is no such user or pipe: the command reads /dev/null.   *)
(* That open() finds a free descriptor is assumed.                         *)
(***************************************************************************)
UserPipeInError ==
    /\ AtCommand /\ Cmd.prog = "run" /\ InBounds
    /\ Cmd.in # 0
    /\ ~(usr_exists(Cmd.in) /\ user_pipe_exists(Me, Cmd.in, "RECEIVE"))
    /\ \E f \in LowestFree(fdt) :
          /\ fdt' = [fdt EXCEPT ![f] = Obj("null", 0, 0)]
          /\ ToOutput(f)
    /\ slots' = [slots EXCEPT ![Me].npipes = Updated]
    /\ Writes({cur.fd})
    /\ UNCHANGED <<afds, fd_uid_map, penv>>

(***************************************************************************)
(* After the fork: erase_pipe on the table tbl, close_fd of the "<N" pipe, *)
(* close_fd of writefd if the command has a ">N", whatever writefd is.     *)
(* F are the descriptors written to before the fork, t is fdt at the fork. *)
(***************************************************************************)
Mut_AfterFork(tbl, t, writefd, F) ==
    LET t1 == CloseAll(t, DueEnds(tbl))
        fails == Cmd.out # 0 /\ t1[writefd] = Closed
    IN /\ IF fails THEN status' = "exited" ELSE Writes(F)
       /\ fdt' = IF Cmd.out = 0 THEN t1 ELSE CloseAll(t1, {writefd})
       /\ NextCommand
       /\ UNCHANGED <<afds, fd_uid_map, penv>>

AfterFork(tbl, t, writefd, F) ==
    LET t1 == CloseAll(t, DueEnds(tbl))
        t2 == IF Cmd.in = 0 THEN t1 ELSE CloseAll(t1, {cur.readfd})
        fails == \/ Cmd.in # 0 /\ t1[cur.readfd] = Closed
                 \/ Cmd.out # 0 /\ t2[writefd] = Closed
    IN /\ IF fails THEN status' = "exited" ELSE Writes(F)
       /\ fdt' = IF Cmd.out = 0 THEN t2 ELSE CloseAll(t2, {writefd})
       /\ NextCommand
       /\ UNCHANGED <<afds, fd_uid_map, penv>>

AtOutput == status = "up" /\ cur.pc = "out"

pipeN == IF Cmd.num > 0 THEN Cmd.num ELSE 1

ToOldPipe ==
    /\ AtOutput /\ Cmd.op \in {"|", "!"}
    /\ LET w == pipe_for_writing(Table, pipeN)
       IN /\ w # 0
          /\ AfterFork(Table, fdt, Table[w].writefd, {})
    /\ slots' = [slots EXCEPT ![Me].npipes = Erased(Table)]

ToNewPipe ==
    /\ AtOutput /\ Cmd.op \in {"|", "!"}
    /\ pipe_for_writing(Table, pipeN) = 0
    /\ \E p \in PipeFds(fdt) :
          LET tbl == Append(Table, [readfd |-> p[1], writefd |-> p[2],
                                    counter |-> pipeN])
          IN /\ AfterFork(tbl, [fdt EXCEPT ![p[1]] = Obj("nr", Me, 0),
                                           ![p[2]] = Obj("nw", Me, 0)], p[2], {})
             /\ slots' = [slots EXCEPT ![Me].npipes = Erased(tbl)]

(* > file, which the server only closes if there is a ">N" as well. *)
ToFile ==
    /\ AtOutput /\ Cmd.op = ">"
    /\ \E f \in LowestFree(fdt) :
          AfterFork(Table, [fdt EXCEPT ![f] = Obj("file", 0, 0)], f, {})
    /\ slots' = [slots EXCEPT ![Me].npipes = Erased(Table)]

(* open fails: no fork, no erase_pipe, and the "<N" pipe stays open. *)
OpenFails ==
    /\ AtOutput /\ Cmd.op = ">"
    /\ NextCommand
    /\ UNCHANGED <<status, slots, afds, fd_uid_map, fdt, penv>>

(***************************************************************************)
(* Slips in ">N": the arrays are written before pipe() has filled in its   *)
(* result; the sender's record goes to the receiver's slot.                *)
(***************************************************************************)
Sending(Slot(_, _)) ==
    /\ AtOutput /\ Cmd.op = "none" /\ Cmd.out # 0
    /\ usr_exists(Cmd.out) /\ ~user_pipe_exists(Me, Cmd.out, "SEND")
    /\ \E p \in PipeFds(fdt) :
          /\ AfterFork(Table, [fdt EXCEPT ![p[1]] = Obj("ur", Me, Cmd.out),
                                          ![p[2]] = Obj("uw", Me, Cmd.out)],
                       p[2], BroadcastFds)
          /\ slots' = [u \in Users |-> Slot(p, u)]

Mut_UserPipeOut_swapped ==
    LET Slot(p, u) ==
            [slots[u] EXCEPT
                !.sent_fd[Me] = IF u = Cmd.out THEN p[1] ELSE @,
                !.send_fd[Cmd.out] = IF u = Cmd.out THEN p[2] ELSE @]
    IN Sending(Slot)

(* ">N" with a new pipe to user N. *)
UserPipeOut ==
    /\ AtOutput /\ Cmd.op = "none" /\ Cmd.out # 0
    /\ usr_exists(Cmd.out) /\ ~user_pipe_exists(Me, Cmd.out, "SEND")
    /\ \E p \in PipeFds(fdt) :
          /\ AfterFork(Table, [fdt EXCEPT ![p[1]] = Obj("ur", Me, Cmd.out),
                                          ![p[2]] = Obj("uw", Me, Cmd.out)],
                       p[2], BroadcastFds)
          /\ slots' = [u \in Users |->
                [slots[u] EXCEPT
                    !.npipes = IF u = Me THEN Erased(Table) ELSE @,
                    !.sent_fd[Me] = IF u = Cmd.out THEN p[1] ELSE @,
                    !.send_fd[Cmd.out] = IF u = Me THEN p[2] ELSE @]]

(* ">N" with no such user, or a pipe already there: erase_pipe, no fork. *)
UserPipeOutError ==
    /\ AtOutput /\ Cmd.op = "none" /\ Cmd.out # 0
    /\ ~usr_exists(Cmd.out) \/ user_pipe_exists(Me, Cmd.out, "SEND")
    /\ Writes({cur.fd})
    /\ slots' = [slots EXCEPT ![Me].npipes = Erased(Table)]
    /\ fdt' = CloseAll(fdt, DueEnds(Table))
    /\ NextCommand
    /\ UNCHANGED <<afds, fd_uid_map, penv>>

(* pipe() fails. *)
PipeFails ==
    /\ AtOutput
    /\ \/ Cmd.op \in {"|", "!"} /\ pipe_for_writing(Table, pipeN) = 0
       \/ /\ Cmd.op = "none" /\ Cmd.out # 0
          /\ usr_exists(Cmd.out) /\ ~user_pipe_exists(Me, Cmd.out, "SEND")
    /\ PipeFds(fdt) = {}
    /\ status' = "exited"
    /\ UNCHANGED <<slots, afds, fd_uid_map, fdt, penv, cur>>

ToClient ==
    /\ AtOutput /\ Cmd.op = "none" /\ Cmd.out = 0
    /\ AfterFork(Table, fdt, 1, {})
    /\ slots' = [slots EXCEPT ![Me].npipes = Erased(Table)]

(* The children of the line have been waited for; the prompt is written. *)
EndOfLine ==
    /\ status = "up" /\ cur.pc = "cmd" /\ cur.line = <<>>
    /\ cur' = Idle
    /\ Writes({cur.fd})
    /\ UNCHANGED <<slots, afds, fd_uid_map, fdt, penv>>

(***************************************************************************)
(* clear_all_remain_user_pipes, the SIGINT handler: every pipe between     *)
(* users is closed and the server dies of the signal.                      *)
(***************************************************************************)
Interrupt ==
    /\ status = "up"
    /\ LET S == {<<p[1], p[2], slots[p[1]].sent_fd[p[2]]>> :
                    p \in {q \in Users \X Users : slots[q[1]].sent_fd[q[2]] > 0}}
       IN /\ status' = IF CloseFails(S) THEN "exited" ELSE "interrupted"
          /\ fdt' = CloseAll(fdt, {x[3] : x \in S})
    /\ slots' = [u \in Users |-> [slots[u] EXCEPT !.sent_fd = NoFds]]
    /\ UNCHANGED <<afds, fd_uid_map, penv, cur>>

(***************************************************************************)

RunStep ==
    \/ CmdSetenv \/ CmdQuery \/ CmdTell \/ CmdYell \/ CmdName \/ OutOfBounds
    \/ NoUserPipeIn \/ UserPipeIn \/ UserPipeInError
    \/ ToOldPipe \/ ToNewPipe \/ ToFile \/ OpenFails
    \/ UserPipeOut \/ UserPipeOutError \/ PipeFails \/ ToClient
    \/ EndOfLine

Next ==
    \/ Accept
    \/ \E f \in Fds :
          PeerCloses(f) \/ EndOfInput(f) \/ Logout(f) \/ ReadLine(f) \/ LineWithoutSlot(f)
    \/ RunStep
    \/ Interrupt

Spec == Init /\ [][Next]_vars

(******************************* Properties *******************************)

(***************************************************************************)
(* The two arrays that record a pipe between users agree: the sender has   *)
(* it in send_fd exactly when the receiver has it in sent_fd, whoever has  *)
(* received, logged out, vanished or logged in again in the meantime.      *)
(***************************************************************************)
UserPipeSymmetric ==
    status = "up" =>
        \A s, r \in Users :
            slots[s].send_fd[r] > 0 <=> slots[r].sent_fd[s] > 0

(***************************************************************************)
(* The server's user pipes implement UserPipes: none is lost, replaced or  *)
(* left behind by a logout, by a slot taken again, or by an error on the   *)
(* way.                                                                    *)
(***************************************************************************)
Abstract == INSTANCE UserPipes WITH
    present <- {u \in Users : slots[u].uid # -1},
    piped <- {p \in Users \X Users : slots[p[2]].sent_fd[p[1]] > 0}

ImplementsUserPipes == Abstract!Spec

(***************************************************************************)
(* A slot nobody is logged into keeps nothing of its last user: no name,   *)
(* environment or numbered pipe, and no other user's pipe to or from it.   *)
(***************************************************************************)
FreeSlotIsClean ==
    status = "up" =>
        \A u \in Users : slots[u].uid = -1 =>
            /\ slots[u] = FreeSlot
            /\ \A v \in Users :
                  slots[v].sent_fd[u] = -1 /\ slots[v].send_fd[u] = -1

(***************************************************************************)
(* A line is executed for the user who typed it, and what is written to a  *)
(* connected user reaches that user: every watched socket is mapped to the *)
(* slot of its own login and that slot names the socket, although numbers  *)
(* are reused and vanished users keep their slot and an old number.        *)
(***************************************************************************)
SocketOfUser ==
    status = "up" =>
        \A f \in Fds :
            /\ f \in afds <=> fdt[f].kind \in {"sock", "dead"}
            /\ f \in afds =>
                  /\ fd_uid_map[f] = fdt[f].a
                  /\ fd_uid_map[f] \in Users =>
                        /\ slots[fd_uid_map[f]].uid = fd_uid_map[f]
                        /\ slots[fd_uid_map[f]].fd = f

(***************************************************************************)
(* The descriptors in the tables mean what they are used for: no number    *)
(* kept in sent_fd or in npipes has been closed or has become something    *)
(* else, and no two numbered pipes share a descriptor.                     *)
(***************************************************************************)
TablesOwnDescriptors ==
    status = "up" =>
        /\ \A s, r \in Users : slots[r].sent_fd[s] > 0 =>
              fdt[slots[r].sent_fd[s]] = Obj("ur", s, r)
        /\ \A u \in Users : \A i \in DOMAIN slots[u].npipes :
              LET e == slots[u].npipes[i]
              IN /\ fdt[e.readfd] = Obj("nr", u, 0)
                 /\ fdt[e.writefd] = Obj("nw", u, 0)
                 /\ \A j \in DOMAIN slots[u].npipes :
                       \/ j = i
                       \/ /\ slots[u].npipes[j].readfd # e.readfd
                          /\ slots[u].npipes[j].writefd # e.writefd

(* Every open descriptor is watched by select or is in a table. *)
NoLeakedDescriptor ==
    status = "up" /\ cur.pc # "out" =>
        \A f \in Fds : fdt[f] # Closed =>
            \/ f \in afds
            \/ \E u, v \in Users : slots[u].sent_fd[v] = f
            \/ \E u \in Users : \E i \in DOMAIN slots[u].npipes :
                  f \in {slots[u].npipes[i].readfd, slots[u].npipes[i].writefd}

(***************************************************************************)
(* close_fd, whose failure ends the server for everybody, fails in one     *)
(* case only: a user leaves with a pipe to itself pending.  Otherwise the  *)
(* server exits only when it runs out of descriptors.                      *)
(***************************************************************************)
ExitCauses ==
    [][status = "up" /\ status' = "exited" =>
          \/ \E u \in Users : slots[u].sent_fd[u] > 0 /\ slots'[u].uid = -1
          \/ PipeFds(fdt) = {}]_vars

(***************************************************************************)
(* Executing a user's line changes nothing of the other users but the      *)
(* pipes between them and that user.                                       *)
(***************************************************************************)
OthersUntouched ==
    [][cur.pc # "idle" /\ status' = "up" =>
          \A v \in Users \ {cur.uid} :
              /\ [slots'[v] EXCEPT !.sent_fd = NoFds, !.send_fd = NoFds]
                    = [slots[v] EXCEPT !.sent_fd = NoFds, !.send_fd = NoFds]
              /\ \A w \in Users \ {cur.uid} :
                    /\ slots'[v].sent_fd[w] = slots[v].sent_fd[w]
                    /\ slots'[v].send_fd[w] = slots[v].send_fd[w]]_vars

(***************************************************************************)
(* The process environment while a line is executed is that of its user,   *)
(* whatever other users have set in between, and with it what printenv     *)
(* shows and what the children inherit.                                    *)
(***************************************************************************)
EnvFollowsUser == cur.pc # "idle" => penv = slots[cur.uid].env
=============================================================================
