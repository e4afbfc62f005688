------------------------------ MODULE NpShell ------------------------------
(***************************************************************************)
(* np_project1: the shell npshell and the processes it forks.              *)
(*                                                                         *)
(* The shell numbers its commands 1, 2, ... as it executes them.  A pipe   *)
(* is identified by the number of the command that created it, so that     *)
(* its two descriptors are "the read end of p" and "the write end of p".   *)
(* The shell holds both ends of every pipe of its table and of no other;   *)
(* a child inherits both ends of every pipe that is in the table when it   *)
(* is forked, and only closes the two ends named in run_npshell.           *)
(*                                                                         *)
(* Data are units: a "source" writes SourceUnits of them, a "filter" copies*)
(* its standard input, a "noop" ignores it, an "unknown" command prints one*)
(* unit of complaint on its standard error.  A pipe holds PipeCapacity     *)
(* units; a write to a full pipe blocks, as does a read from an empty one  *)
(* while some process still holds its write end.                           *)
(***************************************************************************)
EXTENDS NumberedPipes, FiniteSets

CONSTANTS
    Lines,         \* the command lines a user may type
    MaxCommands,   \* bound: commands executed in one behaviour
    PipeCapacity,  \* units a pipe holds
    SourceUnits,   \* units a source writes
    FdLimit        \* descriptors a process may have open

Programs == {"source", "filter", "noop", "unknown"}
Builtins == {"setpath", "clrpath", "printenv", "exit"}
Operators == {"none", "|", "!", ">"}

(* One Command object: its program, the operator after it, its pipeN_count. *)
Commands == [prog : Programs \cup Builtins, op : Operators, num : Nat]

ASSUME NpShellAssumption ==
    /\ Lines \subseteq Seq(Commands)
    /\ MaxCommands \in Nat
    /\ PipeCapacity \in Nat \ {0}
    /\ SourceUnits \in Nat \ {0}
    /\ FdLimit \in Nat

VARIABLES
    sh,        \* where run_npshell is: "prompt", "exec", "wait", "exited"
    line,      \* command_list from position i on
    pipes,     \* the table: entries [id, counter]
    pid_list,  \* the commands of this line still to be waited for
    exit_flag,
    path,      \* whether PATH names the directories of the commands
    files,     \* descriptors of redirection files the shell never closes
    procs,     \* procs[k] is the process of command k
    buf,       \* buf[p] is the number of units in pipe p
    sigchld    \* SIGCHLD is pending in the shell

vars == <<sh, line, pipes, pid_list, exit_flag, path, files, procs, buf, sigchld>>

shellVars == <<sh, line, pipes, pid_list, exit_flag, path, files>>

(* Process states: "none" is a built-in, which has no process. *)
ProcStates == {"none", "forked", "running", "zombie", "reaped"}

(***************************************************************************)
(* in and out are the pipes on standard input and output (0: the terminal, *)
(* or the file of a redirection), errpipe says that standard error is out  *)
(* as well, rd and wr are the pipes whose read and write ends the process  *)
(* holds, left is what it has to write before it does anything else.       *)
(* pipeN is the distance the command line asked for, 0 for none.           *)
(***************************************************************************)
Procs == [prog : Programs \cup Builtins, st : ProcStates, pipeN : Nat,
          in : Nat, out : Nat, errpipe : BOOLEAN, known : BOOLEAN,
          rd : SUBSET Nat, wr : SUBSET Nat, left : Nat]

(*************************** Command and table ****************************)

check_if_pipe(c) == c.op \in {"|", "!"}

check_redirection(c) == c.op = ">"

(* A slip: the distance is counted from the next command on. *)
Mut_pipeN(c) == c.num - 1

(* "|" and "!" without a number, or with 0, count as 1. *)
pipeN(c) == IF c.num > 0 THEN c.num ELSE 1

Entries == [id : Nat, counter : Int]

Ids(tbl) == {tbl[i].id : i \in DOMAIN tbl}

(* The number of the command being executed. *)
Now == Len(procs) + 1

(* The table as this command sees it, and the pipe that is due at it. *)
Updated == pipes_update(pipes)
ReadIndex == pipe_for_reading(Updated)

OpenFds == 3 + 2 * Len(pipes) + files

ShellHolds(p) == sh # "exited" /\ p \in Ids(pipes)

Alive(k) == procs[k].st \in {"forked", "running"}

WriteEndOpen(p) ==
    ShellHolds(p) \/ \E k \in DOMAIN procs : Alive(k) /\ p \in procs[k].wr

ReadEndOpen(p) ==
    ShellHolds(p) \/ \E k \in DOMAIN procs : Alive(k) /\ p \in procs[k].rd

(********************************* Shell **********************************)

Init ==
    /\ sh = "prompt"
    /\ line = <<>>
    /\ pipes = <<>>
    /\ pid_list = <<>>
    /\ exit_flag = FALSE
    /\ path = TRUE
    /\ files = 0
    /\ procs = <<>>
    /\ buf = <<>>
    /\ sigchld = FALSE

(* getline returns a line, which the parser splits into commands. *)
ReadLine ==
    /\ sh = "prompt"
    /\ \E l \in Lines :
          /\ Len(procs) + Len(l) <= MaxCommands
          /\ line' = l
    /\ sh' = "exec"
    /\ UNCHANGED <<pipes, pid_list, exit_flag, path, files, procs, buf, sigchld>>

(* getline meets the end of the input. *)
EndOfInput ==
    /\ sh = "prompt"
    /\ sh' = "exited"
    /\ UNCHANGED <<line, pipes, pid_list, exit_flag, path, files, procs, buf, sigchld>>

(* What every command adds to procs and buf: a slot for it and for its pipe. *)
Record(p) ==
    /\ procs' = Append(procs, p)
    /\ buf' = Append(buf, 0)

NoProcess(prog) ==
    [prog |-> prog, st |-> "none", pipeN |-> 0, in |-> 0, out |-> 0,
     errpipe |-> FALSE, known |-> FALSE, rd |-> {}, wr |-> {}, left |-> 0]

(***************************************************************************)
(* setenv and printenv: the table has been updated, and a pipe that was    *)
(* due at this command is neither read nor erased.                         *)
(***************************************************************************)
ExecBuiltin ==
    /\ sh = "exec" /\ line # <<>>
    /\ Head(line).prog \in {"setpath", "clrpath", "printenv"}
    /\ Record(NoProcess(Head(line).prog))
    /\ path' = CASE Head(line).prog = "setpath" -> TRUE
                 [] Head(line).prog = "clrpath" -> FALSE
                 [] OTHER -> path
    /\ pipes' = Updated
    /\ line' = Tail(line)
    /\ UNCHANGED <<sh, pid_list, exit_flag, files, sigchld>>

(* exit leaves the rest of the line, but not before the wait. *)
ExecExit ==
    /\ sh = "exec" /\ line # <<>>
    /\ Head(line).prog = "exit"
    /\ Record(NoProcess("exit"))
    /\ exit_flag' = TRUE
    /\ pipes' = Updated
    /\ line' = <<>>
    /\ UNCHANGED <<sh, pid_list, path, files, sigchld>>

(***************************************************************************)
(* The process forked for command c when the table is tbl and the pipe on  *)
(* its standard output is out: it inherits both ends of every pipe of tbl, *)
(* and PATH as it is now.                                                  *)
(***************************************************************************)
Forked(c, tbl, out) ==
    [prog |-> c.prog, st |-> "forked",
     pipeN |-> IF check_if_pipe(c) THEN pipeN(c) ELSE 0,
     in |-> IF ReadIndex = 0 THEN 0 ELSE tbl[ReadIndex].id,
     out |-> out, errpipe |-> c.op = "!",
     known |-> path /\ c.prog # "unknown",
     rd |-> Ids(tbl), wr |-> Ids(tbl), left |-> 0]

Mut_Fork_keeps(c, tbl, out) ==
    /\ Record(Forked(c, tbl, out))
    /\ pid_list' = IF check_if_pipe(c) THEN pid_list ELSE Append(pid_list, Now)
    /\ pipes' = tbl
    /\ line' = Tail(line)
    /\ UNCHANGED <<sh, exit_flag, path, sigchld>>

Mut_Fork_closes(c, tbl, out) ==
    /\ Record(Forked(c, tbl, out))
    /\ pid_list' = IF check_if_pipe(c) THEN pid_list ELSE Append(pid_list, Now)
    /\ pipes' = erase_pipe(Updated, ReadIndex)
    /\ line' = Tail(line)
    /\ UNCHANGED <<sh, exit_flag, path, sigchld>>

(* fork, pid_list.push_back unless the output is piped, erase_pipe. *)
Fork(c, tbl, out) ==
    /\ Record(Forked(c, tbl, out))
    /\ pid_list' = IF check_if_pipe(c) THEN pid_list ELSE Append(pid_list, Now)
    /\ pipes' = erase_pipe(tbl, ReadIndex)
    /\ line' = Tail(line)
    /\ UNCHANGED <<sh, exit_flag, path, sigchld>>

(* A command followed by |, |N, ! or !N whose pipe is in the table already. *)
ExecToOldPipe ==
    /\ sh = "exec" /\ line # <<>>
    /\ LET c == Head(line)
           w == pipe_for_writing(Updated, pipeN(c))
       IN /\ c.prog \in Programs /\ check_if_pipe(c)
          /\ w # 0
          /\ Fork(c, Updated, Updated[w].id)
    /\ files' = files

(* The same when a pipe has to be created. *)
ExecToNewPipe ==
    /\ sh = "exec" /\ line # <<>>
    /\ LET c == Head(line)
           new == [id |-> Now, counter |-> pipeN(c)]
       IN /\ c.prog \in Programs /\ check_if_pipe(c)
          /\ pipe_for_writing(Updated, pipeN(c)) = 0
          /\ OpenFds + 2 <= FdLimit
          /\ Fork(c, Append(Updated, new), Now)
    /\ files' = files

(* pipe() fails: the shell exits at once, without waiting for anybody. *)
PipeFails ==
    /\ sh = "exec" /\ line # <<>>
    /\ Head(line).prog \in Programs /\ check_if_pipe(Head(line))
    /\ pipe_for_writing(Updated, pipeN(Head(line))) = 0
    /\ OpenFds + 2 > FdLimit
    /\ Record(NoProcess(Head(line).prog))
    /\ sh' = "exited"
    /\ pipes' = Updated
    /\ UNCHANGED <<line, pid_list, exit_flag, path, files, sigchld>>

(* > file: the shell never closes the descriptor it opens. *)
ExecToFile ==
    /\ sh = "exec" /\ line # <<>>
    /\ Head(line).prog \in Programs /\ check_redirection(Head(line))
    /\ OpenFds + 1 <= FdLimit
    /\ files' = files + 1
    /\ Fork(Head(line), Updated, 0)

(***************************************************************************)
(* open() fails (a directory, no descriptor left): `continue' skips both   *)
(* the fork and erase_pipe.                                                *)
(***************************************************************************)
OpenFails ==
    /\ sh = "exec" /\ line # <<>>
    /\ Head(line).prog \in Programs /\ check_redirection(Head(line))
    /\ Record(NoProcess(Head(line).prog))
    /\ pipes' = Updated
    /\ line' = Tail(line)
    /\ UNCHANGED <<sh, pid_list, exit_flag, path, files, sigchld>>

(* A simple command, on the terminal. *)
ExecSimple ==
    /\ sh = "exec" /\ line # <<>>
    /\ Head(line).prog \in Programs /\ Head(line).op = "none"
    /\ Fork(Head(line), Updated, 0)
    /\ files' = files

EndOfLine ==
    /\ sh = "exec" /\ line = <<>>
    /\ sh' = "wait"
    /\ UNCHANGED <<line, pipes, pid_list, exit_flag, path, files, procs, buf, sigchld>>

Mut_WaitPid ==
    /\ sh = "wait" /\ pid_list # <<>>
    /\ pid_list' = Tail(pid_list)
    /\ UNCHANGED <<sh, line, pipes, exit_flag, path, files, procs, buf, sigchld>>

(***************************************************************************)
(* waitpid(pid_list[0]) returns: it reaps the child, or fails because      *)
(* child_handler has reaped it already; its result is not looked at.       *)
(***************************************************************************)
WaitPid ==
    /\ sh = "wait" /\ pid_list # <<>>
    /\ procs[Head(pid_list)].st \in {"zombie", "reaped"}
    /\ procs' = [procs EXCEPT ![Head(pid_list)] = [@ EXCEPT !.st = "reaped"]]
    /\ pid_list' = Tail(pid_list)
    /\ UNCHANGED <<sh, line, pipes, exit_flag, path, files, buf, sigchld>>

EndOfWait ==
    /\ sh = "wait" /\ pid_list = <<>>
    /\ sh' = IF exit_flag THEN "exited" ELSE "prompt"
    /\ UNCHANGED <<line, pipes, pid_list, exit_flag, path, files, procs, buf, sigchld>>

Mut_child_handler ==
    /\ sh # "exited" /\ sigchld
    /\ LET dead == {k \in DOMAIN procs : procs[k].st = "zombie"}
       IN procs' = [k \in DOMAIN procs |->
             IF k \in dead /\ k = Max(dead) THEN [procs[k] EXCEPT !.st = "reaped"]
             ELSE procs[k]]
    /\ sigchld' = FALSE
    /\ UNCHANGED <<shellVars, buf>>

(***************************************************************************)
(* The SIGCHLD handler.  Signals that arrive while one is pending are      *)
(* merged, so it loops until there is no zombie left.                      *)
(***************************************************************************)
child_handler ==
    /\ sh # "exited" /\ sigchld
    /\ procs' = [k \in DOMAIN procs |->
          IF procs[k].st = "zombie" THEN [procs[k] EXCEPT !.st = "reaped"]
          ELSE procs[k]]
    /\ sigchld' = FALSE
    /\ UNCHANGED <<shellVars, buf>>

(******************************** Children ********************************)

(* A dead process has closed every descriptor and signalled its parent. *)
Dies(k) ==
    /\ procs' = [procs EXCEPT ![k] =
          [@ EXCEPT !.st = "zombie", !.rd = {}, !.wr = {}, !.left = 0]]
    /\ sigchld' = TRUE

(***************************************************************************)
(* What the process has to write as soon as it runs.  The complaint about  *)
(* an unknown command goes to the pipe only after "!".                     *)
(***************************************************************************)
Output(k) ==
    CASE procs[k].known /\ procs[k].prog = "source" -> SourceUnits
      [] ~procs[k].known /\ procs[k].errpipe -> 1
      [] OTHER -> 0

Mut_ChildSetup_swapped(k) ==
    /\ procs[k].st = "forked"
    /\ procs' = [procs EXCEPT ![k] = [@ EXCEPT
          !.st = "running",
          !.wr = procs[k].wr \ {procs[k].in, procs[k].out},
          !.left = Output(k)]]
    /\ UNCHANGED <<shellVars, buf, sigchld>>

Mut_ChildSetup_keeps(k) ==
    /\ procs[k].st = "forked"
    /\ procs' = [procs EXCEPT ![k] = [@ EXCEPT
          !.st = "running",
          !.rd = procs[k].rd \ {procs[k].out},
          !.left = Output(k)]]
    /\ UNCHANGED <<shellVars, buf, sigchld>>

(***************************************************************************)
(* The child's half of run_npshell: it closes the write end of its input   *)
(* and the read end of its output, no other inherited descriptor, and      *)
(* looks the command up.                                                   *)
(***************************************************************************)
ChildSetup(k) ==
    /\ procs[k].st = "forked"
    /\ procs' = [procs EXCEPT ![k] = [@ EXCEPT
          !.st = "running",
          !.rd = procs[k].rd \ {procs[k].out},
          !.wr = procs[k].wr \ {procs[k].in},
          !.left = Output(k)]]
    /\ UNCHANGED <<shellVars, buf, sigchld>>

(* The process has a unit to write and its standard output is a pipe. *)
Writing(k) == procs[k].st = "running" /\ procs[k].left > 0 /\ procs[k].out # 0

ChildWrites(k) ==
    /\ Writing(k)
    /\ ReadEndOpen(procs[k].out)
    /\ buf[procs[k].out] < PipeCapacity
    /\ buf' = [buf EXCEPT ![procs[k].out] = @ + 1]
    /\ procs' = [procs EXCEPT ![k] = [@ EXCEPT !.left = procs[k].left - 1]]
    /\ UNCHANGED <<shellVars, sigchld>>

(* The terminal and files take everything. *)
ChildPrints(k) ==
    /\ procs[k].st = "running" /\ procs[k].left > 0 /\ procs[k].out = 0
    /\ procs' = [procs EXCEPT ![k] = [@ EXCEPT !.left = 0]]
    /\ UNCHANGED <<shellVars, buf, sigchld>>

(* SIGPIPE: nobody can read what it writes any more. *)
ChildKilled(k) ==
    /\ Writing(k)
    /\ ~ReadEndOpen(procs[k].out)
    /\ Dies(k)
    /\ UNCHANGED <<shellVars, buf>>

(* The process copies its standard input and is ready for the next unit. *)
Copying(k) ==
    /\ procs[k].st = "running" /\ procs[k].left = 0
    /\ procs[k].known /\ procs[k].prog = "filter"

ChildReads(k) ==
    /\ Copying(k)
    /\ procs[k].in # 0 /\ buf[procs[k].in] > 0
    /\ buf' = [buf EXCEPT ![procs[k].in] = @ - 1]
    /\ procs' = [procs EXCEPT ![k] = [@ EXCEPT !.left = 1]]
    /\ UNCHANGED <<shellVars, sigchld>>

(* End of file on the pipe. *)
ChildReadsEof(k) ==
    /\ Copying(k)
    /\ procs[k].in # 0 /\ buf[procs[k].in] = 0 /\ ~WriteEndOpen(procs[k].in)
    /\ Dies(k)
    /\ UNCHANGED <<shellVars, buf>>

(* The user ends the input of a filter that reads the terminal. *)
UserEndsInput(k) ==
    /\ Copying(k)
    /\ procs[k].in = 0
    /\ Dies(k)
    /\ UNCHANGED <<shellVars, buf>>

ChildExits(k) ==
    /\ procs[k].st = "running" /\ procs[k].left = 0
    /\ ~Copying(k)
    /\ Dies(k)
    /\ UNCHANGED <<shellVars, buf>>

(***************************************************************************)

ShellStep ==
    \/ ExecBuiltin \/ ExecExit
    \/ ExecToOldPipe \/ ExecToNewPipe \/ PipeFails
    \/ ExecToFile \/ OpenFails \/ ExecSimple
    \/ EndOfLine \/ WaitPid \/ EndOfWait \/ child_handler

ChildStep(k) ==
    \/ ChildSetup(k) \/ ChildWrites(k) \/ ChildPrints(k) \/ ChildKilled(k)
    \/ ChildReads(k) \/ ChildReadsEof(k) \/ ChildExits(k)

Next ==
    \/ ReadLine \/ EndOfInput
    \/ ShellStep
    \/ \E k \in DOMAIN procs : ChildStep(k) \/ UserEndsInput(k)

Spec == Init /\ [][Next]_vars

(***************************************************************************)
(* Scheduling: the kernel runs every process that can run.  Nothing makes  *)
(* the user type, end the input or leave a filter on the terminal.         *)
(***************************************************************************)
Fairness ==
    /\ WF_vars(ShellStep)
    /\ \A k \in 1..MaxCommands : WF_vars(k \in DOMAIN procs /\ ChildStep(k))

FairSpec == Spec /\ Fairness

(******************************* Properties *******************************)

(* The state keeps its types, and every command has its slots. *)
TypeOK ==
    /\ sh \in {"prompt", "exec", "wait", "exited"}
    /\ line \in Seq(Commands)
    /\ pipes \in Seq(Entries)
    /\ pid_list \in Seq(Nat)
    /\ exit_flag \in BOOLEAN /\ path \in BOOLEAN /\ sigchld \in BOOLEAN
    /\ files \in Nat
    /\ procs \in Seq(Procs)
    /\ buf \in Seq(Nat) /\ Len(buf) = Len(procs)

(***************************************************************************)
(* No two pipes of the table are ever due at the same command, overdue     *)
(* ones included: the linear search of pipe_for_reading and of             *)
(* pipe_for_writing can only find one, whatever was typed before.          *)
(***************************************************************************)
NoAmbiguousPipe ==
    \A i, j \in DOMAIN pipes : pipes[i].counter = pipes[j].counter => i = j

(***************************************************************************)
(* The shell's numbered pipes implement the routing of PipeRouting: for    *)
(* every command, the set of commands that ever write to the pipe on its   *)
(* standard input is the set of those that were sent to it.                *)
(***************************************************************************)
Distances == UNION {{pipeN(l[i]) : i \in DOMAIN l} : l \in Lines}

Routing == INSTANCE PipeRouting WITH
    dest <- [k \in DOMAIN procs |->
               IF procs[k].pipeN = 0 THEN 0 ELSE k + procs[k].pipeN],
    heard <- [k \in DOMAIN procs |->
               IF procs[k].in = 0 THEN {}
               ELSE {j \in DOMAIN procs : procs[j].out = procs[k].in}]

ImplementsRouting == Routing!Spec

(***************************************************************************)
(* The only pipes the shell leaks are those due at a command without a     *)
(* process: a pipe whose command has come and was forked is out of the     *)
(* table (erase_pipe is skipped by the built-ins and by a failed open).    *)
(***************************************************************************)
OverdueOnlyWithoutProcess ==
    \A i \in DOMAIN pipes :
        pipes[i].counter <= 0 =>
            /\ Len(procs) + pipes[i].counter \in DOMAIN procs
            /\ procs[Len(procs) + pipes[i].counter].st = "none"

(***************************************************************************)
(* At the prompt every command that was not followed by a pipe has         *)
(* terminated: the shell waits for each of them and for no other process.  *)
(***************************************************************************)
PromptAfterForeground ==
    sh = "prompt" =>
        \A k \in DOMAIN procs : procs[k].pipeN = 0 => ~Alive(k)

(***************************************************************************)
(* No zombie is forgotten: while the shell runs, a child that has died and *)
(* is not reaped has a SIGCHLD pending for it, although pending signals    *)
(* are merged and waitpid in the shell's loop reaps behind the handler.    *)
(***************************************************************************)
ZombieIsSignalled ==
    sh # "exited" => \A k \in DOMAIN procs : procs[k].st = "zombie" => sigchld

(***************************************************************************)
(* A filter takes the end of its input only after every command sent to it *)
(* has terminated and everything they wrote has been read.                 *)
(***************************************************************************)
EofAfterWriters ==
    [][\A k \in DOMAIN procs :
          Copying(k) /\ procs[k].in # 0 /\ procs'[k].st = "zombie" =>
              /\ buf[procs[k].in] = 0
              /\ \A j \in DOMAIN procs :
                    j + procs[j].pipeN = k /\ j # k => ~Alive(j)]_vars

(***************************************************************************)
(* A writer is killed by SIGPIPE only when the shell is gone or when the   *)
(* command it writes to was started and has terminated: waiting for a      *)
(* reader that has not come yet never costs a writer its output.           *)
(***************************************************************************)
SigpipeOnlyAfterReader ==
    [][\A k \in DOMAIN procs :
          Writing(k) /\ procs'[k].st = "zombie" =>
              \/ sh = "exited"
              \/ /\ k + procs[k].pipeN \in DOMAIN procs
                 /\ procs[k + procs[k].pipeN].st \in {"zombie", "reaped"}]_vars

(* A process waits on a full pipe that no process has been started to read. *)
BlockedOnPendingPipe ==
    \E k \in DOMAIN procs :
        /\ Writing(k) /\ ShellHolds(procs[k].out)
        /\ buf[procs[k].out] = PipeCapacity

(* A filter in the foreground reads the terminal. *)
ReadsTerminal == \E k \in DOMAIN procs : Copying(k) /\ procs[k].in = 0

(***************************************************************************)
(* The only ways for the shell never to come back from waitpid: a command  *)
(* that reads the terminal, or a process blocked for ever on a full pipe   *)
(* whose reader the shell itself has yet to start.                         *)
(***************************************************************************)
WaitEndsUnlessBlocked ==
    <>[](sh = "wait") => <>[](BlockedOnPendingPipe \/ ReadsTerminal)

(* Every child that dies while the shell lives is reaped in the end. *)
ZombiesReaped ==
    \A k \in 1..MaxCommands :
        (k \in DOMAIN procs /\ procs[k].st = "zombie") ~>
            (sh = "exited" \/ (k \in DOMAIN procs /\ procs[k].st = "reaped"))
=============================================================================
