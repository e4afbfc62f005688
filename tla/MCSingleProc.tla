---------------------------- MODULE MCSingleProc ----------------------------
(* Instances of SingleProc for TLC: the command lines of each run. *)
EXTENDS SingleProc

Run(in, op, num, out) ==
    [prog |-> "run", in |-> in, op |-> op, num |-> num, out |-> out,
     to |-> 0, name |-> "", var |-> "PATH", val |-> "bin:."]

Builtin(prog) == [Run(0, "none", 0, 0) EXCEPT !.prog = prog]

(* Pipes between users, the sender's own number and one too many included. *)
UserPipeLines ==
    {<<Run(0, "none", 0, r)>> : r \in 1..MAX_CLIENTS+1}
        \cup {<<Run(s, "none", 0, 0)>> : s \in 1..MAX_CLIENTS+1}

(***************************************************************************)
(* Numbered pipes beside user pipes: a yell reads and erases a due pipe, a *)
(* query lets it go by; a tell drops what follows it on the line; a name.  *)
(***************************************************************************)
NumberedLines ==
    {<<Run(0, "|", 2, 0)>>, <<Run(0, "|", 1, 0)>>,
     <<Builtin("yell")>>, <<Builtin("query")>>,
     <<[Builtin("tell") EXCEPT !.to = 1], Builtin("query")>>,
     <<[Builtin("name") EXCEPT !.name = "alice"]>>,
     <<Run(0, "none", 0, 1)>>, <<Run(1, "none", 0, 0)>>}

(* User pipes with every other operator on the same command, and setenv.   *)
MixedLines ==
    {<<Run(1, "|", 1, 2)>>, <<Run(1, ">", 0, 0)>>, <<Run(0, "none", 0, 2)>>,
     <<[Builtin("setenv") EXCEPT !.var = "X", !.val = "v"]>>}
=============================================================================
