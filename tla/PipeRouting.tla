---------------------------- MODULE PipeRouting ----------------------------
(***************************************************************************)
(* What numbered pipes promise, with neither a table nor a counter in it:  *)
(* commands are numbered as they are executed, "k |N" sends the output of  *)
(* command k to command k + N, and command k hears exactly the commands    *)
(* whose output was sent to it.  A command for which the shell starts no   *)
(* process (a built-in, a redirection that cannot be opened) sends and     *)
(* hears nothing, and what was sent to it is heard by nobody.              *)
(***************************************************************************)
EXTENDS Naturals, Sequences

CONSTANT Distances  \* the numbers that may follow a "|" or a "!"

VARIABLES
    dest,   \* dest[k]: the command the output of k is for, 0 for none
    heard   \* heard[k]: the commands whose output command k reads

Init == dest = <<>> /\ heard = <<>>

Now == Len(dest) + 1

SentTo(k) == {j \in DOMAIN dest : dest[j] = k}

(* A command is started; its output goes n commands further, if n > 0. *)
Start(n) ==
    /\ dest' = Append(dest, IF n = 0 THEN 0 ELSE Now + n)
    /\ heard' = Append(heard, SentTo(Now))

(* A command is executed for which there is no process. *)
Skip ==
    /\ dest' = Append(dest, 0)
    /\ heard' = Append(heard, {})

Next == Skip \/ \E n \in Distances \cup {0} : Start(n)

Spec == Init /\ [][Next]_<<dest, heard>>
=============================================================================
