--------------------------- MODULE NumberedPipes ---------------------------
(***************************************************************************)
(* The table of numbered pipes every shell of the repository keeps         *)
(* (vector<pipe_counter>, utils.cpp of np_project1 and np_project2): a     *)
(* sequence of entries with a field `counter', the number of commands that *)
(* remain until the pipe is due.  The other fields of an entry belong to   *)
(* the module that uses the table.  An index that the code returns as -1   *)
(* is 0 here, and a vector index i is the sequence index i + 1.            *)
(***************************************************************************)
EXTENDS Integers, Sequences, SequencesExt

(* The positions whose counter equals n. *)
PositionsWith(pipes, n) == {i \in DOMAIN pipes : pipes[i].counter = n}

(* The first position whose counter equals n, 0 when there is none. *)
FirstWithCounter(pipes, n) ==
    IF PositionsWith(pipes, n) = {} THEN 0 ELSE Min(PositionsWith(pipes, n))

(***************************************************************************)
(* A plausible slip in pipes_update: the counters stop at zero.            *)
(***************************************************************************)
Mut_pipes_update(pipes) ==
    [i \in DOMAIN pipes |->
        [pipes[i] EXCEPT !.counter = IF @ > 0 THEN @ - 1 ELSE @]]

pipes_update(pipes) ==
    [i \in DOMAIN pipes |-> [pipes[i] EXCEPT !.counter = @ - 1]]

pipe_for_reading(pipes) == FirstWithCounter(pipes, 0)

Mut_pipe_for_writing(pipes, pipeN) == FirstWithCounter(pipes, 1)

pipe_for_writing(pipes, pipeN) == FirstWithCounter(pipes, pipeN)

(* A slip: the first entry is dropped, whichever is due. *)
Mut_erase_pipe(pipes, pipe_index) ==
    IF pipe_index # 0 THEN Tail(pipes) ELSE pipes

(***************************************************************************)
(* erase_pipe drops the entry at pipe_index, and closes both its ends,     *)
(* only when it is due; the module that uses the table derives the closed  *)
(* descriptors from the dropped entry.                                     *)
(***************************************************************************)
erase_pipe(pipes, pipe_index) ==
    IF pipe_index # 0 /\ pipes[pipe_index].counter = 0
    THEN RemoveAt(pipes, pipe_index)
    ELSE pipes

=============================================================================
