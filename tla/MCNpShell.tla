----------------------------- MODULE MCNpShell -----------------------------
(***************************************************************************)
(* Instances of NpShell for TLC.  Every line is a legal split of a typed   *)
(* line: only its last command may lack a pipe operator.                   *)
(***************************************************************************)
EXTENDS NpShell

CONSTANTS
    MCPrograms,  \* the programs and built-ins typed
    MCNumbers,   \* the numbers typed after | (0: none)
    MCBang,      \* the numbers typed after ! (0: none)
    MCLast,      \* the operators other than pipes at the end of a line
    MaxLine      \* bound: commands on a line

Piped ==
    [prog : MCPrograms, op : {"|"}, num : MCNumbers]
        \cup [prog : MCPrograms, op : {"!"}, num : MCBang]

Final == Piped \cup [prog : MCPrograms, op : MCLast, num : {0}]

MCLines ==
    UNION {{l \in [1..n -> Final] : \A i \in 1..n-1 : l[i] \in Piped} :
              n \in 1..MaxLine}
=============================================================================
