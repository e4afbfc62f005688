--------------------------- MODULE NpShellProofs ---------------------------
(***************************************************************************)
(* Theorems about np_project1's shell, for every set of lines, any number  *)
(* of commands, and any capacity of the pipes.                             *)
(***************************************************************************)
EXTENDS NpShell, SequenceTheorems, TLAPS

(*************************** The table of pipes ***************************)

(***************************************************************************)
(* The operations on the table of numbered pipes, for tables over any set  *)
(* E of entries that is closed under counting down.                        *)
(***************************************************************************)
(* No two entries of the table have the same counter. *)
Distinct(tbl) ==
    \A i, j \in DOMAIN tbl : tbl[i].counter = tbl[j].counter => i = j

(* Entries have an integer counter, and counting down gives an entry. *)
EntrySet(E) ==
    \A e \in E : /\ e.counter \in Int
                 /\ [e EXCEPT !.counter = @ - 1] \in E
                 /\ [e EXCEPT !.counter = @ - 1].counter = e.counter - 1

(* RemoveAt drops one element and keeps the others in their order. *)
LEMMA RemoveAtElements ==
    ASSUME NEW S, NEW s \in Seq(S), NEW k \in 1..Len(s)
    PROVE  /\ RemoveAt(s, k) \in Seq(S)
           /\ Len(RemoveAt(s, k)) = Len(s) - 1
           /\ \A i \in 1..Len(s)-1 :
                 RemoveAt(s, k)[i] = IF i < k THEN s[i] ELSE s[i+1]
<1> DEFINE a == SubSeq(s, 1, k-1)
           b == SubSeq(s, k+1, Len(s))
<1>1. a \in Seq(S) /\ Len(a) = k-1 /\ \A i \in 1..k-1 : a[i] = s[i]
  OBVIOUS
<1>2. b \in Seq(S) /\ Len(b) = Len(s) - k /\ \A i \in 1..Len(s)-k : b[i] = s[k+i]
  OBVIOUS
<1>3. RemoveAt(s, k) = a \o b
  BY DEF RemoveAt
<1> HIDE DEF a, b
<1>4. a \o b \in Seq(S) /\ Len(a \o b) = Len(s) - 1
  <2>1. a \o b \in Seq(S) /\ Len(a \o b) = Len(a) + Len(b)
    BY <1>1, <1>2, ConcatProperties
  <2>2. Len(s) \in Nat /\ k \in Nat
    OBVIOUS
  <2>. QED  BY <1>1, <1>2, <2>1, <2>2
<1>5. ASSUME NEW i \in 1..Len(s)-1
      PROVE  (a \o b)[i] = IF i < k THEN s[i] ELSE s[i+1]
  <2>1. CASE i < k
    BY <1>1, <1>2, <2>1
  <2>2. CASE ~(i < k)
    <3>1. i - Len(a) \in 1..Len(s)-k
      BY <1>1, <2>2
    <3>2. (a \o b)[i] = b[i - Len(a)]
      BY <1>1, <1>2, <2>2
    <3>. QED  BY <1>1, <1>2, <2>2, <3>1, <3>2
  <2>. QED  BY <2>1, <2>2
<1>. QED  BY <1>3, <1>4, <1>5

(* The elements of RemoveAt(s, k) are those of s at the other positions. *)
LEMMA RemoveAtPositions ==
    ASSUME NEW S, NEW s \in Seq(S), NEW k \in 1..Len(s)
    PROVE  /\ \A i \in DOMAIN RemoveAt(s, k) : \E j \in DOMAIN s \ {k} :
                 /\ RemoveAt(s, k)[i] = s[j]
                 /\ j = IF i < k THEN i ELSE i+1
           /\ \A j \in DOMAIN s \ {k} : \E i \in DOMAIN RemoveAt(s, k) :
                 RemoveAt(s, k)[i] = s[j]
<1> DEFINE t == RemoveAt(s, k)
<1>1. /\ t \in Seq(S) /\ Len(t) = Len(s) - 1
      /\ \A i \in 1..Len(s)-1 : t[i] = IF i < k THEN s[i] ELSE s[i+1]
  BY RemoveAtElements
<1> HIDE DEF t
<1>2. DOMAIN t = 1..Len(s)-1 /\ DOMAIN s = 1..Len(s) /\ Len(s) \in Nat
  BY <1>1
<1>3. ASSUME NEW i \in DOMAIN t
      PROVE  \E j \in DOMAIN s \ {k} : t[i] = s[j] /\ j = IF i < k THEN i ELSE i+1
  BY <1>1, <1>2
<1>4. ASSUME NEW j \in DOMAIN s \ {k}
      PROVE  \E i \in DOMAIN t : t[i] = s[j]
  <2>1. CASE j < k
    BY <1>1, <1>2, <2>1
  <2>2. CASE j > k
    <3>1. j-1 \in DOMAIN t /\ ~(j-1 < k) /\ (j-1)+1 = j
      BY <1>2, <2>2
    <3>. QED  BY <1>1, <1>2, <3>1
  <2>. QED  BY <1>2, <2>1, <2>2
<1>. QED  BY <1>3, <1>4 DEF t

(* In a table without ambiguity the search finds the entry, if any. *)
LEMMA FirstWithCounterFinds ==
    ASSUME NEW E, NEW tbl \in Seq(E), EntrySet(E), Distinct(tbl), NEW n \in Int
    PROVE  \/ /\ FirstWithCounter(tbl, n) = 0
              /\ \A i \in DOMAIN tbl : tbl[i].counter # n
           \/ /\ FirstWithCounter(tbl, n) \in DOMAIN tbl
              /\ FirstWithCounter(tbl, n) # 0
              /\ tbl[FirstWithCounter(tbl, n)].counter = n
<1>0. DOMAIN tbl \subseteq Nat \ {0}
  OBVIOUS
<1>1. CASE PositionsWith(tbl, n) = {}
  BY <1>1 DEF FirstWithCounter, PositionsWith
<1>2. CASE PositionsWith(tbl, n) # {}
  <2>1. PICK i \in DOMAIN tbl : PositionsWith(tbl, n) = {i} /\ tbl[i].counter = n
    BY <1>2 DEF PositionsWith, Distinct
  <2>2. i \in Nat \ {0}
    BY <1>0
  <2>3. Min(PositionsWith(tbl, n)) = i
    BY <2>1, <2>2 DEF Min
  <2>. QED  BY <1>2, <2>1, <2>2, <2>3 DEF FirstWithCounter
<1>. QED  BY <1>1, <1>2

(* pipes_update keeps the table's shape and counts every entry down. *)
LEMMA UpdateTable ==
    ASSUME NEW E, NEW tbl \in Seq(E), EntrySet(E), Distinct(tbl)
    PROVE  /\ pipes_update(tbl) \in Seq(E)
           /\ Len(pipes_update(tbl)) = Len(tbl)
           /\ DOMAIN pipes_update(tbl) = DOMAIN tbl
           /\ \A i \in DOMAIN tbl :
                 /\ pipes_update(tbl)[i] = [tbl[i] EXCEPT !.counter = @ - 1]
                 /\ pipes_update(tbl)[i].counter = tbl[i].counter - 1
           /\ Distinct(pipes_update(tbl))
<1> DEFINE u == pipes_update(tbl)
<1>1. u = [i \in 1..Len(tbl) |-> [tbl[i] EXCEPT !.counter = @ - 1]]
  BY DEF pipes_update
<1>2. \A i \in 1..Len(tbl) : tbl[i] \in E
  OBVIOUS
<1>3. /\ u \in Seq(E) /\ Len(u) = Len(tbl) /\ DOMAIN u = DOMAIN tbl
  BY <1>1, <1>2 DEF EntrySet
<1>4. \A i \in DOMAIN tbl :
          u[i] = [tbl[i] EXCEPT !.counter = @ - 1] /\ u[i].counter = tbl[i].counter - 1
  BY <1>1, <1>2 DEF EntrySet
<1>5. Distinct(u)
  <2>. HIDE DEF u
  <2>1. \A e \in E : e.counter \in Int
    BY Zenon DEF EntrySet
  <2>2. ASSUME NEW i \in DOMAIN tbl, NEW j \in DOMAIN tbl,
               u[i].counter = u[j].counter
        PROVE  tbl[i].counter = tbl[j].counter
    <3>1. tbl[i].counter \in Int /\ tbl[j].counter \in Int
      <4>1. tbl[i] \in E /\ tbl[j] \in E
        OBVIOUS
      <4>. QED  BY Zenon, <2>1, <4>1
    <3>2. tbl[i].counter - 1 = tbl[j].counter - 1
      BY Zenon, <1>4, <2>2
    <3>. QED  BY <3>1, <3>2
  <2>. QED  BY <1>3, <2>2 DEF Distinct
<1>. QED  BY <1>3, <1>4, <1>5

(* A new pipe keeps the table unambiguous if no other is due with it. *)
LEMMA AppendTable ==
    ASSUME NEW E, NEW tbl \in Seq(E), Distinct(tbl), NEW e \in E,
           \A i \in DOMAIN tbl : tbl[i].counter # e.counter
    PROVE  /\ Append(tbl, e) \in Seq(E)
           /\ Distinct(Append(tbl, e))
           /\ Len(Append(tbl, e)) = Len(tbl) + 1
           /\ DOMAIN Append(tbl, e) = DOMAIN tbl \cup {Len(tbl) + 1}
           /\ \A i \in DOMAIN tbl : Append(tbl, e)[i] = tbl[i]
           /\ Append(tbl, e)[Len(tbl) + 1] = e
<1>1. /\ Append(tbl, e) \in Seq(E) /\ Len(Append(tbl, e)) = Len(tbl) + 1
      /\ DOMAIN Append(tbl, e) = 1..Len(tbl)+1 /\ DOMAIN tbl = 1..Len(tbl)
      /\ \A i \in 1..Len(tbl) : Append(tbl, e)[i] = tbl[i]
      /\ Append(tbl, e)[Len(tbl) + 1] = e
  OBVIOUS
<1>2. Len(tbl) \in Nat
  OBVIOUS
<1>. QED  BY <1>1, <1>2 DEF Distinct

(* erase_pipe keeps the type and the table unambiguous, and only drops     *)
(* the entry at the given position, when it is due.                        *)
LEMMA EraseTable ==
    ASSUME NEW E, NEW tbl \in Seq(E), EntrySet(E), Distinct(tbl),
           NEW r \in DOMAIN tbl \cup {0}
    PROVE  /\ erase_pipe(tbl, r) \in Seq(E)
           /\ Distinct(erase_pipe(tbl, r))
           /\ \A i \in DOMAIN erase_pipe(tbl, r) : \E j \in DOMAIN tbl :
                 /\ erase_pipe(tbl, r)[i] = tbl[j]
                 /\ (r # 0 /\ tbl[r].counter = 0) => j # r
           /\ \A j \in DOMAIN tbl :
                 \/ r # 0 /\ tbl[r].counter = 0 /\ j = r
                 \/ \E i \in DOMAIN erase_pipe(tbl, r) : erase_pipe(tbl, r)[i] = tbl[j]
<1>1. CASE r # 0 /\ tbl[r].counter = 0
  <2>1. r \in 1..Len(tbl) /\ erase_pipe(tbl, r) = RemoveAt(tbl, r)
    BY <1>1 DEF erase_pipe
  <2>2. RemoveAt(tbl, r) \in Seq(E) /\ DOMAIN RemoveAt(tbl, r) \subseteq Nat
    BY <2>1, RemoveAtElements
  <2>3. /\ \A i \in DOMAIN RemoveAt(tbl, r) : \E j \in DOMAIN tbl \ {r} :
              RemoveAt(tbl, r)[i] = tbl[j] /\ j = IF i < r THEN i ELSE i+1
        /\ \A j \in DOMAIN tbl \ {r} : \E i \in DOMAIN RemoveAt(tbl, r) :
              RemoveAt(tbl, r)[i] = tbl[j]
    BY <2>1, RemoveAtPositions
  <2>4. Distinct(RemoveAt(tbl, r))
    <3> SUFFICES ASSUME NEW i1 \in DOMAIN RemoveAt(tbl, r),
                        NEW i2 \in DOMAIN RemoveAt(tbl, r),
                        RemoveAt(tbl, r)[i1].counter = RemoveAt(tbl, r)[i2].counter
                 PROVE  i1 = i2
      BY DEF Distinct
    <3>1. PICK j1 \in DOMAIN tbl \ {r} :
              RemoveAt(tbl, r)[i1] = tbl[j1] /\ j1 = IF i1 < r THEN i1 ELSE i1+1
      BY <2>3
    <3>2. PICK j2 \in DOMAIN tbl \ {r} :
              RemoveAt(tbl, r)[i2] = tbl[j2] /\ j2 = IF i2 < r THEN i2 ELSE i2+1
      BY <2>3
    <3>3. j1 = j2
      BY <3>1, <3>2 DEF Distinct
    <3>4. i1 \in Nat /\ i2 \in Nat /\ r \in Nat
      BY <2>1, <2>2
    <3>. QED  BY <3>1, <3>2, <3>3, <3>4
  <2>. QED  BY <1>1, <2>1, <2>2, <2>3, <2>4
<1>2. CASE ~(r # 0 /\ tbl[r].counter = 0)
  BY <1>2 DEF erase_pipe
<1>. QED  BY <1>1, <1>2

(********************************* Typing *********************************)

LEMMA EntriesAreEntries == EntrySet(Entries)
  BY DEF EntrySet, Entries

(* Typing needs the table unambiguous: the search returns an index then. *)
TypeInv == TypeOK /\ NoAmbiguousPipe

(* The table as the next command sees it, and what is due at it. *)
LEMMA UpdatedTable ==
    ASSUME TypeInv
    PROVE  /\ Updated \in Seq(Entries) /\ Distinct(Updated)
           /\ DOMAIN Updated = DOMAIN pipes /\ Len(Updated) = Len(pipes)
           /\ \A i \in DOMAIN pipes : /\ Updated[i].id = pipes[i].id
                                      /\ Updated[i].counter = pipes[i].counter - 1
           /\ ReadIndex \in DOMAIN Updated \cup {0}
           /\ ReadIndex # 0 => Updated[ReadIndex].counter = 0
           /\ ReadIndex = 0 => \A i \in DOMAIN Updated : Updated[i].counter # 0
<1>1. pipes \in Seq(Entries) /\ Distinct(pipes)
  BY DEF TypeInv, TypeOK, NoAmbiguousPipe, Distinct
<1>2. /\ Updated \in Seq(Entries) /\ Distinct(Updated)
      /\ DOMAIN Updated = DOMAIN pipes /\ Len(Updated) = Len(pipes)
      /\ \A i \in DOMAIN pipes :
            /\ Updated[i] = [pipes[i] EXCEPT !.counter = @ - 1]
            /\ Updated[i].counter = pipes[i].counter - 1
  BY <1>1, UpdateTable, EntriesAreEntries DEF Updated
<1>3. \A i \in DOMAIN pipes : Updated[i].id = pipes[i].id
  <2>1. \A i \in DOMAIN pipes : pipes[i] \in Entries
    BY <1>1
  <2>. QED  BY <1>2, <2>1 DEF Entries
<1>4. /\ ReadIndex \in DOMAIN Updated \cup {0}
      /\ ReadIndex # 0 => Updated[ReadIndex].counter = 0
      /\ ReadIndex = 0 => \A i \in DOMAIN Updated : Updated[i].counter # 0
  BY <1>2, FirstWithCounterFinds, EntriesAreEntries
     DEF ReadIndex, pipe_for_reading
<1>. QED  BY <1>2, <1>3, <1>4

(* The entry pipe_for_writing finds, and the table with a new pipe in it.  *)
LEMMA WriteTable ==
    ASSUME TypeInv, NEW n \in Nat \ {0}
    PROVE  /\ pipe_for_writing(Updated, n) # 0 =>
                 /\ pipe_for_writing(Updated, n) \in DOMAIN Updated
                 /\ Updated[pipe_for_writing(Updated, n)].counter = n
           /\ pipe_for_writing(Updated, n) = 0 =>
                 LET tbl == Append(Updated, [id |-> Now, counter |-> n])
                 IN /\ \A i \in DOMAIN Updated : Updated[i].counter # n
                    /\ tbl \in Seq(Entries) /\ Distinct(tbl)
                    /\ DOMAIN tbl = DOMAIN Updated \cup {Len(Updated) + 1}
                    /\ \A i \in DOMAIN Updated : tbl[i] = Updated[i]
                    /\ tbl[Len(Updated) + 1] = [id |-> Now, counter |-> n]
<1>1. Updated \in Seq(Entries) /\ Distinct(Updated)
  BY UpdatedTable
<1>2. \/ /\ pipe_for_writing(Updated, n) = 0
         /\ \A i \in DOMAIN Updated : Updated[i].counter # n
      \/ /\ pipe_for_writing(Updated, n) \in DOMAIN Updated
         /\ pipe_for_writing(Updated, n) # 0
         /\ Updated[pipe_for_writing(Updated, n)].counter = n
  BY <1>1, FirstWithCounterFinds, EntriesAreEntries DEF pipe_for_writing
<1>3. [id |-> Now, counter |-> n] \in Entries
  <2>1. Now \in Nat
    BY DEF TypeInv, TypeOK, Now
  <2>. QED  BY <2>1 DEF Entries
<1>4. [id |-> Now, counter |-> n].counter = n
  OBVIOUS
<1>. QED  BY <1>1, <1>2, <1>3, <1>4, AppendTable

(* What is common to the steps that execute a command without a process.  *)
ExecNone(p) ==
    /\ Record(p)
    /\ p.st = "none" /\ p.pipeN = 0 /\ p.in = 0 /\ p.out = 0
    /\ pipes' = Updated

(* What is common to the steps that fork: tbl is the table at the fork,    *)
(* and it has the entry of the pipe the command writes to.                 *)
ExecFork(p, tbl) ==
    /\ Record(p)
    /\ line # <<>> /\ p.pipeN \in {0, pipeN(Head(line))}
    /\ p.st = "forked"
    /\ p.in = IF ReadIndex = 0 THEN 0 ELSE Updated[ReadIndex].id
    /\ p.rd = Ids(tbl) /\ p.wr = Ids(tbl)
    /\ pipes' = erase_pipe(tbl, ReadIndex)
    /\ \/ /\ p.pipeN = 0 /\ p.out = 0 /\ tbl = Updated
       \/ /\ p.pipeN \in Nat \ {0} /\ tbl = Updated
          /\ \E w \in DOMAIN Updated :
                Updated[w].counter = p.pipeN /\ Updated[w].id = p.out
       \/ /\ p.pipeN \in Nat \ {0} /\ p.out = Now
          /\ \A i \in DOMAIN Updated : Updated[i].counter # p.pipeN
          /\ tbl = Append(Updated, [id |-> Now, counter |-> p.pipeN])

(* The steps that execute no command keep what routing is about. *)
Quiet ==
    /\ pipes' = pipes
    /\ DOMAIN procs' = DOMAIN procs
    /\ Len(procs') = Len(procs)
    /\ \A k \in DOMAIN procs :
          /\ procs'[k].pipeN = procs[k].pipeN
          /\ procs'[k].in = procs[k].in
          /\ procs'[k].out = procs[k].out
          /\ procs'[k].st = "none" <=> procs[k].st = "none"

LEMMA InitTyped == Init => TypeInv
<1>. SUFFICES ASSUME Init  PROVE TypeInv
  OBVIOUS
<1>1. line \in Seq(Commands) /\ pipes \in Seq(Entries) /\ pid_list \in Seq(Nat)
      /\ procs \in Seq(Procs) /\ buf \in Seq(Nat) /\ Len(buf) = Len(procs)
  BY DEF Init
<1>2. TypeOK
  BY <1>1 DEF Init, TypeOK
<1>3. DOMAIN pipes = {}
  BY DEF Init
<1>. QED  BY <1>2, <1>3 DEF TypeInv, NoAmbiguousPipe

(* A new command gets a process record and a pipe of its own. *)
LEMMA RecordTyped ==
    ASSUME TypeInv, NEW p \in Procs, Record(p)
    PROVE  /\ procs' \in Seq(Procs) /\ buf' \in Seq(Nat) /\ Len(buf') = Len(procs')
           /\ Len(procs') = Len(procs) + 1
           /\ procs'[Len(procs) + 1] = p
           /\ \A k \in DOMAIN procs : procs'[k] = procs[k]
           /\ DOMAIN procs' = DOMAIN procs \cup {Len(procs) + 1}
  BY DEF TypeInv, TypeOK, Record

LEMMA NoProcessTyped ==
    ASSUME NEW prog \in Programs \cup Builtins
    PROVE  NoProcess(prog) \in Procs
  BY DEF NoProcess, Procs, ProcStates

(* The command at hand is a Command, and the rest of the line is a line. *)
LEMMA HeadOfLine ==
    ASSUME TypeInv, line # <<>>
    PROVE  Head(line) \in Commands /\ Tail(line) \in Seq(Commands)
  BY DEF TypeInv, TypeOK

LEMMA PipeNumber ==
    ASSUME NEW c \in Commands
    PROVE  pipeN(c) \in Nat \ {0}
  BY DEF pipeN, Commands

(* Ids collects numbers. *)
LEMMA IdsTyped ==
    ASSUME NEW tbl \in Seq(Entries)
    PROVE  Ids(tbl) \in SUBSET Nat
<1>1. ASSUME NEW i \in DOMAIN tbl
      PROVE  tbl[i].id \in Nat
  <2>1. tbl[i] \in Entries
    OBVIOUS
  <2>. QED  BY <2>1 DEF Entries
<1>. QED  BY <1>1 DEF Ids

(* A fork keeps the types, whichever of the two tables it happens with. *)
LEMMA ForkTyped ==
    ASSUME TypeInv, sh = "exec", line # <<>>,
           NEW c, c = Head(line), c.prog \in Programs,
           NEW tbl \in Seq(Entries), Distinct(tbl),
           ReadIndex \in DOMAIN tbl \cup {0},
           NEW out \in Nat,
           Fork(c, tbl, out), files' \in Nat
    PROVE  TypeInv'
<1>1. c \in Commands /\ Tail(line) \in Seq(Commands) /\ pipeN(c) \in Nat \ {0}
  BY HeadOfLine, PipeNumber
<1>2. Ids(tbl) \in SUBSET Nat
  BY IdsTyped
<1>3. (IF ReadIndex = 0 THEN 0 ELSE tbl[ReadIndex].id) \in Nat
  <2>1. CASE ReadIndex = 0
    BY <2>1
  <2>2. CASE ReadIndex # 0
    <3>1. tbl[ReadIndex] \in Entries
      BY <2>2
    <3>. QED  BY <2>2, <3>1 DEF Entries
  <2>. QED  BY <2>1, <2>2
<1>4. path \in BOOLEAN /\ (path /\ c.prog # "unknown") \in BOOLEAN
  BY DEF TypeInv, TypeOK
<1>5. Forked(c, tbl, out) \in Procs
  <2>1. (IF check_if_pipe(c) THEN pipeN(c) ELSE 0) \in Nat
    BY <1>1
  <2>2. c.prog \in Programs \cup Builtins
    OBVIOUS
  <2>. QED
    BY <1>2, <1>3, <1>4, <2>1, <2>2 DEF Forked, Procs, ProcStates
<1>6. /\ procs' \in Seq(Procs) /\ buf' \in Seq(Nat) /\ Len(buf') = Len(procs')
  BY <1>5, RecordTyped DEF Fork
<1>7. pid_list' \in Seq(Nat)
  <2>1. pid_list \in Seq(Nat) /\ Now \in Nat
    BY DEF TypeInv, TypeOK, Now
  <2>. QED  BY <2>1 DEF Fork
<1>8. pipes' \in Seq(Entries) /\ NoAmbiguousPipe'
  <2>1. erase_pipe(tbl, ReadIndex) \in Seq(Entries) /\ Distinct(erase_pipe(tbl, ReadIndex))
    BY EraseTable, EntriesAreEntries
  <2>. QED  BY <2>1 DEF Fork, NoAmbiguousPipe, Distinct
<1>. QED
  BY <1>1, <1>6, <1>7, <1>8 DEF Fork, TypeInv, TypeOK

(* A step that changes one process only keeps the types. *)
LEMMA ProcsTyped ==
    ASSUME TypeInv,
           UNCHANGED shellVars,
           procs' \in Seq(Procs), Len(procs') = Len(procs),
           buf' \in Seq(Nat), Len(buf') = Len(buf), sigchld' \in BOOLEAN
    PROVE  TypeInv'
  BY DEF TypeInv, TypeOK, NoAmbiguousPipe, shellVars

(* An entry replaced by one of the type leaves a sequence of the type. *)
LEMMA ReplaceTyped ==
    ASSUME NEW S, NEW s \in Seq(S), NEW k, NEW x \in S
    PROVE  /\ [s EXCEPT ![k] = x] \in Seq(S)
           /\ Len([s EXCEPT ![k] = x]) = Len(s)
<1>1. \A i \in 1..Len(s) : s[i] \in S
  OBVIOUS
<1>2. [s EXCEPT ![k] = x] = [i \in 1..Len(s) |-> IF i = k THEN x ELSE s[i]]
  OBVIOUS
<1> DEFINE t == [i \in 1..Len(s) |-> IF i = k THEN x ELSE s[i]]
<1>3. t \in Seq(S) /\ DOMAIN t = 1..Len(s)
  BY <1>1
<1> HIDE DEF t
<1>4. Len(t) = Len(s)
  BY <1>3
<1>. QED  BY <1>2, <1>3, <1>4 DEF t

(* The same for a sequence of numbers and a position that may be none of its. *)
LEMMA BufTyped ==
    ASSUME NEW s \in Seq(Nat), NEW k, NEW x, k \in DOMAIN s => x \in Nat
    PROVE  /\ [s EXCEPT ![k] = x] \in Seq(Nat)
           /\ Len([s EXCEPT ![k] = x]) = Len(s)
<1>1. CASE k \in DOMAIN s
  BY <1>1, ReplaceTyped
<1>2. CASE k \notin DOMAIN s
  <2>1. [s EXCEPT ![k] = x] = s
    BY <1>2
  <2>. QED  BY <2>1
<1>. QED  BY <1>1, <1>2

(* A step of one process, which keeps its command line and its pipes. *)
LEMMA ProcessStep ==
    ASSUME TypeInv, NEW k \in DOMAIN procs, NEW q \in Procs,
           q.pipeN = procs[k].pipeN, q.in = procs[k].in, q.out = procs[k].out,
           procs[k].st # "none", q.st # "none",
           procs' = [procs EXCEPT ![k] = q],
           UNCHANGED shellVars,
           buf' \in Seq(Nat), Len(buf') = Len(buf), sigchld' \in BOOLEAN
    PROVE  TypeInv' /\ Quiet
<1>1. procs \in Seq(Procs) /\ DOMAIN procs = 1..Len(procs)
  BY DEF TypeInv, TypeOK
<1>2. procs' \in Seq(Procs) /\ Len(procs') = Len(procs)
  BY <1>1, ReplaceTyped
<1>3. DOMAIN procs' = DOMAIN procs
  BY <1>1, <1>2
<1>4. \A j \in DOMAIN procs : procs'[j] = IF j = k THEN q ELSE procs[j]
  BY <1>1
<1>5. pipes' = pipes
  BY DEF shellVars
<1>6. Quiet
  BY <1>2, <1>3, <1>4, <1>5 DEF Quiet
<1>. QED  BY <1>2, <1>6, ProcsTyped

(* A command without a process keeps the types. *)
LEMMA NoneTyped ==
    ASSUME TypeInv, line # <<>>, NEW prog \in Programs \cup Builtins,
           Record(NoProcess(prog)), pipes' = Updated,
           line' \in Seq(Commands), pid_list' = pid_list,
           sh' \in {"prompt", "exec", "wait", "exited"},
           exit_flag' \in BOOLEAN, path' \in BOOLEAN,
           files' = files, sigchld' = sigchld
    PROVE  TypeInv' /\ \E p \in Procs : ExecNone(p)
<1>1. NoProcess(prog) \in Procs
  BY NoProcessTyped
<1>2. /\ procs' \in Seq(Procs) /\ buf' \in Seq(Nat) /\ Len(buf') = Len(procs')
  BY <1>1, RecordTyped
<1>3. Updated \in Seq(Entries) /\ Distinct(Updated)
  BY UpdatedTable
<1>4. TypeInv'
  BY <1>2, <1>3 DEF TypeInv, TypeOK, NoAmbiguousPipe, Distinct
<1>5. ExecNone(NoProcess(prog))
  BY DEF ExecNone, NoProcess
<1>. QED  BY <1>1, <1>4, <1>5

(* The process that is forked is one of the two kinds ExecFork tells apart. *)
LEMMA ForkIsExec ==
    ASSUME TypeInv, line # <<>>,
           NEW c, c = Head(line), c.prog \in Programs,
           NEW tbl \in Seq(Entries), NEW out \in Nat, Fork(c, tbl, out),
           ReadIndex # 0 => tbl[ReadIndex].id = Updated[ReadIndex].id,
           \/ /\ ~check_if_pipe(c) /\ out = 0 /\ tbl = Updated
           \/ /\ check_if_pipe(c) /\ tbl = Updated
              /\ \E w \in DOMAIN Updated :
                    Updated[w].counter = pipeN(c) /\ Updated[w].id = out
           \/ /\ check_if_pipe(c) /\ out = Now
              /\ \A i \in DOMAIN Updated : Updated[i].counter # pipeN(c)
              /\ tbl = Append(Updated, [id |-> Now, counter |-> pipeN(c)])
    PROVE  ExecFork(Forked(c, tbl, out), tbl)
<1> DEFINE p == Forked(c, tbl, out)
<1>1. pipeN(c) \in Nat \ {0}
  BY HeadOfLine, PipeNumber
<1>2. /\ p.st = "forked"
      /\ p.in = IF ReadIndex = 0 THEN 0 ELSE tbl[ReadIndex].id
      /\ p.pipeN = IF check_if_pipe(c) THEN pipeN(c) ELSE 0
      /\ p.out = out /\ p.rd = Ids(tbl) /\ p.wr = Ids(tbl)
      /\ p.pipeN \in {0, pipeN(Head(line))}
  BY DEF Forked
<1>3. Record(p) /\ pipes' = erase_pipe(tbl, ReadIndex)
  BY DEF Fork
<1> HIDE DEF p
<1>4. p.in = IF ReadIndex = 0 THEN 0 ELSE Updated[ReadIndex].id
  BY <1>2
<1>5. \/ /\ p.pipeN = 0 /\ p.out = 0 /\ tbl = Updated
      \/ /\ p.pipeN \in Nat \ {0} /\ tbl = Updated
         /\ \E w \in DOMAIN Updated :
               Updated[w].counter = p.pipeN /\ Updated[w].id = p.out
      \/ /\ p.pipeN \in Nat \ {0} /\ p.out = Now
         /\ \A i \in DOMAIN Updated : Updated[i].counter # p.pipeN
         /\ tbl = Append(Updated, [id |-> Now, counter |-> p.pipeN])
  <2>1. CASE ~check_if_pipe(c)
    BY <1>2, <2>1
  <2>2. CASE check_if_pipe(c)
    <3>1. p.pipeN = pipeN(c)
      BY <1>2, <2>2
    <3>. QED  BY <1>1, <1>2, <2>2, <3>1
  <2>. QED  BY <2>1, <2>2
<1>. QED  BY <1>2, <1>3, <1>4, <1>5 DEF ExecFork, p

(* Steps of the shell that fork. *)
LEMMA ShellForks ==
    ASSUME TypeInv, ExecToOldPipe \/ ExecToNewPipe \/ ExecToFile \/ ExecSimple
    PROVE  TypeInv' /\ \E p, tbl : ExecFork(p, tbl)
<1> DEFINE c == Head(line)
<1>1. line # <<>> /\ sh = "exec" /\ c.prog \in Programs
  BY DEF ExecToOldPipe, ExecToNewPipe, ExecToFile, ExecSimple
<1>2. c \in Commands /\ pipeN(c) \in Nat \ {0}
  BY <1>1, HeadOfLine, PipeNumber
<1>3. /\ Updated \in Seq(Entries) /\ Distinct(Updated)
      /\ ReadIndex \in DOMAIN Updated \cup {0}
  BY UpdatedTable
<1>4. files \in Nat /\ Now \in Nat
  BY DEF TypeInv, TypeOK, Now
<1>5. CASE ExecToOldPipe
  <2> DEFINE w == pipe_for_writing(Updated, pipeN(c))
  <2>1. w # 0 /\ check_if_pipe(c) /\ Fork(c, Updated, Updated[w].id) /\ files' = files
    BY <1>5 DEF ExecToOldPipe
  <2>2. w \in DOMAIN Updated /\ Updated[w].counter = pipeN(c)
    BY <1>2, <2>1, WriteTable
  <2>3. Updated[w].id \in Nat
    <3>1. Updated[w] \in Entries
      BY <1>3, <2>2
    <3>. QED  BY <3>1 DEF Entries
  <2> HIDE DEF w
  <2>4. TypeInv'
    BY <1>1, <1>3, <1>4, <2>1, <2>3, ForkTyped
  <2>5. ExecFork(Forked(c, Updated, Updated[w].id), Updated)
    BY <1>1, <1>3, <2>1, <2>2, <2>3, ForkIsExec
  <2>. QED  BY <2>4, <2>5
<1>6. CASE ExecToNewPipe
  <2> DEFINE tbl == Append(Updated, [id |-> Now, counter |-> pipeN(c)])
  <2>1. /\ pipe_for_writing(Updated, pipeN(c)) = 0 /\ check_if_pipe(c)
        /\ Fork(c, tbl, Now) /\ files' = files
    BY <1>6 DEF ExecToNewPipe
  <2>2. /\ \A i \in DOMAIN Updated : Updated[i].counter # pipeN(c)
        /\ tbl \in Seq(Entries) /\ Distinct(tbl)
        /\ DOMAIN tbl = DOMAIN Updated \cup {Len(Updated) + 1}
        /\ \A i \in DOMAIN Updated : tbl[i] = Updated[i]
    BY <1>2, <2>1, WriteTable
  <2>3. ReadIndex \in DOMAIN tbl \cup {0}
    BY <1>3, <2>2
  <2>4. ReadIndex # 0 => tbl[ReadIndex].id = Updated[ReadIndex].id
    BY <1>3, <2>2
  <2>5. TypeInv'
    <3> HIDE DEF tbl
    <3>. QED  BY <1>1, <1>4, <2>1, <2>2, <2>3, ForkTyped
  <2>6. ExecFork(Forked(c, tbl, Now), tbl)
    BY <1>1, <1>4, <2>1, <2>2, <2>4, ForkIsExec
  <2>. QED  BY <2>5, <2>6
<1>7. CASE ExecToFile
  <2>1. ~check_if_pipe(c) /\ Fork(c, Updated, 0) /\ files' \in Nat
    BY <1>4, <1>7 DEF ExecToFile, check_redirection, check_if_pipe
  <2>2. TypeInv'
    BY <1>1, <1>3, <2>1, ForkTyped
  <2>3. ExecFork(Forked(c, Updated, 0), Updated)
    BY <1>1, <1>3, <2>1, ForkIsExec
  <2>. QED  BY <2>2, <2>3
<1>8. CASE ExecSimple
  <2>1. ~check_if_pipe(c) /\ Fork(c, Updated, 0) /\ files' \in Nat
    BY <1>4, <1>8 DEF ExecSimple, check_if_pipe
  <2>2. TypeInv'
    BY <1>1, <1>3, <2>1, ForkTyped
  <2>3. ExecFork(Forked(c, Updated, 0), Updated)
    BY <1>1, <1>3, <2>1, ForkIsExec
  <2>. QED  BY <2>2, <2>3
<1>. QED  BY <1>5, <1>6, <1>7, <1>8

(* Steps of the shell that execute a command without a process. *)
LEMMA ShellExecutesNone ==
    ASSUME TypeInv, ExecBuiltin \/ ExecExit \/ PipeFails \/ OpenFails
    PROVE  TypeInv' /\ \E p \in Procs : ExecNone(p)
<1>1. line # <<>>
  BY DEF ExecBuiltin, ExecExit, PipeFails, OpenFails
<1>2. /\ sh = "exec" /\ exit_flag \in BOOLEAN /\ path \in BOOLEAN
      /\ line \in Seq(Commands) /\ Tail(line) \in Seq(Commands) /\ <<>> \in Seq(Commands)
  <2>1. sh = "exec"
    BY DEF ExecBuiltin, ExecExit, PipeFails, OpenFails
  <2>2. exit_flag \in BOOLEAN /\ path \in BOOLEAN /\ line \in Seq(Commands)
    BY DEF TypeInv, TypeOK
  <2>. QED  BY <1>1, <2>1, <2>2, HeadOfLine
<1>3. CASE ExecBuiltin
  <2>1. Head(line).prog \in Programs \cup Builtins
    BY <1>3 DEF ExecBuiltin, Builtins
  <2>2. path' \in BOOLEAN
    BY <1>2, <1>3 DEF ExecBuiltin
  <2>3. /\ Record(NoProcess(Head(line).prog)) /\ pipes' = Updated
        /\ line' = Tail(line) /\ UNCHANGED <<sh, pid_list, exit_flag, files, sigchld>>
    BY <1>3 DEF ExecBuiltin
  <2>. QED  BY <1>1, <1>2, <2>1, <2>2, <2>3, NoneTyped
<1>4. CASE ExecExit
  <2>1. "exit" \in Programs \cup Builtins
    BY DEF Builtins
  <2>. QED  BY <1>1, <1>2, <1>4, <2>1, NoneTyped DEF ExecExit
<1>5. CASE PipeFails
  <2>1. Head(line).prog \in Programs \cup Builtins
    BY <1>5 DEF PipeFails
  <2>. QED  BY <1>1, <1>2, <1>5, <2>1, NoneTyped DEF PipeFails
<1>6. CASE OpenFails
  <2>1. Head(line).prog \in Programs \cup Builtins
    BY <1>6 DEF OpenFails
  <2>. QED  BY <1>1, <1>2, <1>6, <2>1, NoneTyped DEF OpenFails
<1>. QED  BY <1>3, <1>4, <1>5, <1>6

(* Steps of the shell that execute no command. *)
LEMMA ShellIsQuiet ==
    ASSUME TypeInv,
           ReadLine \/ EndOfInput \/ EndOfLine \/ WaitPid \/ EndOfWait \/ child_handler
    PROVE  TypeInv' /\ Quiet
<1>0. TypeOK /\ procs \in Seq(Procs) /\ DOMAIN procs = 1..Len(procs) /\ buf \in Seq(Nat)
  BY DEF TypeInv, TypeOK
<1>1. CASE ReadLine
  <2>1. line' \in Seq(Commands)
    BY <1>1, NpShellAssumption DEF ReadLine
  <2>. QED
    BY <1>1, <2>1 DEF ReadLine, TypeInv, TypeOK, NoAmbiguousPipe, Quiet
<1>2. CASE EndOfInput
  BY <1>2 DEF EndOfInput, TypeInv, TypeOK, NoAmbiguousPipe, Quiet
<1>3. CASE EndOfLine
  BY <1>3 DEF EndOfLine, TypeInv, TypeOK, NoAmbiguousPipe, Quiet
<1>4. CASE WaitPid
  <2> DEFINE k == Head(pid_list)
  <2>1. /\ procs[k].st \in {"zombie", "reaped"}
        /\ procs' = [procs EXCEPT ![k] = [@ EXCEPT !.st = "reaped"]]
        /\ pid_list # <<>> /\ pid_list' = Tail(pid_list)
        /\ UNCHANGED <<sh, line, pipes, exit_flag, path, files, buf, sigchld>>
    BY <1>4 DEF WaitPid
  <2>2. pid_list' \in Seq(Nat)
    BY <2>1 DEF TypeInv, TypeOK
  <2>3. procs' \in Seq(Procs) /\ Len(procs') = Len(procs)
    <3>1. CASE k \in DOMAIN procs
      <4>1. procs[k] \in Procs
        BY <1>0, <3>1
      <4>2. [procs[k] EXCEPT !.st = "reaped"] \in Procs
        BY <4>1 DEF Procs, ProcStates
      <4>. QED  BY <1>0, <2>1, <4>2, ReplaceTyped
    <3>2. CASE k \notin DOMAIN procs
      <4>1. procs' = procs
        BY <1>0, <2>1, <3>2
      <4>. QED  BY <1>0, <4>1
    <3>. QED  BY <3>1, <3>2
  <2>4. \A j \in DOMAIN procs :
            procs'[j] = IF j = k THEN [procs[j] EXCEPT !.st = "reaped"] ELSE procs[j]
    BY <1>0, <2>1
  <2> HIDE DEF k
  <2>5. \A j \in DOMAIN procs :
            /\ procs'[j].pipeN = procs[j].pipeN
            /\ procs'[j].in = procs[j].in
            /\ procs'[j].out = procs[j].out
            /\ procs'[j].st = "none" <=> procs[j].st = "none"
    <3> TAKE j \in DOMAIN procs
    <3>1. procs[j] \in Procs
      BY <1>0
    <3>. QED  BY <2>1, <2>4, <3>1 DEF Procs
  <2>6. Quiet
    BY <1>0, <2>1, <2>3, <2>5 DEF Quiet
  <2>7. TypeInv'
    BY <2>1, <2>2, <2>3 DEF TypeInv, TypeOK, NoAmbiguousPipe
  <2>. QED  BY <2>6, <2>7
<1>5. CASE EndOfWait
  BY <1>5 DEF EndOfWait, TypeInv, TypeOK, NoAmbiguousPipe, Quiet
<1>6. CASE child_handler
  <2>1. procs' = [j \in 1..Len(procs) |->
            IF procs[j].st = "zombie" THEN [procs[j] EXCEPT !.st = "reaped"]
            ELSE procs[j]]
    BY <1>0, <1>6 DEF child_handler
  <2>2. UNCHANGED shellVars /\ buf' = buf /\ sigchld' \in BOOLEAN
    BY <1>6 DEF child_handler
  <2>3. ASSUME NEW j \in 1..Len(procs)
        PROVE  /\ procs'[j] \in Procs
               /\ procs'[j].pipeN = procs[j].pipeN
               /\ procs'[j].in = procs[j].in
               /\ procs'[j].out = procs[j].out
               /\ procs'[j].st = "none" <=> procs[j].st = "none"
    <3>1. procs[j] \in Procs
      BY <1>0
    <3>. QED  BY <2>1, <3>1 DEF Procs, ProcStates
  <2>4. procs' \in Seq(Procs) /\ Len(procs') = Len(procs) /\ DOMAIN procs' = DOMAIN procs
    BY <1>0, <2>1, <2>3
  <2>5. TypeInv'
    BY <1>0, <2>2, <2>4, ProcsTyped
  <2>6. Quiet
    BY <1>0, <2>2, <2>3, <2>4 DEF Quiet, shellVars
  <2>. QED  BY <2>5, <2>6
<1>. QED  BY <1>1, <1>2, <1>3, <1>4, <1>5, <1>6

(* Steps of the children. *)
LEMMA ChildIsQuiet ==
    ASSUME TypeInv, NEW k \in DOMAIN procs, ChildStep(k) \/ UserEndsInput(k)
    PROVE  TypeInv' /\ Quiet
<1>0. /\ procs[k] \in Procs /\ buf \in Seq(Nat) /\ sigchld \in BOOLEAN
      /\ SourceUnits \in Nat
  BY NpShellAssumption DEF TypeInv, TypeOK
<1>1. CASE ChildSetup(k)
  <2> DEFINE q == [procs[k] EXCEPT
          !.st = "running",
          !.rd = @ \ {procs[k].out},
          !.wr = @ \ {procs[k].in},
          !.left = Output(k)]
  <2>1. /\ procs' = [procs EXCEPT ![k] = q] /\ procs[k].st = "forked"
        /\ UNCHANGED <<shellVars, buf, sigchld>>
    BY <1>1 DEF ChildSetup
  <2>2. q \in Procs /\ q.st = "running"
        /\ q.pipeN = procs[k].pipeN /\ q.in = procs[k].in /\ q.out = procs[k].out
    <3>1. Output(k) \in Nat
      BY <1>0 DEF Output
    <3>. QED  BY <1>0, <3>1 DEF Procs, ProcStates
  <2> HIDE DEF q
  <2>. QED  BY <1>0, <2>1, <2>2, ProcessStep
<1>2. CASE ChildWrites(k)
  <2> DEFINE q == [procs[k] EXCEPT !.left = @ - 1]
  <2>1. /\ procs' = [procs EXCEPT ![k] = q] /\ procs[k].st = "running"
        /\ procs[k].left > 0
        /\ buf' = [buf EXCEPT ![procs[k].out] = @ + 1]
        /\ UNCHANGED <<shellVars, sigchld>>
    BY <1>2 DEF ChildWrites, Writing
  <2>2. q \in Procs /\ q.st = "running"
        /\ q.pipeN = procs[k].pipeN /\ q.in = procs[k].in /\ q.out = procs[k].out
    BY <1>0, <2>1 DEF Procs, ProcStates
  <2>3. buf' \in Seq(Nat) /\ Len(buf') = Len(buf)
    <3> DEFINE x == buf[procs[k].out] + 1
    <3>1. procs[k].out \in DOMAIN buf => x \in Nat
      BY <1>0
    <3>2. buf' = [buf EXCEPT ![procs[k].out] = x]
      BY <2>1
    <3> HIDE DEF x
    <3>. QED  BY <1>0, <3>1, <3>2, BufTyped
  <2> HIDE DEF q
  <2>. QED  BY <1>0, <2>1, <2>2, <2>3, ProcessStep
<1>3. CASE ChildPrints(k)
  <2> DEFINE q == [procs[k] EXCEPT !.left = 0]
  <2>1. /\ procs' = [procs EXCEPT ![k] = q] /\ procs[k].st = "running"
        /\ UNCHANGED <<shellVars, buf, sigchld>>
    BY <1>3 DEF ChildPrints
  <2>2. q \in Procs /\ q.st = "running"
        /\ q.pipeN = procs[k].pipeN /\ q.in = procs[k].in /\ q.out = procs[k].out
    BY <1>0, <2>1 DEF Procs, ProcStates
  <2> HIDE DEF q
  <2>. QED  BY <1>0, <2>1, <2>2, ProcessStep
<1>4. CASE ChildReads(k)
  <2> DEFINE q == [procs[k] EXCEPT !.left = 1]
  <2>1. /\ procs' = [procs EXCEPT ![k] = q] /\ procs[k].st = "running"
        /\ buf[procs[k].in] > 0
        /\ buf' = [buf EXCEPT ![procs[k].in] = @ - 1]
        /\ UNCHANGED <<shellVars, sigchld>>
    BY <1>4 DEF ChildReads, Copying
  <2>2. q \in Procs /\ q.st = "running"
        /\ q.pipeN = procs[k].pipeN /\ q.in = procs[k].in /\ q.out = procs[k].out
    BY <1>0, <2>1 DEF Procs, ProcStates
  <2>3. buf' \in Seq(Nat) /\ Len(buf') = Len(buf)
    <3> DEFINE x == buf[procs[k].in] - 1
    <3>1. procs[k].in \in DOMAIN buf => x \in Nat
      BY <1>0, <2>1
    <3>2. buf' = [buf EXCEPT ![procs[k].in] = x]
      BY <2>1
    <3> HIDE DEF x
    <3>. QED  BY <1>0, <3>1, <3>2, BufTyped
  <2> HIDE DEF q
  <2>. QED  BY <1>0, <2>1, <2>2, <2>3, ProcessStep
<1>5. CASE ChildKilled(k) \/ ChildReadsEof(k) \/ ChildExits(k) \/ UserEndsInput(k)
  <2> DEFINE q == [procs[k] EXCEPT !.st = "zombie", !.rd = {}, !.wr = {}, !.left = 0]
  <2>1. /\ procs' = [procs EXCEPT ![k] = q] /\ procs[k].st = "running"
        /\ sigchld' = TRUE /\ UNCHANGED <<shellVars, buf>>
    BY <1>5 DEF ChildKilled, ChildReadsEof, ChildExits, UserEndsInput, Dies, Writing, Copying
  <2>2. q \in Procs /\ q.st = "zombie"
        /\ q.pipeN = procs[k].pipeN /\ q.in = procs[k].in /\ q.out = procs[k].out
    BY <1>0, <2>1 DEF Procs, ProcStates
  <2> HIDE DEF q
  <2>. QED  BY <1>0, <2>1, <2>2, ProcessStep
<1>. QED  BY <1>1, <1>2, <1>3, <1>4, <1>5 DEF ChildStep

(* Every step executes a command of one of the two kinds, or none. *)
LEMMA StepKinds ==
    ASSUME TypeInv, [Next]_vars
    PROVE  /\ TypeInv'
           /\ \/ Quiet
              \/ \E p \in Procs : ExecNone(p)
              \/ \E p, tbl : ExecFork(p, tbl)
<1>1. CASE UNCHANGED vars
  BY <1>1 DEF vars, TypeInv, TypeOK, NoAmbiguousPipe, Quiet
<1>2. CASE ReadLine \/ EndOfInput \/ EndOfLine \/ WaitPid \/ EndOfWait \/ child_handler
  BY <1>2, ShellIsQuiet
<1>3. CASE ExecBuiltin \/ ExecExit \/ PipeFails \/ OpenFails
  BY <1>3, ShellExecutesNone
<1>4. CASE ExecToOldPipe \/ ExecToNewPipe \/ ExecToFile \/ ExecSimple
  BY <1>4, ShellForks
<1>5. CASE \E k \in DOMAIN procs : ChildStep(k) \/ UserEndsInput(k)
  BY <1>5, ChildIsQuiet
<1>. QED  BY <1>1, <1>2, <1>3, <1>4, <1>5 DEF Next, ShellStep

(* The state keeps its types, and no two pipes of the table are due at the *)
(* same command, for every input.                                          *)
THEOREM TypeCorrect == Spec => [](TypeOK /\ NoAmbiguousPipe)
<1>1. Init => TypeInv
  BY InitTyped
<1>2. TypeInv /\ [Next]_vars => TypeInv'
  BY StepKinds
<1>3. TypeInv => TypeOK /\ NoAmbiguousPipe
  BY DEF TypeInv
<1>. QED  BY <1>1, <1>2, <1>3, PTL DEF Spec

(* No two numbered pipes are ever due at the same command, so that the     *)
(* first one found is the right one. *)
THEOREM OnePipeEach == Spec => []NoAmbiguousPipe
BY TypeCorrect, PTL

----------------------------------------------------------------------------
(********************** How the shell waits ********************************)

(* The shell has still to wait for command k. *)
ToWaitFor(k) == \E i \in DOMAIN pid_list : pid_list[i] = k

(* Every live command without a pipe is in the list, which is empty at the *)
(* prompt; a zombie has a signal pending. *)
WaitInv ==
    /\ TypeInv
    /\ sh = "prompt" => pid_list = <<>>
    /\ sh # "exited" =>
          \A k \in DOMAIN procs : procs[k].pipeN = 0 /\ Alive(k) => ToWaitFor(k)
    /\ ZombieIsSignalled

(* What a process may do to the shell.                                     *)
LEMMA ChildrenEnd ==
    ASSUME TypeInv, NEW k \in DOMAIN procs, ChildStep(k) \/ UserEndsInput(k)
    PROVE  /\ UNCHANGED <<sh, pid_list>> /\ (sigchld => sigchld')
           /\ \A j \in DOMAIN procs :
                 /\ Alive(j)' => Alive(j)
                 /\ procs'[j].st = "zombie" => procs[j].st = "zombie" \/ sigchld'
<1>1. procs \in Seq(Procs) /\ procs[k] \in Procs
  BY DEF TypeInv, TypeOK
<1>2. CASE ChildSetup(k) \/ ChildWrites(k) \/ ChildPrints(k) \/ ChildReads(k)
  <2>1. procs[k].st \in {"forked", "running"} /\ UNCHANGED <<sh, pid_list, sigchld>>
    BY <1>2 DEF ChildSetup, ChildWrites, ChildPrints, ChildReads, Writing, Copying, shellVars
  <2>2. PICK q : procs' = [procs EXCEPT ![k] = q] /\ q.st = "running"
    <3>1. ASSUME ChildSetup(k) PROVE \E q : procs' = [procs EXCEPT ![k] = q] /\ q.st = "running"
      <4>1. [procs[k] EXCEPT !.st = "running", !.rd = @ \ {procs[k].out},
                             !.wr = @ \ {procs[k].in}, !.left = Output(k)].st = "running"
        BY <1>1 DEF Procs
      <4>. QED  BY <3>1, <4>1 DEF ChildSetup
    <3>2. ASSUME NEW x, procs[k].st = "running", procs' = [procs EXCEPT ![k] = [procs[k] EXCEPT !.left = x]]
          PROVE  \E q : procs' = [procs EXCEPT ![k] = q] /\ q.st = "running"
      <4>1. [procs[k] EXCEPT !.left = x].st = "running"
        BY <1>1, <3>2 DEF Procs
      <4>. QED  BY <3>2, <4>1
    <3>3. CASE ChildWrites(k)
      BY <3>2, <3>3 DEF ChildWrites, Writing
    <3>4. CASE ChildPrints(k)
      BY <3>2, <3>4 DEF ChildPrints
    <3>5. CASE ChildReads(k)
      BY <3>2, <3>5 DEF ChildReads, Copying
    <3>. QED  BY <1>2, <3>1, <3>3, <3>4, <3>5
  <2>3. \A j \in DOMAIN procs : procs'[j] = IF j = k THEN q ELSE procs[j]
    BY <1>1, <2>2
  <2>. QED  BY <2>1, <2>2, <2>3 DEF Alive
<1>3. CASE ChildKilled(k) \/ ChildReadsEof(k) \/ ChildExits(k) \/ UserEndsInput(k)
  <2>1. sigchld' = TRUE /\ UNCHANGED <<sh, pid_list>>
    BY <1>3 DEF ChildKilled, ChildReadsEof, ChildExits, UserEndsInput, Dies, shellVars
  <2> DEFINE q == [procs[k] EXCEPT !.st = "zombie", !.rd = {}, !.wr = {}, !.left = 0]
  <2>2. procs' = [procs EXCEPT ![k] = q]
    BY <1>3 DEF ChildKilled, ChildReadsEof, ChildExits, UserEndsInput, Dies
  <2>3. q.st = "zombie"
    BY <1>1 DEF Procs
  <2> HIDE DEF q
  <2>4. \A j \in DOMAIN procs : procs'[j] = IF j = k THEN q ELSE procs[j]
    BY <1>1, <2>2
  <2>. QED  BY <2>1, <2>3, <2>4 DEF Alive
<1>. QED  BY <1>2, <1>3 DEF ChildStep

(* A command is recorded: it has no process, or is in the list, or has a   *)
(* pipe. *)
LEMMA Recorded ==
    ASSUME WaitInv, TypeInv', NEW p \in Procs, Record(p), sh = "exec",
           sh' \in {"exec", "exited"}, sigchld' = sigchld,
           p.st # "zombie",
           \/ p.st = "none" /\ pid_list' = pid_list
           \/ p.pipeN # 0 /\ pid_list' = pid_list
           \/ pid_list' = Append(pid_list, Now)
    PROVE  WaitInv'
<1>1. TypeInv /\ pid_list \in Seq(Nat) /\ Now = Len(procs) + 1 /\ procs \in Seq(Procs)
  BY DEF WaitInv, TypeInv, TypeOK, Now
<1>2. /\ procs'[Now] = p /\ \A k \in DOMAIN procs : procs'[k] = procs[k]
      /\ DOMAIN procs' = DOMAIN procs \cup {Now}
  BY <1>1, RecordTyped
<1>3. ZombieIsSignalled'
  BY <1>2 DEF WaitInv, ZombieIsSignalled
<1>4. \A k : ToWaitFor(k) => \E i \in DOMAIN pid_list' : pid_list'[i] = k
  <2>. SUFFICES ASSUME NEW k, NEW i \in DOMAIN pid_list, pid_list[i] = k
       PROVE  i \in DOMAIN pid_list' /\ pid_list'[i] = k
    BY DEF ToWaitFor
  <2>1. CASE pid_list' = pid_list
    BY <2>1
  <2>2. CASE pid_list' = Append(pid_list, Now)
    <3>1. Now \in Nat /\ i \in 1..Len(pid_list)
      BY <1>1
    <3>. QED  BY <1>1, <2>2, <3>1
  <2>. QED  BY <2>1, <2>2
<1>5. pid_list' = Append(pid_list, Now) => \E i \in DOMAIN pid_list' : pid_list'[i] = Now
  <2>. SUFFICES ASSUME pid_list' = Append(pid_list, Now)
       PROVE  \E i \in DOMAIN pid_list' : pid_list'[i] = Now
    OBVIOUS
  <2>1. Now \in Nat
    BY <1>1
  <2>2. Len(pid_list) + 1 \in DOMAIN pid_list' /\ pid_list'[Len(pid_list) + 1] = Now
    BY <1>1, <2>1
  <2>. QED  BY <2>2
<1>6. sh' # "exited" =>
         \A k \in DOMAIN procs' :
            procs'[k].pipeN = 0 /\ procs'[k].st \in {"forked", "running"} =>
               \E i \in DOMAIN pid_list' : pid_list'[i] = k
  <2>. SUFFICES ASSUME sh' # "exited", NEW k \in DOMAIN procs', procs'[k].pipeN = 0,
                       procs'[k].st \in {"forked", "running"}
       PROVE  \E i \in DOMAIN pid_list' : pid_list'[i] = k
    OBVIOUS
  <2>1. CASE k \in DOMAIN procs
    BY <1>2, <1>4, <2>1 DEF WaitInv, Alive
  <2>2. CASE k = Now
    BY <1>2, <1>5, <2>2
  <2>. QED  BY <1>2, <2>1, <2>2
<1>7. sh' # "prompt"
  OBVIOUS
<1>. QED  BY <1>3, <1>6, <1>7 DEF WaitInv, ToWaitFor, Alive

LEMMA ForkRecorded ==
    ASSUME WaitInv, TypeInv', sh = "exec", line # <<>>,
           NEW c, c = Head(line), NEW tbl, NEW out, Fork(c, tbl, out)
    PROVE  WaitInv'
<1> DEFINE p == Forked(c, tbl, out)
<1>1. p.st = "forked" /\ p.pipeN = IF check_if_pipe(c) THEN pipeN(c) ELSE 0
  BY DEF Forked
<1>2. Record(p) /\ pid_list' = (IF check_if_pipe(c) THEN pid_list ELSE Append(pid_list, Now))
      /\ UNCHANGED <<sh, sigchld>>
  BY DEF Fork
<1>3. pipeN(c) # 0
  BY HeadOfLine, PipeNumber DEF WaitInv
<1> HIDE DEF p
<1>4. p \in Procs
  <2>1. procs' = Append(procs, p) /\ procs \in Seq(Procs) /\ procs' \in Seq(Procs)
    BY <1>2 DEF Record, WaitInv, TypeInv, TypeOK
  <2>2. procs'[Len(procs) + 1] = p /\ Len(procs) + 1 \in DOMAIN procs'
    BY <2>1
  <2>. QED  BY <2>1, <2>2
<1>. QED  BY <1>1, <1>2, <1>3, <1>4, Recorded

LEMMA NextWaits == WaitInv /\ [Next]_vars => WaitInv'
<1>. SUFFICES ASSUME WaitInv, [Next]_vars PROVE WaitInv'
  OBVIOUS
<1>1. TypeInv /\ TypeInv'
  BY StepKinds DEF WaitInv
<1>2. CASE ExecBuiltin \/ ExecExit \/ PipeFails \/ OpenFails
  <2>1. PICK p \in Procs : ExecNone(p)
    BY <1>1, <1>2, ShellExecutesNone
  <2>2. /\ sh = "exec" /\ sh' \in {"exec", "exited"}
        /\ UNCHANGED <<pid_list, sigchld>>
    BY <1>2 DEF ExecBuiltin, ExecExit, PipeFails, OpenFails
  <2>. QED  BY <1>1, <2>1, <2>2, Recorded DEF ExecNone
<1>3. CASE ExecToOldPipe \/ ExecToNewPipe \/ ExecToFile \/ ExecSimple
  <2>1. sh = "exec" /\ line # <<>> /\ \E tbl, out : Fork(Head(line), tbl, out)
    BY <1>3 DEF ExecToOldPipe, ExecToNewPipe, ExecToFile, ExecSimple
  <2>. QED  BY <1>1, <2>1, ForkRecorded
<1>4. ASSUME NEW k \in DOMAIN procs, ChildStep(k) \/ UserEndsInput(k) PROVE WaitInv'
  <2>1. Quiet
    BY <1>1, <1>4, ChildIsQuiet
  <2>2. /\ UNCHANGED <<sh, pid_list>> /\ (sigchld => sigchld')
        /\ \A j \in DOMAIN procs :
              /\ Alive(j)' => Alive(j)
              /\ procs'[j].st = "zombie" => procs[j].st = "zombie" \/ sigchld'
    BY <1>1, <1>4, ChildrenEnd
  <2>. QED  BY <1>1, <2>1, <2>2 DEF WaitInv, Quiet, ToWaitFor, ZombieIsSignalled
<1>5. CASE ReadLine \/ EndOfInput \/ EndOfLine \/ EndOfWait
  <2>1. UNCHANGED <<pid_list, procs, sigchld>> /\ sh # "exited"
        /\ (sh' = "prompt" => pid_list = <<>>)
    BY <1>5 DEF ReadLine, EndOfInput, EndOfLine, EndOfWait
  <2>. QED  BY <1>1, <2>1 DEF WaitInv, Alive, ToWaitFor, ZombieIsSignalled
<1>6. CASE WaitPid
  <2> DEFINE h == Head(pid_list)
  <2>1. /\ sh = "wait" /\ pid_list # <<>> /\ pid_list' = Tail(pid_list)
        /\ procs[h].st \in {"zombie", "reaped"}
        /\ procs' = [procs EXCEPT ![h] = [procs[h] EXCEPT !.st = "reaped"]]
        /\ UNCHANGED <<sh, sigchld>>
    BY <1>6 DEF WaitPid
  <2>2. procs \in Seq(Procs) /\ pid_list \in Seq(Nat) /\ Quiet
    BY <1>1, <1>6, ShellIsQuiet DEF TypeInv, TypeOK
  <2>3. ASSUME NEW k \in DOMAIN procs
        PROVE  /\ k # h => procs'[k] = procs[k]
               /\ k = h => procs'[k].st = "reaped"
    <3>1. procs[k] \in Procs
      BY <2>2
    <3>. QED  BY <2>1, <2>2, <3>1 DEF Procs
  <2>4. \A k : k # h /\ ToWaitFor(k) => ToWaitFor(k)'
    <3>. SUFFICES ASSUME NEW k, k # h, NEW i \in DOMAIN pid_list, pid_list[i] = k
         PROVE  \E j \in DOMAIN pid_list' : pid_list'[j] = k
      BY DEF ToWaitFor
    <3>1. i # 1 /\ i \in 1..Len(pid_list)
      BY <2>2
    <3>2. i - 1 \in DOMAIN pid_list' /\ pid_list'[i - 1] = k
      BY <2>1, <2>2, <3>1
    <3>. QED  BY <3>2
  <2> HIDE DEF h
  <2>. QED  BY <1>1, <2>1, <2>2, <2>3, <2>4 DEF WaitInv, Alive, Quiet, ZombieIsSignalled
<1>7. CASE child_handler
  <2>1. /\ UNCHANGED <<sh, pid_list>>
        /\ procs' = [k \in DOMAIN procs |->
              IF procs[k].st = "zombie" THEN [procs[k] EXCEPT !.st = "reaped"] ELSE procs[k]]
    BY <1>7 DEF child_handler, shellVars
  <2>2. procs \in Seq(Procs) /\ Quiet
    BY <1>1, <1>7, ShellIsQuiet DEF TypeInv, TypeOK
  <2>3. ASSUME NEW k \in DOMAIN procs
        PROVE  procs'[k].st # "zombie" /\ (Alive(k)' => Alive(k))
    <3>1. procs[k] \in Procs
      BY <2>2
    <3>2. [procs[k] EXCEPT !.st = "reaped"].st = "reaped"
      BY <3>1 DEF Procs
    <3>. QED  BY <2>1, <3>2 DEF Alive
  <2>. QED  BY <1>1, <2>1, <2>2, <2>3 DEF WaitInv, Quiet, ToWaitFor, ZombieIsSignalled
<1>8. CASE UNCHANGED vars
  <2>1. UNCHANGED <<sh, pid_list, procs, sigchld>>
    BY <1>8 DEF vars
  <2>. QED  BY <1>1, <2>1 DEF WaitInv, Alive, ToWaitFor, ZombieIsSignalled
<1>. QED  BY <1>2, <1>3, <1>4, <1>5, <1>6, <1>7, <1>8 DEF Next, ShellStep

LEMMA InitWaits == Init => WaitInv
<1>. SUFFICES ASSUME Init PROVE WaitInv
  OBVIOUS
<1>1. DOMAIN procs = {} /\ pid_list = <<>>
  BY DEF Init
<1>. QED  BY <1>1, InitTyped DEF WaitInv, ZombieIsSignalled

(***************************************************************************)
(* npshell.cpp:186-203: the shell prompts only when every command without  *)
(* a pipe has terminated, whatever was typed and however the SIGCHLD       *)
(* handler and the loop of waitpid share the children out.                 *)
(***************************************************************************)
THEOREM ForegroundFirst == Spec => []PromptAfterForeground
<1>1. WaitInv => PromptAfterForeground
  <2>. SUFFICES ASSUME WaitInv, sh = "prompt", NEW k \in DOMAIN procs, procs[k].pipeN = 0, Alive(k)
       PROVE  FALSE
    BY DEF PromptAfterForeground
  <2>1. pid_list = <<>> /\ ToWaitFor(k)
    BY DEF WaitInv
  <2>. QED  BY <2>1 DEF ToWaitFor
<1>. QED  BY <1>1, InitWaits, NextWaits, PTL DEF Spec

(***************************************************************************)
(* child_handler: while the shell runs a zombie has a SIGCHLD pending, for *)
(* any number of children and any merging of their signals.                *)
(***************************************************************************)
THEOREM NoZombieForgotten == Spec => []ZombieIsSignalled
<1>1. WaitInv => ZombieIsSignalled
  BY DEF WaitInv
<1>. QED  BY <1>1, InitWaits, NextWaits, PTL DEF Spec

----------------------------------------------------------------------------
(******************** Where the output goes ********************************)

(* The table of numbered pipes routes every command's output to the        *)
(* command it was sent to: NpShell implements PipeRouting.                  *)

(* Command k was followed by a pipe, and is sent to command Target(k). *)
Sends(k) == procs[k].pipeN > 0
Target(k) == k + procs[k].pipeN

(* Pipe c exists: command c created it, for the command it was sent to. *)
Creates(c) == c \in DOMAIN procs /\ Sends(c) /\ procs[c].out = c

(* A command writes to a pipe created for its target, or to none. *)
OutputIsRouted ==
    \A k \in DOMAIN procs :
        /\ procs[k].pipeN \in Nat
        /\ ~Sends(k) => procs[k].out = 0
        /\ Sends(k) => /\ Creates(procs[k].out)
                       /\ Target(procs[k].out) = Target(k)

(* All that is sent to one command goes through one pipe. *)
OnePipePerTarget ==
    \A j, k \in DOMAIN procs :
        Sends(j) /\ Sends(k) /\ Target(j) = Target(k) => procs[j].out = procs[k].out

(* An entry's counter is the distance to the command its pipe is for. *)
EntryIsPipe ==
    \A i \in DOMAIN pipes :
        /\ Creates(pipes[i].id)
        /\ pipes[i].counter = Target(pipes[i].id) - Len(procs)

(* A pipe stays in the table as long as its reader has not come. *)
PendingInTable ==
    \A k \in DOMAIN procs :
        Sends(k) /\ Target(k) > Len(procs) =>
            \E i \in DOMAIN pipes : pipes[i].id = procs[k].out

(* A command reads the pipe that was created for it, or none. *)
InputIsRouted ==
    \A k \in DOMAIN procs :
        procs[k].in # 0 => Creates(procs[k].in) /\ Target(procs[k].in) = k

(* A process somebody was sent to reads a pipe. *)
NothingMissed ==
    \A j, k \in DOMAIN procs :
        Sends(j) /\ Target(j) = k /\ procs[k].st # "none" => procs[k].in # 0

(* A command without a process neither reads nor writes. *)
NoneIsSilent ==
    \A k \in DOMAIN procs :
        procs[k].st = "none" => procs[k].in = 0 /\ procs[k].pipeN = 0

RouteInv ==
    /\ OutputIsRouted /\ OnePipePerTarget /\ EntryIsPipe /\ PendingInTable
    /\ InputIsRouted /\ NothingMissed /\ NoneIsSilent
    /\ OverdueOnlyWithoutProcess

(* The distances come from the lines that may be typed. *)
DistanceInv ==
    /\ \A k \in DOMAIN procs : procs[k].pipeN \in Distances \cup {0}
    /\ \A i \in DOMAIN line : pipeN(line[i]) \in Distances

(***************************************************************************)
(* What executing a command does to the processes and the table, whether p *)
(* is a process that was forked or the record of a command without one.    *)
(***************************************************************************)
Executed(p) ==
    /\ Record(p)
    /\ p.pipeN \in Nat
    /\ p.st = "none" => p.in = 0 /\ p.pipeN = 0
    /\ \/ /\ p.in = 0
          /\ p.st = "none" \/ \A i \in DOMAIN pipes : pipes[i].counter # 1
       \/ \E i \in DOMAIN pipes : pipes[i].counter = 1 /\ pipes[i].id = p.in
    /\ \/ p.pipeN = 0 /\ p.out = 0
       \/ /\ p.pipeN > 0
          /\ \E w \in DOMAIN pipes :
                pipes[w].counter = p.pipeN + 1 /\ pipes[w].id = p.out
       \/ /\ p.pipeN > 0 /\ p.out = Now
          /\ \A i \in DOMAIN pipes : pipes[i].counter # p.pipeN + 1
          /\ \E e \in DOMAIN pipes' : pipes'[e].id = Now
    /\ \A e \in DOMAIN pipes' :
          \/ \E i \in DOMAIN pipes :
                /\ pipes'[e].id = pipes[i].id
                /\ pipes'[e].counter = pipes[i].counter - 1
                /\ p.st = "none" \/ pipes[i].counter # 1
          \/ /\ p.pipeN > 0 /\ p.out = Now
             /\ pipes'[e].id = Now /\ pipes'[e].counter = p.pipeN
    /\ \A i \in DOMAIN pipes :
          p.st = "none" \/ pipes[i].counter # 1 =>
              \E e \in DOMAIN pipes' : pipes'[e].id = pipes[i].id

LEMMA NoneExecuted ==
    ASSUME TypeInv, NEW p, ExecNone(p)
    PROVE  Executed(p)
<1>1. /\ DOMAIN pipes' = DOMAIN pipes
      /\ \A i \in DOMAIN pipes : /\ pipes'[i].id = pipes[i].id
                                 /\ pipes'[i].counter = pipes[i].counter - 1
  BY UpdatedTable DEF ExecNone
<1>2. /\ Record(p) /\ p.pipeN = 0 /\ p.st = "none" /\ p.in = 0 /\ p.out = 0
  BY DEF ExecNone
<1>. QED  BY <1>1, <1>2 DEF Executed

LEMMA ForkExecuted ==
    ASSUME TypeInv, NEW p, NEW tbl, ExecFork(p, tbl)
    PROVE  Executed(p)
<1> DEFINE new == [id |-> Now, counter |-> p.pipeN]
           IsNew == /\ p.pipeN \in Nat \ {0} /\ p.out = Now
                    /\ \A i \in DOMAIN Updated : Updated[i].counter # p.pipeN
                    /\ tbl = Append(Updated, new)
<1>1. /\ Updated \in Seq(Entries) /\ Distinct(Updated)
      /\ DOMAIN Updated = DOMAIN pipes
      /\ \A i \in DOMAIN pipes : /\ Updated[i].id = pipes[i].id
                                 /\ Updated[i].counter = pipes[i].counter - 1
                                 /\ pipes[i].counter \in Int
      /\ ReadIndex \in DOMAIN Updated \cup {0}
      /\ ReadIndex # 0 => Updated[ReadIndex].counter = 0
      /\ ReadIndex = 0 => \A i \in DOMAIN Updated : Updated[i].counter # 0
  <2>1. ASSUME NEW i \in DOMAIN pipes  PROVE pipes[i].counter \in Int
    <3>1. pipes[i] \in Entries
      BY DEF TypeInv, TypeOK
    <3>. QED  BY <3>1 DEF Entries
  <2>. QED  BY <2>1, UpdatedTable
<1>2. /\ Record(p) /\ p.st = "forked" /\ p.pipeN \in Nat
      /\ p.in = IF ReadIndex = 0 THEN 0 ELSE Updated[ReadIndex].id
      /\ pipes' = erase_pipe(tbl, ReadIndex)
      /\ \/ p.pipeN = 0 /\ p.out = 0 /\ tbl = Updated
         \/ /\ p.pipeN \in Nat \ {0} /\ tbl = Updated
            /\ \E w \in DOMAIN Updated :
                  Updated[w].counter = p.pipeN /\ Updated[w].id = p.out
         \/ IsNew
  BY DEF ExecFork
<1> HIDE DEF IsNew
<1>3. /\ tbl \in Seq(Entries) /\ Distinct(tbl)
      /\ ReadIndex \in DOMAIN tbl \cup {0}
      /\ DOMAIN pipes \subseteq DOMAIN tbl
      /\ \A i \in DOMAIN pipes : tbl[i] = Updated[i]
      /\ \A j \in DOMAIN tbl : j \in DOMAIN pipes \/ (IsNew /\ tbl[j] = new)
      /\ IsNew => \E j \in DOMAIN tbl : tbl[j] = new
  <2>1. CASE tbl = Updated /\ ~IsNew
    <3>1. tbl \in Seq(Entries) /\ Distinct(tbl)
      BY <1>1, <2>1
    <3>2. DOMAIN tbl = DOMAIN pipes
      BY <1>1, <2>1
    <3>3. ReadIndex \in DOMAIN tbl \cup {0}
      BY <1>1, <2>1
    <3>4. \A i \in DOMAIN pipes : tbl[i] = Updated[i]
      BY <2>1
    <3>. QED  BY <2>1, <3>1, <3>2, <3>3, <3>4
  <2>2. CASE IsNew
    <3>1. new \in Entries /\ new.counter = p.pipeN
      <4>1. Now \in Nat
        BY DEF TypeInv, TypeOK, Now
      <4>. QED  BY <1>2, <4>1 DEF Entries
    <3> HIDE DEF new
    <3>2. /\ tbl \in Seq(Entries) /\ Distinct(tbl)
          /\ DOMAIN tbl = DOMAIN Updated \cup {Len(Updated) + 1}
          /\ \A i \in DOMAIN Updated : tbl[i] = Updated[i]
          /\ tbl[Len(Updated) + 1] = new
      <4>1. tbl = Append(Updated, new)
            /\ \A i \in DOMAIN Updated : Updated[i].counter # new.counter
        BY <2>2, <3>1 DEF IsNew
      <4>. QED  BY <1>1, <3>1, <4>1, AppendTable
    <3>3. ReadIndex \in DOMAIN tbl \cup {0}
      BY <1>1, <3>2
    <3>4. DOMAIN pipes \subseteq DOMAIN tbl /\ \A i \in DOMAIN pipes : tbl[i] = Updated[i]
      BY <1>1, <3>2
    <3>5. \A j \in DOMAIN tbl : j \in DOMAIN pipes \/ tbl[j] = new
      BY <1>1, <3>2
    <3>. QED  BY <2>2, <3>2, <3>3, <3>4, <3>5
  <2>. QED  BY <1>2, <2>1, <2>2
<1>4. \A i \in DOMAIN tbl : tbl[i].counter \in Int
  <2>1. \A i \in DOMAIN tbl : tbl[i] \in Entries
    BY <1>3
  <2>. QED  BY <2>1 DEF Entries
<1>5. /\ \A e \in DOMAIN pipes' : \E j \in DOMAIN tbl :
            pipes'[e] = tbl[j] /\ tbl[j].counter # 0
      /\ \A j \in DOMAIN tbl : tbl[j].counter # 0 =>
            \E e \in DOMAIN pipes' : pipes'[e] = tbl[j]
  <2>1. /\ \A e \in DOMAIN pipes' : \E j \in DOMAIN tbl :
              /\ pipes'[e] = tbl[j]
              /\ (ReadIndex # 0 /\ tbl[ReadIndex].counter = 0) => j # ReadIndex
        /\ \A j \in DOMAIN tbl :
              \/ ReadIndex # 0 /\ tbl[ReadIndex].counter = 0 /\ j = ReadIndex
              \/ \E e \in DOMAIN pipes' : pipes'[e] = tbl[j]
    <3> DEFINE t == erase_pipe(tbl, ReadIndex)
    <3>1. /\ \A e \in DOMAIN t : \E j \in DOMAIN tbl :
                /\ t[e] = tbl[j]
                /\ (ReadIndex # 0 /\ tbl[ReadIndex].counter = 0) => j # ReadIndex
          /\ \A j \in DOMAIN tbl :
                \/ ReadIndex # 0 /\ tbl[ReadIndex].counter = 0 /\ j = ReadIndex
                \/ \E e \in DOMAIN t : t[e] = tbl[j]
      BY <1>3, EraseTable, EntriesAreEntries
    <3>2. pipes' = t
      BY <1>2
    <3> HIDE DEF t
    <3>. QED  BY <3>1, <3>2, Zenon
  <2>2. \A j \in DOMAIN tbl : tbl[j].counter = 0 =>
            ReadIndex # 0 /\ tbl[ReadIndex].counter = 0 /\ j = ReadIndex
    <3> SUFFICES ASSUME NEW j \in DOMAIN tbl, tbl[j].counter = 0
                 PROVE  ReadIndex # 0 /\ tbl[ReadIndex].counter = 0 /\ j = ReadIndex
      OBVIOUS
    <3>1. j \in DOMAIN pipes
      <4>1. IsNew => new.counter # 0
        BY DEF IsNew
      <4>. QED  BY <1>3, <4>1
    <3>2. Updated[j].counter = 0
      BY <1>3, <3>1
    <3>3. ReadIndex # 0 /\ ReadIndex \in DOMAIN pipes /\ Updated[ReadIndex].counter = 0
      BY <1>1, <3>1, <3>2
    <3>4. tbl[ReadIndex].counter = 0
      BY <1>3, <3>3
    <3>. QED  BY <1>3, <3>3, <3>4 DEF Distinct
  <2>. QED  BY <2>1, <2>2
<1>6. new.id = Now /\ new.counter = p.pipeN
  OBVIOUS
<1>7. \/ p.in = 0 /\ \A i \in DOMAIN pipes : pipes[i].counter # 1
      \/ \E i \in DOMAIN pipes : pipes[i].counter = 1 /\ pipes[i].id = p.in
  BY <1>1, <1>2
<1> HIDE DEF new
<1>8. \/ p.pipeN = 0 /\ p.out = 0
      \/ /\ p.pipeN > 0
         /\ \E w \in DOMAIN pipes :
               pipes[w].counter = p.pipeN + 1 /\ pipes[w].id = p.out
      \/ /\ p.pipeN > 0 /\ p.out = Now
         /\ \A i \in DOMAIN pipes : pipes[i].counter # p.pipeN + 1
         /\ \E e \in DOMAIN pipes' : pipes'[e].id = Now
  <2>1. CASE IsNew
    <3>1. PICK j \in DOMAIN tbl : tbl[j] = new
      BY <1>3, <2>1
    <3>2. \E e \in DOMAIN pipes' : pipes'[e].id = Now
      <4>1. tbl[j].counter # 0
        BY <1>6, <2>1, <3>1 DEF IsNew
      <4>. QED  BY <1>5, <1>6, <3>1, <4>1
    <3>3. \A i \in DOMAIN pipes : pipes[i].counter # p.pipeN + 1
      BY <1>1, <2>1 DEF IsNew
    <3>. QED  BY <2>1, <3>2, <3>3 DEF IsNew
  <2>2. CASE /\ p.pipeN \in Nat \ {0}
             /\ \E w \in DOMAIN Updated :
                   Updated[w].counter = p.pipeN /\ Updated[w].id = p.out
    BY <1>1, <2>2
  <2>. QED  BY <1>2, <2>1, <2>2
<1>9. ASSUME NEW e \in DOMAIN pipes'
      PROVE  \/ \E i \in DOMAIN pipes :
                   /\ pipes'[e].id = pipes[i].id
                   /\ pipes'[e].counter = pipes[i].counter - 1
                   /\ pipes[i].counter # 1
             \/ /\ p.pipeN > 0 /\ p.out = Now
                /\ pipes'[e].id = Now /\ pipes'[e].counter = p.pipeN
  <2>1. PICK j \in DOMAIN tbl : pipes'[e] = tbl[j] /\ tbl[j].counter # 0
    BY <1>5
  <2>2. CASE j \in DOMAIN pipes
    BY <1>1, <1>3, <2>1, <2>2
  <2>3. CASE IsNew /\ tbl[j] = new
    BY <1>6, <2>1, <2>3 DEF IsNew
  <2>. QED  BY <1>3, <2>2, <2>3
<1>10. ASSUME NEW i \in DOMAIN pipes, pipes[i].counter # 1
       PROVE  \E e \in DOMAIN pipes' : pipes'[e].id = pipes[i].id
  <2>1. i \in DOMAIN tbl /\ tbl[i] = Updated[i] /\ tbl[i].counter # 0
    BY <1>1, <1>3, <1>10
  <2>2. PICK e \in DOMAIN pipes' : pipes'[e] = tbl[i]
    BY <1>5, <2>1
  <2>. QED  BY <1>1, <2>1, <2>2
<1>. QED  BY <1>2, <1>7, <1>8, <1>9, <1>10 DEF Executed

(* Executing a command keeps the routing, part by part. *)
LEMMA ExecutedRoutes ==
    ASSUME TypeInv, RouteInv, NEW p, Executed(p)
    PROVE  RouteInv'
<1> DEFINE N == Len(procs)
<1>0. PICK m \in Nat : m = Now
  BY DEF TypeInv, TypeOK, Now
<1>1. N \in Nat /\ DOMAIN procs = 1..N /\ m = N + 1 /\ Now = m
  BY <1>0 DEF TypeInv, TypeOK, Now
<1>2. /\ DOMAIN procs' = DOMAIN procs \cup {m} /\ Len(procs') = N + 1
      /\ \A k \in DOMAIN procs : procs'[k] = procs[k]
      /\ procs'[m] = p
  <2>1. procs \in Seq(Procs \cup {p}) /\ procs' = Append(procs, p)
    BY DEF TypeInv, TypeOK, Executed, Record
  <2>. QED  BY <1>1, <2>1
<1>3. p.pipeN \in Nat
  BY DEF Executed
<1> HIDE DEF N
<1>4. \A k \in DOMAIN procs :
          /\ Sends(k)' <=> Sends(k)
          /\ Target(k)' = Target(k)
          /\ Creates(k) => Creates(k)'
          /\ procs[k].pipeN \in Nat /\ Target(k) \in Nat
  BY <1>1, <1>2 DEF Sends, Target, Creates, RouteInv, OutputIsRouted
<1>5. /\ Sends(m)' <=> p.pipeN > 0
      /\ Target(m)' = m + p.pipeN
      /\ m \notin DOMAIN procs
  BY <1>1, <1>2 DEF Sends, Target
<1>6. \A i \in DOMAIN pipes :
          /\ Creates(pipes[i].id) /\ pipes[i].id \in DOMAIN procs
          /\ pipes[i].counter = Target(pipes[i].id) - N
  BY DEF RouteInv, EntryIsPipe, Creates, N
<1>7. \A k \in DOMAIN procs : Sends(k) /\ Target(k) > N =>
          \E i \in DOMAIN pipes :
              pipes[i].id = procs[k].out /\ pipes[i].counter = Target(k) - N
  <2> SUFFICES ASSUME NEW k \in DOMAIN procs, Sends(k), Target(k) > N
               PROVE  \E i \in DOMAIN pipes :
                          pipes[i].id = procs[k].out /\ pipes[i].counter = Target(k) - N
    OBVIOUS
  <2>1. PICK i \in DOMAIN pipes : pipes[i].id = procs[k].out
    BY DEF RouteInv, PendingInTable, N
  <2>2. Target(procs[k].out) = Target(k)
    BY DEF RouteInv, OutputIsRouted
  <2>. QED  BY <1>6, <2>1, <2>2
<1>8. \/ p.pipeN = 0 /\ p.out = 0
      \/ /\ p.pipeN > 0
         /\ p.out \in DOMAIN procs /\ Creates(p.out) /\ Target(p.out) = m + p.pipeN
      \/ /\ p.pipeN > 0 /\ p.out = m
         /\ \A k \in DOMAIN procs : Sends(k) => Target(k) # m + p.pipeN
         /\ \E e \in DOMAIN pipes' : pipes'[e].id = m
  <2>1. CASE \E w \in DOMAIN pipes :
                 pipes[w].counter = p.pipeN + 1 /\ pipes[w].id = p.out
    <3>1. PICK w \in DOMAIN pipes :
              pipes[w].counter = p.pipeN + 1 /\ pipes[w].id = p.out
      BY <2>1
    <3>2. /\ p.out \in DOMAIN procs /\ Creates(p.out)
          /\ p.pipeN + 1 = Target(p.out) - N
      BY <1>6, <3>1
    <3>3. Target(p.out) = m + p.pipeN
      BY <1>1, <1>3, <1>4, <3>2
    <3>4. p.pipeN > 0 \/ (p.pipeN = 0 /\ p.out = 0)
      BY <1>1 DEF Executed
    <3>. QED  BY <3>2, <3>3, <3>4
  <2>2. CASE /\ p.pipeN > 0 /\ p.out = m
             /\ \A i \in DOMAIN pipes : pipes[i].counter # p.pipeN + 1
             /\ \E e \in DOMAIN pipes' : pipes'[e].id = m
    <3>1. ASSUME NEW k \in DOMAIN procs, Sends(k), Target(k) = m + p.pipeN
          PROVE  FALSE
      <4>1. Target(k) > N /\ Target(k) - N = p.pipeN + 1
        BY <1>1, <1>3, <3>1
      <4>. QED  BY <1>7, <2>2, <3>1, <4>1
    <3>. QED  BY <2>2, <3>1
  <2>. QED  BY <1>1, <2>1, <2>2 DEF Executed
<1>9. OutputIsRouted' /\ OnePipePerTarget'
  <2>1. \A k \in DOMAIN procs :
            /\ ~Sends(k) => procs[k].out = 0
            /\ Sends(k) => /\ procs[k].out \in DOMAIN procs /\ Creates(procs[k].out)
                           /\ Target(procs[k].out) = Target(k)
    BY DEF RouteInv, OutputIsRouted, Creates
  <2>2. ASSUME NEW k \in DOMAIN procs'
        PROVE  /\ procs'[k].pipeN \in Nat
               /\ ~Sends(k)' => procs'[k].out = 0
               /\ Sends(k)' => /\ Creates(procs[k].out)'
                               /\ Target(procs[k].out)' = Target(k)'
    <3>1. CASE k \in DOMAIN procs
      BY <1>2, <1>4, <2>1, <3>1
    <3>2. CASE k = m /\ p.out \in DOMAIN procs
      BY <1>2, <1>3, <1>4, <1>5, <1>8, <3>2
    <3>3. CASE k = m /\ p.out \notin DOMAIN procs
      BY <1>2, <1>3, <1>5, <1>8, <3>3 DEF Creates, Sends
    <3>. QED  BY <1>2, <3>1, <3>2, <3>3
  <2>3. \A j \in DOMAIN procs : Sends(j) /\ Target(j) = Target(m)' /\ p.pipeN > 0 =>
            procs[j].out = p.out
    <3> SUFFICES ASSUME NEW j \in DOMAIN procs, Sends(j), p.pipeN > 0,
                        Target(j) = m + p.pipeN
                 PROVE  procs[j].out = p.out
      BY <1>5
    <3>1. p.out \in DOMAIN procs /\ Creates(p.out) /\ Target(p.out) = Target(j)
      BY <1>8
    <3>. QED  BY <3>1 DEF RouteInv, OnePipePerTarget, Creates
  <2>4. OnePipePerTarget'
    <3> SUFFICES ASSUME NEW j \in DOMAIN procs', NEW k \in DOMAIN procs',
                        Sends(j)', Sends(k)', Target(j)' = Target(k)'
                 PROVE  procs'[j].out = procs'[k].out
      BY DEF OnePipePerTarget
    <3>1. CASE j \in DOMAIN procs /\ k \in DOMAIN procs
      BY <1>2, <1>4, <3>1 DEF RouteInv, OnePipePerTarget
    <3>2. CASE j = m \/ k = m
      BY <1>2, <1>4, <1>5, <2>3, <3>2
    <3>. QED  BY <1>2, <3>1, <3>2
  <2>. QED  BY <2>2, <2>4 DEF OutputIsRouted
<1>10. EntryIsPipe' /\ OverdueOnlyWithoutProcess'
  <2> SUFFICES ASSUME NEW e \in DOMAIN pipes'
               PROVE  /\ Creates(pipes[e].id)'
                      /\ pipes'[e].counter = Target(pipes[e].id)' - Len(procs')
                      /\ pipes'[e].counter <= 0 =>
                            /\ Len(procs') + pipes'[e].counter \in DOMAIN procs'
                            /\ procs'[Len(procs') + pipes'[e].counter].st = "none"
    BY DEF EntryIsPipe, OverdueOnlyWithoutProcess
  <2>1. CASE \E i \in DOMAIN pipes :
                 /\ pipes'[e].id = pipes[i].id
                 /\ pipes'[e].counter = pipes[i].counter - 1
                 /\ p.st = "none" \/ pipes[i].counter # 1
    <3>1. PICK i \in DOMAIN pipes :
              /\ pipes'[e].id = pipes[i].id
              /\ pipes'[e].counter = pipes[i].counter - 1
              /\ p.st = "none" \/ pipes[i].counter # 1
      BY <2>1
    <3>2. /\ pipes[i].id \in DOMAIN procs /\ Creates(pipes[i].id)
          /\ pipes[i].counter = Target(pipes[i].id) - N
          /\ Target(pipes[i].id) \in Nat
      BY <1>4, <1>6
    <3>3. Creates(pipes[e].id)' /\ Target(pipes[e].id)' = Target(pipes[i].id)
      BY <1>4, <3>1, <3>2
    <3>4. Len(procs') + pipes'[e].counter = N + pipes[i].counter
      BY <1>1, <1>2, <3>1, <3>2
    <3>5. pipes'[e].counter = Target(pipes[e].id)' - Len(procs')
      BY <1>1, <1>2, <3>1, <3>2, <3>3
    <3>6. CASE pipes[i].counter <= 0
      <4>1. /\ N + pipes[i].counter \in DOMAIN procs
            /\ procs[N + pipes[i].counter].st = "none"
        BY <3>6 DEF RouteInv, OverdueOnlyWithoutProcess, N
      <4>. QED  BY <1>2, <3>3, <3>4, <3>5, <4>1
    <3>7. CASE pipes[i].counter = 1
      BY <1>1, <1>2, <3>1, <3>3, <3>4, <3>5, <3>7
    <3>8. CASE pipes[i].counter > 1
      <4>1. pipes'[e].counter > 0 /\ pipes'[e].counter \in Int
        BY <1>1, <3>1, <3>2, <3>8
      <4>. QED  BY <3>3, <3>5, <4>1
    <3>. QED  BY <1>1, <3>2, <3>6, <3>7, <3>8
  <2>2. CASE /\ p.pipeN > 0 /\ p.out = m
             /\ pipes'[e].id = m /\ pipes'[e].counter = p.pipeN
    <3>1. Creates(pipes[e].id)'
      BY <1>2, <1>5, <2>2 DEF Creates
    <3>2. pipes'[e].counter = Target(pipes[e].id)' - Len(procs')
      BY <1>1, <1>2, <1>3, <1>5, <2>2
    <3>. QED  BY <1>3, <2>2, <3>1, <3>2
  <2>. QED  BY <1>1, <2>1, <2>2 DEF Executed
<1>11. PendingInTable'
  <2> SUFFICES ASSUME NEW k \in DOMAIN procs', Sends(k)', Target(k)' > Len(procs')
               PROVE  \E e \in DOMAIN pipes' : pipes'[e].id = procs'[k].out
    BY DEF PendingInTable
  <2>1. \A i \in DOMAIN pipes : pipes[i].counter # 1 =>
            \E e \in DOMAIN pipes' : pipes'[e].id = pipes[i].id
    BY DEF Executed
  <2>2. CASE k \in DOMAIN procs
    <3>1. Sends(k) /\ Target(k) > N + 1
      BY <1>2, <1>4, <2>2
    <3>2. PICK i \in DOMAIN pipes :
              pipes[i].id = procs[k].out /\ pipes[i].counter = Target(k) - N
      BY <1>1, <1>4, <1>7, <2>2, <3>1
    <3>3. pipes[i].counter # 1
      BY <1>1, <1>4, <2>2, <3>1, <3>2
    <3>. QED  BY <1>2, <2>1, <2>2, <3>2, <3>3
  <2>3. CASE k = m /\ p.out \in DOMAIN procs
    <3>1. p.pipeN > 0 /\ Creates(p.out) /\ Target(p.out) = m + p.pipeN
      BY <1>1, <1>5, <1>8, <2>3
    <3>2. Sends(p.out) /\ Target(p.out) > N + 1 /\ procs[p.out].out = p.out
      BY <1>1, <1>3, <3>1 DEF Creates
    <3>3. PICK i \in DOMAIN pipes :
              pipes[i].id = p.out /\ pipes[i].counter = Target(p.out) - N
      BY <1>1, <1>4, <1>7, <2>3, <3>2
    <3>4. pipes[i].counter # 1
      BY <1>1, <1>4, <2>3, <3>2, <3>3
    <3>. QED  BY <1>2, <2>1, <2>3, <3>3, <3>4
  <2>4. CASE k = m /\ p.out \notin DOMAIN procs
    BY <1>2, <1>3, <1>5, <1>8, <2>4
  <2>. QED  BY <1>2, <2>2, <2>3, <2>4
<1>12. \/ /\ p.in = 0
          /\ p.st = "none" \/ \A k \in DOMAIN procs : Sends(k) => Target(k) # m
       \/ p.in \in DOMAIN procs /\ Creates(p.in) /\ Target(p.in) = m
  <2>1. CASE \E i \in DOMAIN pipes : pipes[i].counter = 1 /\ pipes[i].id = p.in
    <3>1. PICK i \in DOMAIN pipes : pipes[i].counter = 1 /\ pipes[i].id = p.in
      BY <2>1
    <3>2. p.in \in DOMAIN procs /\ Creates(p.in) /\ 1 = Target(p.in) - N
      BY <1>6, <3>1
    <3>. QED  BY <1>1, <1>4, <3>2
  <2>2. CASE p.in = 0 /\ \A i \in DOMAIN pipes : pipes[i].counter # 1
    <3>1. ASSUME NEW k \in DOMAIN procs, Sends(k), Target(k) = m
          PROVE  FALSE
      <4>1. Target(k) > N /\ Target(k) - N = 1
        BY <1>1, <3>1
      <4>. QED  BY <1>7, <2>2, <3>1, <4>1
    <3>. QED  BY <2>2, <3>1
  <2>. QED  BY <1>1, <2>1, <2>2 DEF Executed
<1>13. InputIsRouted'
  <2> SUFFICES ASSUME NEW k \in DOMAIN procs', procs'[k].in # 0
               PROVE  Creates(procs[k].in)' /\ Target(procs[k].in)' = k
    BY DEF InputIsRouted
  <2>1. CASE k \in DOMAIN procs
    <3>1. /\ procs'[k].in = procs[k].in /\ procs[k].in \in DOMAIN procs
          /\ Creates(procs[k].in) /\ Target(procs[k].in) = k
      BY <1>2, <2>1 DEF RouteInv, InputIsRouted, Creates
    <3>. QED  BY <1>4, <3>1
  <2>2. CASE k = m
    BY <1>2, <1>4, <1>12, <2>2
  <2>. QED  BY <1>2, <2>1, <2>2
<1>14. NothingMissed'
  <2> SUFFICES ASSUME NEW j \in DOMAIN procs', NEW k \in DOMAIN procs',
                      Sends(j)', Target(j)' = k, procs'[k].st # "none"
               PROVE  procs'[k].in # 0
    BY DEF NothingMissed
  <2>1. j \in DOMAIN procs
    BY <1>1, <1>2, <1>3, <1>5
  <2>2. CASE k \in DOMAIN procs
    BY <1>2, <1>4, <2>1, <2>2 DEF RouteInv, NothingMissed
  <2>3. CASE k = m
    <3>1. Sends(j) /\ Target(j) = m /\ p.st # "none"
      BY <1>2, <1>4, <2>1, <2>3
    <3>2. p.in \in DOMAIN procs
      BY <1>12, <2>1, <3>1
    <3>. QED  BY <1>1, <1>2, <2>3, <3>2
  <2>. QED  BY <1>2, <2>2, <2>3
<1>15. NoneIsSilent'
  <2>1. p.st = "none" => p.in = 0 /\ p.pipeN = 0
    BY DEF Executed
  <2>. QED  BY <1>2, <2>1 DEF RouteInv, NoneIsSilent
<1>. QED  BY <1>9, <1>10, <1>11, <1>13, <1>14, <1>15 DEF RouteInv

(* A step that executes no command keeps the routing. *)
LEMMA QuietRoutes ==
    ASSUME TypeInv, RouteInv, Quiet
    PROVE  RouteInv'
<1>1. /\ pipes' = pipes /\ DOMAIN procs' = DOMAIN procs /\ Len(procs') = Len(procs)
      /\ \A k \in DOMAIN procs :
            /\ procs'[k].pipeN = procs[k].pipeN
            /\ procs'[k].in = procs[k].in
            /\ procs'[k].out = procs[k].out
            /\ procs'[k].st = "none" <=> procs[k].st = "none"
  BY DEF Quiet
<1>2. \A k \in DOMAIN procs :
          /\ Sends(k)' <=> Sends(k)
          /\ Target(k)' = Target(k)
          /\ Creates(k) => Creates(k)'
  BY <1>1 DEF Sends, Target, Creates
<1>3. OutputIsRouted'
  BY <1>1, <1>2 DEF RouteInv, OutputIsRouted, Creates
<1>4. OnePipePerTarget'
  BY <1>1, <1>2 DEF RouteInv, OnePipePerTarget
<1>5. EntryIsPipe'
  BY <1>1, <1>2 DEF RouteInv, EntryIsPipe, Creates
<1>6. PendingInTable'
  BY <1>1, <1>2 DEF RouteInv, PendingInTable
<1>7. InputIsRouted'
  BY <1>1, <1>2 DEF RouteInv, InputIsRouted, Creates
<1>8. NothingMissed'
  BY <1>1, <1>2 DEF RouteInv, NothingMissed
<1>9. NoneIsSilent'
  BY <1>1 DEF RouteInv, NoneIsSilent
<1>10. OverdueOnlyWithoutProcess'
  BY <1>1 DEF RouteInv, OverdueOnlyWithoutProcess
<1>. QED
  BY <1>3, <1>4, <1>5, <1>6, <1>7, <1>8, <1>9, <1>10 DEF RouteInv

(* The shell only ever drops commands from the line, or reads a new one. *)
LEMMA LineSteps ==
    ASSUME [Next]_vars
    PROVE  \/ line' = line \/ line' = <<>> \/ line' \in Lines
           \/ line # <<>> /\ line' = Tail(line)
<1>1. CASE \E k \in DOMAIN procs : ChildStep(k) \/ UserEndsInput(k)
  BY <1>1 DEF ChildStep, UserEndsInput, ChildSetup, ChildWrites, ChildPrints,
              ChildKilled, ChildReads, ChildReadsEof, ChildExits, shellVars
<1>2. CASE ReadLine \/ EndOfInput \/ EndOfLine \/ WaitPid \/ EndOfWait \/ child_handler
  BY <1>2 DEF ReadLine, EndOfInput, EndOfLine, WaitPid, EndOfWait, child_handler,
              shellVars
<1>3. CASE ExecBuiltin \/ ExecExit \/ PipeFails \/ OpenFails
  BY <1>3 DEF ExecBuiltin, ExecExit, PipeFails, OpenFails
<1>4. CASE ExecToOldPipe \/ ExecToNewPipe \/ ExecToFile \/ ExecSimple
  BY <1>4 DEF ExecToOldPipe, ExecToNewPipe, ExecToFile, ExecSimple, Fork
<1>5. CASE UNCHANGED vars
  BY <1>5 DEF vars
<1>. QED  BY <1>1, <1>2, <1>3, <1>4, <1>5 DEF Next, ShellStep

Inv == TypeInv /\ RouteInv /\ DistanceInv

LEMMA InitInv == Init => Inv
<1>. SUFFICES ASSUME Init  PROVE Inv
  OBVIOUS
<1>1. DOMAIN procs = {} /\ DOMAIN pipes = {} /\ DOMAIN line = {}
  BY DEF Init
<1>2. RouteInv
  BY <1>1 DEF RouteInv, OutputIsRouted, OnePipePerTarget, EntryIsPipe, PendingInTable,
              InputIsRouted, NothingMissed, NoneIsSilent, OverdueOnlyWithoutProcess
<1>. QED  BY <1>1, <1>2, InitTyped DEF Inv, DistanceInv

LEMMA DistanceStep ==
    ASSUME Inv, [Next]_vars
    PROVE  DistanceInv'
<1>1. line \in Seq(Commands) /\ procs \in Seq(Procs)
  BY DEF Inv, TypeInv, TypeOK
<1>2. ASSUME NEW i \in DOMAIN line'
      PROVE  pipeN(line'[i]) \in Distances
  <2>1. CASE line' = line
    BY <1>2, <2>1 DEF Inv, DistanceInv
  <2>2. CASE line' = <<>>
    BY <1>2, <2>2
  <2>3. CASE line' \in Lines
    BY <1>2, <2>3 DEF Distances
  <2>4. CASE line # <<>> /\ line' = Tail(line)
    <3>1. i + 1 \in DOMAIN line /\ line'[i] = line[i + 1]
      BY <1>1, <1>2, <2>4
    <3>. QED  BY <3>1 DEF Inv, DistanceInv
  <2>. QED  BY <2>1, <2>2, <2>3, <2>4, LineSteps
<1>3. \A k \in DOMAIN procs' : procs'[k].pipeN \in Distances \cup {0}
  <2>1. CASE Quiet
    BY <2>1 DEF Quiet, Inv, DistanceInv
  <2>2. ASSUME NEW p, Record(p), p.pipeN \in Distances \cup {0}
        PROVE  \A k \in DOMAIN procs' : procs'[k].pipeN \in Distances \cup {0}
    <3>1. procs \in Seq(Procs \cup {p}) /\ procs' = Append(procs, p)
      BY <1>1, <2>2 DEF Record
    <3>2. /\ DOMAIN procs' = DOMAIN procs \cup {Len(procs) + 1}
          /\ \A k \in DOMAIN procs : procs'[k] = procs[k]
          /\ procs'[Len(procs) + 1] = p
      BY <3>1
    <3>. QED  BY <2>2, <3>2 DEF Inv, DistanceInv
  <2>3. CASE \E p \in Procs : ExecNone(p)
    BY <2>2, <2>3 DEF ExecNone
  <2>4. CASE \E p, tbl : ExecFork(p, tbl)
    <3>1. PICK p, tbl : ExecFork(p, tbl)
      BY <2>4
    <3>2. line # <<>> /\ p.pipeN \in {0, pipeN(Head(line))} /\ Record(p)
      BY <3>1 DEF ExecFork
    <3>3. 1 \in DOMAIN line /\ Head(line) = line[1]
      BY <1>1, <3>2
    <3>4. pipeN(line[1]) \in Distances
      BY <3>3 DEF Inv, DistanceInv
    <3>. QED  BY <2>2, <3>2, <3>3, <3>4
  <2>. QED  BY <2>1, <2>3, <2>4, StepKinds DEF Inv
<1>. QED  BY <1>2, <1>3 DEF DistanceInv

LEMMA NextInv == Inv /\ [Next]_vars => Inv'
<1>. SUFFICES ASSUME Inv, [Next]_vars  PROVE Inv'
  OBVIOUS
<1>1. TypeInv' /\ DistanceInv'
  BY StepKinds, DistanceStep DEF Inv
<1>2. CASE Quiet
  BY <1>1, <1>2, QuietRoutes DEF Inv
<1>3. CASE \E p \in Procs : ExecNone(p)
  BY <1>1, <1>3, NoneExecuted, ExecutedRoutes DEF Inv
<1>4. CASE \E p, tbl : ExecFork(p, tbl)
  BY <1>1, <1>4, ForkExecuted, ExecutedRoutes DEF Inv
<1>. QED  BY <1>2, <1>3, <1>4, StepKinds DEF Inv

(* The shell leaks no pipe but those due at a command without a process,   *)
(* for every input: the other entries of the table are still to be read.   *)
THEOREM LeaksOnlyUnread == Spec => []OverdueOnlyWithoutProcess
<1>1. Inv => OverdueOnlyWithoutProcess
  BY DEF Inv, RouteInv
<1>. QED  BY <1>1, InitInv, NextInv, PTL DEF Spec

(******************************* Refinement *******************************)

(* The variables of PipeRouting, as NpShell instantiates them. *)
Dest == [k \in DOMAIN procs |->
            IF procs[k].pipeN = 0 THEN 0 ELSE k + procs[k].pipeN]

Heard == [k \in DOMAIN procs |->
            IF procs[k].in = 0 THEN {}
            ELSE {j \in DOMAIN procs : procs[j].out = procs[k].in}]

(* The writers of the pipe a process reads are those that were sent to it. *)
HeardAreSent ==
    \A k \in DOMAIN procs :
        Heard[k] = IF procs[k].st = "none" THEN {}
                   ELSE {j \in DOMAIN procs : Sends(j) /\ Target(j) = k}

LEMMA HeardBySent == Inv => HeardAreSent
<1>. SUFFICES ASSUME Inv, NEW k \in DOMAIN procs
              PROVE  Heard[k] = IF procs[k].st = "none" THEN {}
                                ELSE {j \in DOMAIN procs : Sends(j) /\ Target(j) = k}
  BY DEF HeardAreSent
<1>1. RouteInv /\ 0 \notin DOMAIN procs
  BY DEF Inv, TypeInv, TypeOK
<1>2. CASE procs[k].in = 0
  <2>1. Heard[k] = {}
    BY <1>2 DEF Heard
  <2>. QED  BY <1>1, <1>2, <2>1 DEF RouteInv, NothingMissed
<1>3. CASE procs[k].in # 0
  <2> DEFINE c == procs[k].in
  <2>1. Creates(c) /\ Target(c) = k /\ procs[k].st # "none"
    BY <1>1, <1>3 DEF RouteInv, InputIsRouted, NoneIsSilent
  <2>2. Heard[k] = {j \in DOMAIN procs : procs[j].out = c}
    BY <1>3 DEF Heard
  <2> HIDE DEF c
  <2>3. ASSUME NEW j \in DOMAIN procs
        PROVE  procs[j].out = c <=> Sends(j) /\ Target(j) = k
    <3>1. c \in DOMAIN procs /\ Sends(c) /\ procs[c].out = c /\ c # 0
      BY <1>1, <2>1 DEF Creates
    <3>2. ASSUME procs[j].out = c  PROVE Sends(j) /\ Target(j) = k
      BY <1>1, <2>1, <3>1, <3>2 DEF RouteInv, OutputIsRouted
    <3>3. ASSUME Sends(j), Target(j) = k  PROVE procs[j].out = c
      BY <1>1, <2>1, <3>1, <3>3 DEF RouteInv, OnePipePerTarget
    <3>. QED  BY <3>2, <3>3
  <2>. QED  BY <2>1, <2>2, <2>3
<1>. QED  BY <1>2, <1>3

(* A sequence that repeats s and then has x is Append(s, x). *)
LEMMA IsAppend ==
    ASSUME NEW S, NEW s \in Seq(S), NEW t, NEW x \in S,
           DOMAIN t = DOMAIN s \cup {Len(s) + 1}, t = [k \in DOMAIN t |-> t[k]],
           \A k \in DOMAIN s : t[k] = s[k],
           t[Len(s) + 1] = x
    PROVE  t = Append(s, x)
<1>1. /\ DOMAIN Append(s, x) = DOMAIN s \cup {Len(s) + 1}
      /\ \A k \in DOMAIN s : Append(s, x)[k] = s[k]
      /\ Append(s, x)[Len(s) + 1] = x
  OBVIOUS
<1> DEFINE a == Append(s, x)
<1>2. a \in Seq(S)
  OBVIOUS
<1> HIDE DEF a
<1>3. a = [k \in DOMAIN a |-> a[k]]
  BY <1>2
<1>4. DOMAIN t = DOMAIN a /\ \A k \in DOMAIN t : t[k] = a[k]
  BY <1>1 DEF a
<1>5. [k \in DOMAIN t |-> t[k]] = [k \in DOMAIN a |-> a[k]]
  BY <1>4
<1>6. t = a
  BY <1>3, <1>5
<1>. QED  BY <1>6 DEF a

LEMMA MappedTyped ==
    ASSUME Inv
    PROVE  /\ Dest \in Seq(Nat) /\ Heard \in Seq(SUBSET Nat)
           /\ Len(Dest) = Len(procs) /\ Len(Heard) = Len(procs)
           /\ DOMAIN Dest = DOMAIN procs /\ DOMAIN Heard = DOMAIN procs
           /\ \A k \in DOMAIN procs : \A n \in Nat \ {0} :
                 Dest[k] = n <=> Sends(k) /\ Target(k) = n
<1>1. /\ DOMAIN procs = 1..Len(procs) /\ Len(procs) \in Nat
      /\ \A k \in DOMAIN procs : procs[k].pipeN \in Nat
  BY DEF Inv, TypeInv, TypeOK, RouteInv, OutputIsRouted
<1>2. \A k \in DOMAIN procs : Dest[k] \in Nat /\ Heard[k] \in SUBSET Nat
  BY <1>1 DEF Dest, Heard
<1>3. Dest = [k \in 1..Len(procs) |-> Dest[k]] /\ Heard = [k \in 1..Len(procs) |-> Heard[k]]
  BY <1>1 DEF Dest, Heard
<1>4. Dest \in Seq(Nat) /\ Heard \in Seq(SUBSET Nat)
  BY <1>1, <1>2, <1>3
<1>5. DOMAIN Dest = DOMAIN procs /\ DOMAIN Heard = DOMAIN procs
  BY DEF Dest, Heard
<1>6. Len(Dest) = Len(procs) /\ Len(Heard) = Len(procs)
  BY <1>1, <1>4, <1>5
<1>7. \A k \in DOMAIN procs : \A n \in Nat \ {0} :
          Dest[k] = n <=> Sends(k) /\ Target(k) = n
  BY <1>1 DEF Dest, Sends, Target
<1>. QED  BY <1>4, <1>5, <1>6, <1>7

(* Executing a command appends to both what PipeRouting appends. *)
LEMMA ExecutedMaps ==
    ASSUME Inv, HeardAreSent, HeardAreSent', NEW p, Executed(p)
    PROVE  /\ Dest' = Append(Dest, IF p.pipeN = 0 THEN 0 ELSE Len(Dest) + 1 + p.pipeN)
           /\ Heard' = Append(Heard, IF p.st = "none" THEN {}
                                     ELSE {j \in DOMAIN Dest : Dest[j] = Len(Dest) + 1})
<1>0. PICK m \in Nat : m = Len(procs) + 1
  BY DEF Inv, TypeInv, TypeOK
<1>1. /\ DOMAIN procs = 1..Len(procs) /\ Len(procs) \in Nat /\ p.pipeN \in Nat
      /\ \A k \in DOMAIN procs : procs[k].pipeN \in Nat
  BY DEF Inv, TypeInv, TypeOK, RouteInv, OutputIsRouted, Executed
<1>2. /\ DOMAIN procs' = DOMAIN procs \cup {m}
      /\ \A k \in DOMAIN procs : procs'[k] = procs[k]
      /\ procs'[m] = p
  <2>1. procs \in Seq(Procs \cup {p}) /\ procs' = Append(procs, p)
    BY DEF Inv, TypeInv, TypeOK, Executed, Record
  <2>. QED  BY <1>0, <1>1, <2>1
<1>3. /\ Dest \in Seq(Nat) /\ Heard \in Seq(SUBSET Nat)
      /\ Len(Dest) = Len(procs) /\ Len(Heard) = Len(procs)
      /\ DOMAIN Dest = DOMAIN procs /\ DOMAIN Heard = DOMAIN procs
      /\ \A k \in DOMAIN procs : \A n \in Nat \ {0} :
            Dest[k] = n <=> Sends(k) /\ Target(k) = n
  BY MappedTyped
<1>4. Dest' = Append(Dest, IF p.pipeN = 0 THEN 0 ELSE m + p.pipeN)
  <2>1. /\ DOMAIN Dest' = DOMAIN procs' /\ Dest' = [k \in DOMAIN Dest' |-> Dest'[k]]
        /\ \A k \in DOMAIN procs : Dest'[k] = Dest[k]
        /\ Dest'[m] = IF p.pipeN = 0 THEN 0 ELSE m + p.pipeN
    BY <1>2 DEF Dest
  <2>2. (IF p.pipeN = 0 THEN 0 ELSE m + p.pipeN) \in Nat
    BY <1>1
  <2>. QED  BY <1>0, <1>2, <1>3, <2>1, <2>2, IsAppend
<1>5. ASSUME NEW j \in DOMAIN procs', NEW k \in DOMAIN procs'
      PROVE  /\ Sends(j)' /\ Target(j)' = k <=>
                   j \in DOMAIN procs /\ Sends(j) /\ Target(j) = k
  <2>1. CASE j \in DOMAIN procs
    BY <1>2, <2>1 DEF Sends, Target
  <2>2. CASE j = m
    BY <1>0, <1>1, <1>2, <2>2 DEF Sends, Target
  <2>. QED  BY <1>2, <2>1, <2>2
<1>6. \A k \in DOMAIN procs' :
          Heard'[k] = IF procs'[k].st = "none" THEN {}
                      ELSE {j \in DOMAIN procs : Sends(j) /\ Target(j) = k}
  BY <1>2, <1>5 DEF HeardAreSent
<1>7. Heard' = Append(Heard, IF p.st = "none" THEN {} ELSE {j \in DOMAIN Dest : Dest[j] = m})
  <2>1. DOMAIN Heard' = DOMAIN procs' /\ Heard' = [k \in DOMAIN Heard' |-> Heard'[k]]
    BY DEF Heard
  <2>2. \A k \in DOMAIN procs : Heard'[k] = Heard[k]
    BY <1>2, <1>6 DEF HeardAreSent
  <2>3. {j \in DOMAIN procs : Sends(j) /\ Target(j) = m} = {j \in DOMAIN Dest : Dest[j] = m}
    BY <1>0, <1>1, <1>3
  <2>4. Heard'[m] = IF p.st = "none" THEN {} ELSE {j \in DOMAIN Dest : Dest[j] = m}
    BY <1>2, <1>6, <2>3
  <2>5. (IF p.st = "none" THEN {} ELSE {j \in DOMAIN Dest : Dest[j] = m}) \in SUBSET Nat
    BY <1>1, <1>3
  <2>. QED  BY <1>0, <1>2, <1>3, <2>1, <2>2, <2>4, <2>5, IsAppend
<1>. QED  BY <1>0, <1>3, <1>4, <1>7

LEMMA RefinesInit == Init => Routing!Init
<1>. SUFFICES ASSUME Init  PROVE Routing!Init
  OBVIOUS
<1>1. procs = <<>>
  BY DEF Init
<1>. QED  BY <1>1 DEF Routing!Init

LEMMA RefinesNext ==
    ASSUME Inv, Inv', HeardAreSent, HeardAreSent', [Next]_vars
    PROVE  [Routing!Next]_<<Dest, Heard>>
<1>1. CASE Quiet
  <2>1. /\ DOMAIN procs' = DOMAIN procs
        /\ \A k \in DOMAIN procs :
              /\ procs'[k].pipeN = procs[k].pipeN
              /\ procs'[k].in = procs[k].in
              /\ procs'[k].out = procs[k].out
    BY <1>1 DEF Quiet
  <2>2. Dest' = Dest
    BY <2>1 DEF Dest
  <2>3. \A k \in DOMAIN procs : {j \in DOMAIN procs : procs'[j].out = procs'[k].in}
            = {j \in DOMAIN procs : procs[j].out = procs[k].in}
    BY <2>1
  <2>4. Heard' = Heard
    BY <2>1, <2>3 DEF Heard
  <2>. QED  BY <2>2, <2>4
<1>2. ASSUME NEW p, Executed(p)
      PROVE  Routing!Next
  <2>1. /\ Dest' = Append(Dest, IF p.pipeN = 0 THEN 0 ELSE Len(Dest) + 1 + p.pipeN)
        /\ Heard' = Append(Heard, IF p.st = "none" THEN {}
                                  ELSE {j \in DOMAIN Dest : Dest[j] = Len(Dest) + 1})
    BY <1>2, ExecutedMaps
  <2>2. CASE p.st = "none"
    <3>1. Dest' = Append(Dest, 0) /\ Heard' = Append(Heard, {})
      BY <1>2, <2>1, <2>2 DEF Executed
    <3>. QED  BY <3>1 DEF Routing!Next, Routing!Skip, Dest, Heard
  <2>3. CASE p.st # "none"
    <3>1. p.pipeN \in Distances \cup {0}
      <4>1. procs \in Seq(Procs \cup {p}) /\ procs' = Append(procs, p)
        BY <1>2 DEF Inv, TypeInv, TypeOK, Executed, Record
      <4>2. Len(procs) + 1 \in DOMAIN procs' /\ procs'[Len(procs) + 1] = p
        BY <4>1
      <4>. QED  BY <4>2 DEF Inv, DistanceInv
    <3>2. Heard' = Append(Heard, {j \in DOMAIN Dest : Dest[j] = Len(Dest) + 1})
      BY <2>1, <2>3
    <3>3. Routing!Start(p.pipeN)
      BY <2>1, <3>2 DEF Routing!Start, Routing!SentTo, Routing!Now, Dest, Heard
    <3>. QED  BY <3>1, <3>3 DEF Routing!Next
  <2>. QED  BY <2>2, <2>3
<1>3. CASE \E p \in Procs : ExecNone(p)
  BY <1>2, <1>3, NoneExecuted DEF Inv
<1>4. CASE \E p, tbl : ExecFork(p, tbl)
  BY <1>2, <1>4, ForkExecuted DEF Inv
<1>. QED  BY <1>1, <1>3, <1>4, StepKinds DEF Inv

(* The shell's table of counted-down pipes implements PipeRouting, for     *)
(* every input: each command hears exactly the commands sent to it.        *)
THEOREM RoutingCorrect == Spec => ImplementsRouting
<1>1. Init => Routing!Init
  BY RefinesInit
<1>2. Inv => HeardAreSent
  BY HeardBySent
<1>3. Inv /\ Inv' /\ HeardAreSent /\ HeardAreSent' /\ [Next]_vars
          => [Routing!Next]_<<Dest, Heard>>
  BY RefinesNext
<1>. QED
  BY <1>1, <1>2, <1>3, InitInv, NextInv, PTL
  DEF Spec, ImplementsRouting, Routing!Spec, Dest, Heard

----------------------------------------------------------------------------
(**************** What an end of file and a SIGPIPE tell *******************)

(* A live process holds the ends its standard input and output are on. *)
EndsHeld ==
    \A k \in DOMAIN procs : Alive(k) =>
        /\ procs[k].in # 0 => procs[k].in \in procs[k].rd
        /\ procs[k].out # 0 => procs[k].out \in procs[k].wr

(* A pipe that nobody came to read stays in the table. *)
UnreadKept ==
    \A k \in DOMAIN procs :
        Sends(k) /\ Target(k) \in DOMAIN procs /\ procs[Target(k)].st = "none" =>
            \E i \in DOMAIN pipes : pipes[i].id = procs[k].out

(* The two are what routing lacks to say who holds the ends of a pipe. *)
PipeInv == Inv /\ EndsHeld /\ UnreadKept

(* A process is forked with both ends of the two pipes it uses. *)
LEMMA ForkHolds ==
    ASSUME TypeInv, NEW p, NEW tbl, ExecFork(p, tbl)
    PROVE  /\ p.in # 0 => p.in \in p.rd
           /\ p.out # 0 => p.out \in p.wr
<1>1. /\ Updated \in Seq(Entries) /\ Len(Updated) \in Nat /\ DOMAIN Updated = 1..Len(Updated)
      /\ ReadIndex \in DOMAIN Updated \cup {0}
  BY UpdatedTable
<1>2. /\ p.rd = Ids(tbl) /\ p.wr = Ids(tbl)
      /\ p.in = IF ReadIndex = 0 THEN 0 ELSE Updated[ReadIndex].id
  BY DEF ExecFork
<1>3. CASE tbl = Updated
  <2>1. p.out # 0 => \E w \in DOMAIN Updated : Updated[w].id = p.out
    <3>1. CASE p.out = Now /\ tbl = Append(Updated, [id |-> Now, counter |-> p.pipeN])
      <4>1. Len(tbl) = Len(Updated) + 1
        BY <1>1, <3>1
      <4>. QED  BY <1>1, <1>3, <4>1
    <3>. QED  BY <3>1 DEF ExecFork
  <2>. QED  BY <1>1, <1>2, <1>3, <2>1 DEF Ids
<1>4. CASE /\ p.out = Now /\ p.pipeN \in Nat \ {0}
           /\ tbl = Append(Updated, [id |-> Now, counter |-> p.pipeN])
  <2> DEFINE new == [id |-> Now, counter |-> p.pipeN]
  <2>1. new.id = Now
    OBVIOUS
  <2> HIDE DEF new
  <2>2. tbl = Append(Updated, new)
    BY <1>4 DEF new
  <2>3. /\ \A i \in DOMAIN Updated : i \in DOMAIN tbl /\ tbl[i] = Updated[i]
        /\ Len(Updated) + 1 \in DOMAIN tbl /\ tbl[Len(Updated) + 1] = new
    BY <1>1, <2>2
  <2>. QED  BY <1>1, <1>2, <1>4, <2>1, <2>3 DEF Ids
<1>. QED  BY <1>3, <1>4 DEF ExecFork

(* Executing a command keeps both parts. *)
LEMMA ExecutedHolds ==
    ASSUME PipeInv, NEW p, Executed(p),
           p.st \in {"forked", "running"} =>
               /\ p.in # 0 => p.in \in p.rd
               /\ p.out # 0 => p.out \in p.wr
    PROVE  EndsHeld' /\ UnreadKept'
<1>0. PICK m \in Nat : m = Len(procs) + 1
  BY DEF PipeInv, Inv, TypeInv, TypeOK
<1>1. /\ DOMAIN procs = 1..Len(procs) /\ Len(procs) \in Nat /\ p.pipeN \in Nat
      /\ \A k \in DOMAIN procs : procs[k].pipeN \in Nat
  BY DEF PipeInv, Inv, TypeInv, TypeOK, RouteInv, OutputIsRouted, Executed
<1>2. /\ DOMAIN procs' = DOMAIN procs \cup {m}
      /\ \A k \in DOMAIN procs : procs'[k] = procs[k]
      /\ procs'[m] = p
  <2>1. procs \in Seq(Procs \cup {p}) /\ procs' = Append(procs, p)
    BY DEF PipeInv, Inv, TypeInv, TypeOK, Executed, Record
  <2>. QED  BY <1>0, <1>1, <2>1
<1>3. EndsHeld'
  BY <1>2 DEF PipeInv, EndsHeld, Alive
<1>4. ASSUME NEW k \in DOMAIN procs', Sends(k)', Target(k)' \in DOMAIN procs',
             procs'[Target(k)'].st = "none"
      PROVE  \E e \in DOMAIN pipes' : pipes'[e].id = procs'[k].out
  <2>1. k \in DOMAIN procs /\ Sends(k) /\ Target(k)' = Target(k) /\ Target(k) \in Nat
    <3>1. CASE k = m
      <4>1. p.pipeN > 0 /\ m + p.pipeN \in 1..m
        BY <1>0, <1>1, <1>2, <1>4, <3>1 DEF Sends, Target
      <4>. QED  BY <1>1, <4>1
    <3>2. CASE k \in DOMAIN procs
      BY <1>1, <1>2, <1>4, <3>2 DEF Sends, Target
    <3>. QED  BY <1>2, <3>1, <3>2
  <2>2. PICK i \in DOMAIN pipes : /\ pipes[i].id = procs[k].out
                                  /\ p.st = "none" \/ pipes[i].counter # 1
    <3>1. CASE Target(k) \in DOMAIN procs
      <4>1. PICK i \in DOMAIN pipes : pipes[i].id = procs[k].out
        BY <1>2, <1>4, <2>1, <3>1 DEF PipeInv, UnreadKept
      <4>2. pipes[i].counter = Target(k) - Len(procs)
        BY <2>1, <4>1 DEF PipeInv, Inv, RouteInv, OutputIsRouted, EntryIsPipe
      <4>3. pipes[i].counter # 1
        BY <1>1, <3>1, <4>2
      <4>. QED  BY <4>1, <4>3
    <3>2. CASE Target(k) = m
      <4>1. p.st = "none" /\ Target(k) > Len(procs)
        BY <1>0, <1>1, <1>2, <1>4, <2>1, <3>2
      <4>. QED  BY <2>1, <4>1 DEF PipeInv, Inv, RouteInv, PendingInTable
    <3>. QED  BY <1>2, <1>4, <2>1, <3>1, <3>2
  <2>3. \E e \in DOMAIN pipes' : pipes'[e].id = pipes[i].id
    BY <2>2 DEF Executed
  <2>. QED  BY <1>2, <2>1, <2>2, <2>3
<1>5. UnreadKept'
  BY <1>4 DEF UnreadKept
<1>. QED  BY <1>3, <1>5

(* A step that executes no command keeps the table and the commands. *)
LEMMA QuietKeepsUnread ==
    ASSUME PipeInv, Quiet
    PROVE  UnreadKept'
<1>1. \A k \in DOMAIN procs : (Sends(k)' <=> Sends(k)) /\ Target(k)' = Target(k)
  BY DEF Quiet, Sends, Target
<1>. QED  BY <1>1 DEF PipeInv, UnreadKept, Quiet

(***************************************************************************)
(* What a process may do with its ends: it closes the other two ends of    *)
(* its pipes, keeps what it has, or dies.                                  *)
(***************************************************************************)
LEMMA ChildHolds ==
    ASSUME PipeInv, NEW k \in DOMAIN procs, ChildStep(k) \/ UserEndsInput(k)
    PROVE  EndsHeld'
<1>1. procs \in Seq(Procs) /\ procs[k] \in Procs /\ DOMAIN procs = 1..Len(procs)
  BY DEF PipeInv, Inv, TypeInv, TypeOK
<1>2. ASSUME NEW q, procs' = [procs EXCEPT ![k] = q],
             q.st \in {"forked", "running"} =>
                 /\ q.in # 0 => q.in \in q.rd
                 /\ q.out # 0 => q.out \in q.wr
      PROVE  EndsHeld'
  <2>1. /\ DOMAIN procs' = DOMAIN procs
        /\ \A j \in DOMAIN procs : procs'[j] = IF j = k THEN q ELSE procs[j]
    BY <1>1, <1>2
  <2>. QED  BY <1>2, <2>1 DEF PipeInv, EndsHeld, Alive
<1>3. CASE ChildSetup(k)
  <2> DEFINE q == [procs[k] EXCEPT
          !.st = "running",
          !.rd = @ \ {procs[k].out},
          !.wr = @ \ {procs[k].in},
          !.left = Output(k)]
  <2>1. procs' = [procs EXCEPT ![k] = q] /\ procs[k].st = "forked"
    BY <1>3 DEF ChildSetup
  <2>2. /\ q.in = procs[k].in /\ q.out = procs[k].out
        /\ q.rd = procs[k].rd \ {procs[k].out} /\ q.wr = procs[k].wr \ {procs[k].in}
    BY <1>1 DEF Procs
  <2>3. /\ procs[k].in # 0 => procs[k].in \in procs[k].rd
        /\ procs[k].out # 0 => procs[k].out \in procs[k].wr
    BY <2>1 DEF PipeInv, EndsHeld, Alive
  <2>4. procs[k].in # 0 /\ procs[k].out # 0 => procs[k].in # procs[k].out
    <3>. SUFFICES ASSUME procs[k].in # 0, procs[k].out # 0, procs[k].in = procs[k].out
         PROVE  FALSE
      OBVIOUS
    <3>1. Target(procs[k].in) = k /\ Sends(k) /\ Target(procs[k].out) = Target(k)
      BY DEF PipeInv, Inv, RouteInv, InputIsRouted, OutputIsRouted
    <3>2. procs[k].pipeN \in Nat /\ procs[k].pipeN > 0 /\ k = k + procs[k].pipeN
      BY <1>1, <3>1 DEF Procs, Sends, Target
    <3>. QED  BY <1>1, <3>2
  <2> HIDE DEF q
  <2>. QED  BY <1>2, <2>1, <2>2, <2>3, <2>4
<1>4. ASSUME NEW x, procs[k].st = "running",
             procs' = [procs EXCEPT ![k] = [procs[k] EXCEPT !.left = x]]
      PROVE  EndsHeld'
  <2> DEFINE q == [procs[k] EXCEPT !.left = x]
  <2>1. /\ q.in = procs[k].in /\ q.out = procs[k].out
        /\ q.rd = procs[k].rd /\ q.wr = procs[k].wr
    BY <1>1 DEF Procs
  <2>2. /\ procs[k].in # 0 => procs[k].in \in procs[k].rd
        /\ procs[k].out # 0 => procs[k].out \in procs[k].wr
    BY <1>4 DEF PipeInv, EndsHeld, Alive
  <2>3. procs' = [procs EXCEPT ![k] = q]
    BY <1>4
  <2> HIDE DEF q
  <2>. QED  BY <1>2, <2>1, <2>2, <2>3
<1>5. CASE ChildWrites(k) \/ ChildPrints(k) \/ ChildReads(k)
  <2>1. procs[k].st = "running"
    BY <1>5 DEF ChildWrites, ChildPrints, ChildReads, Writing, Copying
  <2>2. \E x : procs' = [procs EXCEPT ![k] = [procs[k] EXCEPT !.left = x]]
    BY <1>5 DEF ChildWrites, ChildPrints, ChildReads
  <2>. QED  BY <1>4, <2>1, <2>2
<1>6. CASE ChildKilled(k) \/ ChildReadsEof(k) \/ ChildExits(k) \/ UserEndsInput(k)
  <2> DEFINE q == [procs[k] EXCEPT !.st = "zombie", !.rd = {}, !.wr = {}, !.left = 0]
  <2>1. procs' = [procs EXCEPT ![k] = q]
    BY <1>6 DEF ChildKilled, ChildReadsEof, ChildExits, UserEndsInput, Dies
  <2>2. q.st = "zombie"
    BY <1>1 DEF Procs
  <2> HIDE DEF q
  <2>. QED  BY <1>2, <2>1, <2>2
<1>. QED  BY <1>3, <1>5, <1>6 DEF ChildStep

(* The shell's other steps touch no process that is alive. *)
LEMMA ShellLeavesAlive ==
    ASSUME TypeInv, NEW k \in DOMAIN procs,
           \/ ReadLine \/ EndOfInput \/ EndOfLine \/ WaitPid \/ EndOfWait
           \/ child_handler \/ UNCHANGED vars
    PROVE  procs'[k] = procs[k] \/ procs'[k].st = "reaped"
<1>1. procs \in Seq(Procs) /\ procs[k] \in Procs
  BY DEF TypeInv, TypeOK
<1>2. CASE WaitPid
  <2>1. procs'[k] = procs[k] \/ procs'[k] = [procs[k] EXCEPT !.st = "reaped"]
    BY <1>1, <1>2 DEF WaitPid
  <2>2. [procs[k] EXCEPT !.st = "reaped"].st = "reaped"
    BY <1>1 DEF Procs
  <2>. QED  BY <2>1, <2>2
<1>3. CASE child_handler
  <2>1. procs'[k] = procs[k] \/ procs'[k] = [procs[k] EXCEPT !.st = "reaped"]
    BY <1>3 DEF child_handler
  <2>2. [procs[k] EXCEPT !.st = "reaped"].st = "reaped"
    BY <1>1 DEF Procs
  <2>. QED  BY <2>1, <2>2
<1>4. CASE ReadLine \/ EndOfInput \/ EndOfLine \/ EndOfWait \/ UNCHANGED vars
  BY <1>4 DEF ReadLine, EndOfInput, EndOfLine, EndOfWait, vars
<1>. QED  BY <1>2, <1>3, <1>4

LEMMA InitPipes == Init => PipeInv
<1>. SUFFICES ASSUME Init PROVE PipeInv
  OBVIOUS
<1>1. DOMAIN procs = {}
  BY DEF Init
<1>. QED  BY <1>1, InitInv DEF PipeInv, EndsHeld, UnreadKept

LEMMA NextPipes == PipeInv /\ [Next]_vars => PipeInv'
<1>. SUFFICES ASSUME PipeInv, [Next]_vars PROVE PipeInv'
  OBVIOUS
<1>1. Inv' /\ TypeInv
  BY NextInv DEF PipeInv, Inv
<1>2. CASE ExecBuiltin \/ ExecExit \/ PipeFails \/ OpenFails
  <2>1. PICK p \in Procs : ExecNone(p)
    BY <1>1, <1>2, ShellExecutesNone
  <2>2. Executed(p) /\ p.st = "none"
    BY <1>1, <2>1, NoneExecuted DEF ExecNone
  <2>. QED  BY <1>1, <2>2, ExecutedHolds DEF PipeInv
<1>3. CASE ExecToOldPipe \/ ExecToNewPipe \/ ExecToFile \/ ExecSimple
  <2>1. PICK p, tbl : ExecFork(p, tbl)
    BY <1>1, <1>3, ShellForks
  <2>. QED  BY <1>1, <2>1, ForkExecuted, ForkHolds, ExecutedHolds DEF PipeInv
<1>4. ASSUME NEW k \in DOMAIN procs, ChildStep(k) \/ UserEndsInput(k) PROVE PipeInv'
  BY <1>1, <1>4, ChildIsQuiet, ChildHolds, QuietKeepsUnread DEF PipeInv
<1>5. CASE \/ ReadLine \/ EndOfInput \/ EndOfLine \/ WaitPid \/ EndOfWait
           \/ child_handler \/ UNCHANGED vars
  <2>1. Quiet
    <3>1. CASE UNCHANGED vars
      BY <3>1 DEF vars, Quiet
    <3>. QED  BY <1>1, <1>5, <3>1, ShellIsQuiet
  <2>2. ASSUME NEW k \in DOMAIN procs', Alive(k)'
        PROVE  /\ procs'[k].in # 0 => procs'[k].in \in procs'[k].rd
               /\ procs'[k].out # 0 => procs'[k].out \in procs'[k].wr
    <3>1. k \in DOMAIN procs
      BY <2>1, <2>2 DEF Quiet
    <3>2. procs'[k] = procs[k]
      BY <1>1, <1>5, <2>2, <3>1, ShellLeavesAlive DEF Alive
    <3>. QED  BY <2>2, <3>1, <3>2 DEF PipeInv, EndsHeld, Alive
  <2>. QED  BY <1>1, <2>1, <2>2, QuietKeepsUnread DEF PipeInv, EndsHeld
<1>. QED  BY <1>2, <1>3, <1>4, <1>5 DEF Next, ShellStep

(* Only a process itself ends what it does. *)
LEMMA Ending ==
    ASSUME PipeInv, [Next]_vars, NEW k \in DOMAIN procs,
           procs[k].st = "running", procs'[k].st = "zombie"
    PROVE  ChildKilled(k) \/ ChildReadsEof(k) \/ ChildExits(k) \/ UserEndsInput(k)
<1>1. TypeInv /\ procs \in Seq(Procs)
  BY DEF PipeInv, Inv, TypeInv, TypeOK
<1>2. ASSUME NEW p, Record(p) PROVE FALSE
  <2>1. procs \in Seq(Procs \cup {p}) /\ procs' = Append(procs, p)
    BY <1>1, <1>2 DEF Record
  <2>2. procs'[k] = procs[k]
    BY <2>1
  <2>. QED  BY <2>2
<1>3. CASE \/ ExecBuiltin \/ ExecExit \/ PipeFails \/ OpenFails
           \/ ExecToOldPipe \/ ExecToNewPipe \/ ExecToFile \/ ExecSimple
  BY <1>1, <1>2, <1>3, ShellExecutesNone, ShellForks DEF ExecNone, ExecFork
<1>4. CASE \/ ReadLine \/ EndOfInput \/ EndOfLine \/ WaitPid \/ EndOfWait
           \/ child_handler \/ UNCHANGED vars
  BY <1>1, <1>4, ShellLeavesAlive
<1>5. ASSUME NEW j \in DOMAIN procs, ChildStep(j) \/ UserEndsInput(j)
      PROVE  ChildKilled(k) \/ ChildReadsEof(k) \/ ChildExits(k) \/ UserEndsInput(k)
  <2>1. ASSUME NEW q, procs' = [procs EXCEPT ![j] = q]
        PROVE  j = k /\ q.st = "zombie"
    BY <1>1, <2>1
  <2>2. CASE ChildKilled(j) \/ ChildReadsEof(j) \/ ChildExits(j) \/ UserEndsInput(j)
    <3>1. \E q : procs' = [procs EXCEPT ![j] = q]
      BY <2>2 DEF ChildKilled, ChildReadsEof, ChildExits, UserEndsInput, Dies
    <3>. QED  BY <2>1, <2>2, <3>1
  <2>3. CASE ChildSetup(j)
    <3>1. \E q : procs' = [procs EXCEPT ![j] = q] /\ procs[j].st = "forked"
      BY <2>3 DEF ChildSetup
    <3>. QED  BY <2>1, <3>1
  <2>4. CASE ChildWrites(j) \/ ChildPrints(j) \/ ChildReads(j)
    <3>1. PICK x : procs' = [procs EXCEPT ![j] = [procs[j] EXCEPT !.left = x]]
      BY <2>4 DEF ChildWrites, ChildPrints, ChildReads
    <3>2. [procs[j] EXCEPT !.left = x].st = procs[j].st
      <4>1. procs[j] \in Procs
        BY <1>1
      <4>. QED  BY <4>1 DEF Procs
    <3>. QED  BY <2>1, <3>1, <3>2
  <2>. QED  BY <1>5, <2>2, <2>3, <2>4 DEF ChildStep
<1>. QED  BY <1>3, <1>4, <1>5 DEF Next, ShellStep

(* A process that was sent to another writes the pipe the other reads. *)
LEMMA SamePipe ==
    ASSUME Inv, NEW j \in DOMAIN procs, NEW k \in DOMAIN procs,
           Sends(j), Target(j) = k, procs[k].in # 0
    PROVE  procs[j].out = procs[k].in
<1>1. Creates(procs[k].in) /\ Target(procs[k].in) = k
  BY DEF Inv, RouteInv, InputIsRouted
<1>. QED  BY <1>1 DEF Inv, RouteInv, OnePipePerTarget, Creates

(***************************************************************************)
(* npshell.cpp:129-183: a filter takes the end of its input only after     *)
(* every command sent to it has terminated and what they wrote was read,   *)
(* for any capacity and any order of the processes' steps: each writer     *)
(* keeps its write end as long as it lives, and nobody else needs to.      *)
(***************************************************************************)
THEOREM EofMeansEnd == Spec => EofAfterWriters
<1> DEFINE After ==
      \A k \in DOMAIN procs :
          Copying(k) /\ procs[k].in # 0 /\ procs'[k].st = "zombie" =>
              /\ buf[procs[k].in] = 0
              /\ \A j \in DOMAIN procs :
                    j + procs[j].pipeN = k /\ j # k => ~Alive(j)
<1>1. PipeInv /\ [Next]_vars => After
  <2>. SUFFICES ASSUME PipeInv, [Next]_vars, NEW k \in DOMAIN procs,
                       Copying(k), procs[k].in # 0, procs'[k].st = "zombie"
       PROVE  /\ buf[procs[k].in] = 0
              /\ \A j \in DOMAIN procs :
                    j + procs[j].pipeN = k /\ j # k => ~Alive(j)
    OBVIOUS
  <2>1. procs[k].st = "running" /\ procs[k].left = 0
    BY DEF Copying
  <2>2. ChildReadsEof(k)
    <3>1. ChildKilled(k) \/ ChildReadsEof(k) \/ ChildExits(k) \/ UserEndsInput(k)
      BY <2>1, Ending
    <3>. QED  BY <2>1, <3>1 DEF ChildKilled, Writing, ChildExits, UserEndsInput
  <2>3. buf[procs[k].in] = 0 /\ ~WriteEndOpen(procs[k].in)
    BY <2>2 DEF ChildReadsEof
  <2>4. ASSUME NEW j \in DOMAIN procs, j + procs[j].pipeN = k, j # k, Alive(j)
        PROVE  FALSE
    <3>1. Sends(j) /\ Target(j) = k
      <4>1. j \in Nat /\ procs[j].pipeN \in Nat
        BY DEF PipeInv, Inv, TypeInv, TypeOK, RouteInv, OutputIsRouted
      <4>. QED  BY <2>4, <4>1 DEF Sends, Target
    <3>2. procs[j].out = procs[k].in
      BY <3>1, SamePipe DEF PipeInv
    <3>3. procs[k].in \in procs[j].wr
      BY <2>4, <3>2 DEF PipeInv, EndsHeld
    <3>. QED  BY <2>3, <2>4, <3>3 DEF WriteEndOpen
  <2>. QED  BY <2>3, <2>4
<1>2. Spec => [][After]_vars
  BY <1>1, InitPipes, NextPipes, PTL DEF Spec
<1>. QED  BY <1>2 DEF EofAfterWriters

(***************************************************************************)
(* npshell.cpp:129-183: SIGPIPE kills a writer only when the shell is gone *)
(* or when its reader was started and has terminated: until then the shell *)
(* or the reader holds the read end, whatever was typed in between.        *)
(***************************************************************************)
THEOREM SigpipeMeansEnd == Spec => SigpipeOnlyAfterReader
<1> DEFINE After ==
      \A k \in DOMAIN procs :
          Writing(k) /\ procs'[k].st = "zombie" =>
              \/ sh = "exited"
              \/ /\ k + procs[k].pipeN \in DOMAIN procs
                 /\ procs[k + procs[k].pipeN].st \in {"zombie", "reaped"}
<1>1. PipeInv /\ [Next]_vars => After
  <2>. SUFFICES ASSUME PipeInv, [Next]_vars, NEW k \in DOMAIN procs,
                       Writing(k), procs'[k].st = "zombie", sh # "exited"
       PROVE  /\ Target(k) \in DOMAIN procs
              /\ procs[Target(k)].st \in {"zombie", "reaped"}
    BY DEF Target
  <2>1. procs[k].st = "running" /\ procs[k].left > 0 /\ procs[k].out # 0
    BY DEF Writing
  <2>2. /\ procs \in Seq(Procs) /\ DOMAIN procs = 1..Len(procs) /\ Len(procs) \in Nat
        /\ procs[k].pipeN \in Nat
    BY DEF PipeInv, Inv, TypeInv, TypeOK, RouteInv, OutputIsRouted
  <2>3. ~ReadEndOpen(procs[k].out)
    <3>1. ChildKilled(k) \/ ChildReadsEof(k) \/ ChildExits(k) \/ UserEndsInput(k)
      BY <2>1, Ending
    <3>2. procs[k].left # 0
      BY <2>1
    <3>. QED  BY <3>1, <3>2 DEF ChildKilled, ChildReadsEof, ChildExits, UserEndsInput, Copying
  <2>4. ~ \E i \in DOMAIN pipes : pipes[i].id = procs[k].out
    BY <2>3 DEF ReadEndOpen, ShellHolds, Ids
  <2>5. Sends(k)
    BY <2>1 DEF PipeInv, Inv, RouteInv, OutputIsRouted
  <2>6. Target(k) \in DOMAIN procs
    <3>1. ~(Target(k) > Len(procs))
      BY <2>4, <2>5 DEF PipeInv, Inv, RouteInv, PendingInTable
    <3>. QED  BY <2>2, <3>1 DEF Target
  <2>7. procs[Target(k)].st # "none"
    BY <2>4, <2>5, <2>6 DEF PipeInv, UnreadKept
  <2>8. procs[Target(k)].in # 0
    BY <2>5, <2>6, <2>7 DEF PipeInv, Inv, RouteInv, NothingMissed
  <2>9. procs[k].out = procs[Target(k)].in
    BY <2>5, <2>6, <2>8, SamePipe DEF PipeInv
  <2>10. ~Alive(Target(k))
    BY <2>3, <2>6, <2>8, <2>9 DEF PipeInv, EndsHeld, ReadEndOpen
  <2>11. procs[Target(k)].st \in ProcStates
    <3>1. procs[Target(k)] \in Procs
      BY <2>2, <2>6
    <3>. QED  BY <3>1 DEF Procs
  <2>. QED  BY <2>6, <2>7, <2>10, <2>11 DEF Alive, ProcStates
<1>2. Spec => [][After]_vars
  BY <1>1, InitPipes, NextPipes, PTL DEF Spec
<1>. QED  BY <1>2 DEF SigpipeOnlyAfterReader
=============================================================================
