-------------------------- MODULE SingleProcProofs --------------------------
(***************************************************************************)
(* Theorems about np_single_proc, for every set of command lines, any      *)
(* number of users and of descriptors.                                     *)
(***************************************************************************)
EXTENDS SingleProc, SequenceTheorems, TLAPS

(********************************* Typing *********************************)

Entries == [readfd : Fds, writefd : Fds, counter : Int]
Distinct(tbl) ==
    \A i, j \in DOMAIN tbl : tbl[i].counter = tbl[j].counter => i = j
Tables == {t \in Seq(Entries) : Distinct(t)}
Rows == [Users -> {-1} \cup Fds]
Environments == [EnvVars -> EnvValues \cup {"unset"}]

SlotRecords ==
    [uid : {-1} \cup Users, fd : {-1} \cup Fds,
     nickname : Names \cup {"", "(no name)"},
     sent_fd : Rows, send_fd : Rows, npipes : Tables, env : Environments]

Kinds == {"closed", "sock", "dead", "ur", "uw", "nr", "nw", "file", "null"}
Objects == [kind : Kinds, a : Nat, b : Nat]

CommandLines ==
    [pc : {"idle", "cmd", "out"}, fd : {0} \cup Fds, uid : {0} \cup Users,
     line : Seq(Commands), readfd : {0} \cup Fds]

TypeInv ==
    /\ status \in {"up", "exited", "killed", "interrupted", "undefined"}
    /\ slots \in [Users -> SlotRecords]
    /\ \A u \in Users : slots[u].uid \in {-1, u}
    /\ afds \subseteq Fds
    /\ fd_uid_map \in [Fds -> Int]
    /\ fdt \in [Fds -> Objects]
    /\ penv \in Environments
    /\ cur \in CommandLines
    /\ cur.pc = "idle" => cur = Idle
    /\ cur.pc # "idle" => cur.uid \in Users
    /\ cur.pc = "out" => cur.line # <<>> /\ Cmd.prog = "run" /\ InBounds

(* The tables. *)
LEMMA FdsArePositive == Fds \subseteq Nat /\ \A f \in Fds : f > 3
<1>1. FdMax \in Nat
  BY SingleProcAssumption
<1>. QED  BY <1>1 DEF Fds

LEMMA PairPositive == \A p \in Fds \X Fds : p[1] > 0 /\ p[2] > 0
<1> SUFFICES ASSUME NEW p \in Fds \X Fds PROVE p[1] > 0 /\ p[2] > 0
  OBVIOUS
<1>1. p[1] \in Fds /\ p[2] \in Fds
  OBVIOUS
<1>2. \A f \in Fds : f > 0
  BY FdsArePositive
<1>. QED  BY <1>1, <1>2

LEMMA PositiveIsFd == \A x \in {-1} \cup Fds : x > 0 <=> x \in Fds
BY FdsArePositive

LEMMA UpdateKeepsTable ==
    ASSUME NEW t \in Tables
    PROVE  /\ pipes_update(t) \in Tables
           /\ DOMAIN pipes_update(t) = DOMAIN t
           /\ \A i \in DOMAIN t : /\ pipes_update(t)[i].readfd = t[i].readfd
                                  /\ pipes_update(t)[i].writefd = t[i].writefd
<1>. DEFINE u == pipes_update(t)
<1>1. t \in Seq(Entries) /\ Distinct(t) /\ DOMAIN t = 1..Len(t) /\ Len(t) \in Nat
  BY DEF Tables
<1>2. u = [i \in 1..Len(t) |-> [t[i] EXCEPT !.counter = @ - 1]]
  BY <1>1 DEF pipes_update
<1>3. ASSUME NEW i \in 1..Len(t)
      PROVE  /\ u[i] \in Entries /\ t[i].counter \in Int /\ u[i].counter = t[i].counter - 1
             /\ u[i].readfd = t[i].readfd /\ u[i].writefd = t[i].writefd
  <2>1. t[i] \in Entries
    BY <1>1
  <2>. QED  BY <1>2, <2>1 DEF Entries
<1>. HIDE DEF u
<1>4. DOMAIN u = DOMAIN t /\ u \in Seq(Entries)
  <2>1. u \in [1..Len(t) -> Entries]
    <3>1. DOMAIN u = 1..Len(t) /\ u = [i \in 1..Len(t) |-> u[i]]
      BY <1>2
    <3>2. \A i \in 1..Len(t) : u[i] \in Entries
      BY <1>3
    <3>. QED  BY <3>1, <3>2
  <2>2. u \in Seq(Entries)
    BY <1>1, <2>1
  <2>. QED  BY <1>1, <2>1, <2>2
<1>5. Distinct(u)
  <2>. SUFFICES ASSUME NEW i \in 1..Len(t), NEW j \in 1..Len(t), u[i].counter = u[j].counter
                PROVE  i = j
    BY <1>1, <1>4 DEF Distinct
  <2>1. t[i].counter = t[j].counter
    BY <1>3
  <2>. QED  BY <1>1, <2>1 DEF Distinct
<1>6. u \in Tables
  BY <1>4, <1>5 DEF Tables
<1>. QED  BY <1>1, <1>3, <1>4, <1>6 DEF u

(* What a search finds. *)
LEMMA SearchInTable ==
    ASSUME NEW t \in Tables, NEW n \in Int
    PROVE  /\ FirstWithCounter(t, n) \in DOMAIN t \cup {0}
           /\ FirstWithCounter(t, n) # 0 => t[FirstWithCounter(t, n)].counter = n
           /\ FirstWithCounter(t, n) = 0 => \A i \in DOMAIN t : t[i].counter # n
<1>1. t \in Seq(Entries) /\ Distinct(t) /\ DOMAIN t \subseteq Nat \ {0}
  BY DEF Tables
<1>2. CASE PositionsWith(t, n) = {}
  BY <1>2 DEF FirstWithCounter, PositionsWith
<1>3. CASE PositionsWith(t, n) # {}
  <2>1. PICK i \in DOMAIN t : PositionsWith(t, n) = {i} /\ t[i].counter = n
    BY <1>1, <1>3 DEF PositionsWith, Distinct
  <2>2. i \in Nat \ {0}
    BY <1>1
  <2>3. Min(PositionsWith(t, n)) = i
    BY <2>1, <2>2 DEF Min
  <2>. QED  BY <1>3, <2>1, <2>2, <2>3 DEF FirstWithCounter
<1>. QED  BY <1>2, <1>3

(* The elements of RemoveAt(s, k) are those of s at the other positions. *)
LEMMA Removed ==
    ASSUME NEW S, NEW s \in Seq(S), NEW k \in 1..Len(s)
    PROVE  /\ RemoveAt(s, k) \in Seq(S) /\ DOMAIN RemoveAt(s, k) = 1..Len(s)-1
           /\ \A i \in 1..Len(s)-1 : RemoveAt(s, k)[i] = s[IF i < k THEN i ELSE i+1]
<1>. DEFINE a == SubSeq(s, 1, k-1)
            b == SubSeq(s, k+1, Len(s))
<1>1. /\ a \in Seq(S) /\ Len(a) = k-1 /\ \A i \in 1..k-1 : a[i] = s[i]
      /\ b \in Seq(S) /\ Len(b) = Len(s) - k /\ \A i \in 1..Len(s)-k : b[i] = s[k+i]
      /\ Len(s) \in Nat /\ k \in Nat
  OBVIOUS
<1>2. RemoveAt(s, k) = a \o b
  BY DEF RemoveAt
<1>. HIDE DEF a, b
<1>3. a \o b \in Seq(S) /\ Len(a \o b) = Len(a) + Len(b)
  BY <1>1, ConcatProperties
<1>4. ASSUME NEW i \in 1..Len(s)-1
      PROVE  (a \o b)[i] = s[IF i < k THEN i ELSE i+1]
  <2>1. CASE i < k
    BY <1>1, <2>1
  <2>2. CASE ~(i < k)
    <3>1. i - Len(a) \in 1..Len(s)-k /\ k + (i - Len(a)) = i + 1
      BY <1>1, <2>2
    <3>2. (a \o b)[i] = b[i - Len(a)]
      BY <1>1, <2>2
    <3>. QED  BY <1>1, <2>2, <3>1, <3>2
  <2>. QED  BY <2>1, <2>2
<1>5. DOMAIN (a \o b) = 1..Len(s)-1
  BY <1>1, <1>3
<1>. QED  BY <1>2, <1>3, <1>4, <1>5

(* What is due is erased, and nothing else. *)
LEMMA EraseKeepsTable ==
    ASSUME NEW t \in Tables
    PROVE  /\ Erased(t) \in Tables
           /\ \A i \in DOMAIN Erased(t) : \E j \in DOMAIN t :
                 /\ Erased(t)[i] = t[j]
                 /\ pipe_for_reading(t) # 0 => j # pipe_for_reading(t)
<1>. DEFINE r == pipe_for_reading(t)
            u == RemoveAt(t, r)
<1>1. /\ r \in DOMAIN t \cup {0}
      /\ r # 0 => t[r].counter = 0
  BY SearchInTable DEF pipe_for_reading
<1>2. t \in Seq(Entries) /\ Distinct(t) /\ DOMAIN t = 1..Len(t) /\ Len(t) \in Nat
  BY DEF Tables
<1>3. CASE r = 0
  BY <1>3 DEF Erased, erase_pipe
<1>4. CASE r # 0
  <2>1. r \in 1..Len(t) /\ Erased(t) = u
    <3>1. Erased(t) = erase_pipe(t, r)
      BY DEF Erased
    <3>2. erase_pipe(t, r) = u
      BY <1>1, <1>4 DEF erase_pipe
    <3>. QED  BY <1>1, <1>2, <1>4, <3>1, <3>2
  <2>2. /\ u \in Seq(Entries) /\ DOMAIN u = 1..Len(t)-1
        /\ \A i \in 1..Len(t)-1 : u[i] = t[IF i < r THEN i ELSE i+1]
    BY <1>2, <2>1, Removed
  <2>. HIDE DEF r, u
  <2>3. ASSUME NEW i \in 1..Len(t)-1
        PROVE  (IF i < r THEN i ELSE i+1) \in DOMAIN t \ {r}
    BY <1>2, <2>1
  <2>4. Distinct(u)
    <3>. SUFFICES ASSUME NEW i \in 1..Len(t)-1, NEW j \in 1..Len(t)-1, u[i].counter = u[j].counter
                  PROVE  i = j
      BY <2>2 DEF Distinct
    <3>1. (IF i < r THEN i ELSE i+1) = (IF j < r THEN j ELSE j+1)
      BY <1>2, <2>2, <2>3 DEF Distinct
    <3>. QED  BY <1>2, <2>1, <3>1
  <2>5. u \in Tables
    BY <2>2, <2>4 DEF Tables
  <2>6. \A i \in DOMAIN u : \E j \in DOMAIN t : u[i] = t[j] /\ j # r
    BY <2>2, <2>3
  <2>. QED  BY <2>1, <2>5, <2>6 DEF r
<1>. QED  BY <1>3, <1>4

LEMMA AppendKeepsTable ==
    ASSUME NEW t \in Tables, NEW e \in Entries, \A i \in DOMAIN t : t[i].counter # e.counter
    PROVE  /\ Append(t, e) \in Tables
           /\ DOMAIN Append(t, e) = DOMAIN t \cup {Len(t) + 1}
           /\ \A i \in DOMAIN t : Append(t, e)[i] = t[i]
           /\ Append(t, e)[Len(t) + 1] = e
<1>1. t \in Seq(Entries) /\ Distinct(t) /\ Len(t) \in Nat
  BY DEF Tables
<1>2. /\ Append(t, e) \in Seq(Entries)
      /\ DOMAIN Append(t, e) = 1..Len(t)+1 /\ DOMAIN t = 1..Len(t)
      /\ \A i \in 1..Len(t) : Append(t, e)[i] = t[i]
      /\ Append(t, e)[Len(t) + 1] = e
  BY <1>1
<1>3. Distinct(Append(t, e))
  BY <1>1, <1>2 DEF Distinct
<1>. QED  BY <1>1, <1>2, <1>3 DEF Tables

(*************************** Slots and their steps *************************)

(* Only what belongs to the shell of user u changes. *)
ShellOnly(u) ==
    \A v \in Users :
        /\ slots'[v].uid = slots[v].uid /\ slots'[v].fd = slots[v].fd
        /\ slots'[v].sent_fd = slots[v].sent_fd /\ slots'[v].send_fd = slots[v].send_fd
        /\ v # u => slots'[v] = slots[v]

LEMMA SetTable ==
    ASSUME slots \in [Users -> SlotRecords], NEW u \in Users, NEW t \in Tables,
           slots' = [slots EXCEPT ![u].npipes = t]
    PROVE  /\ slots' \in [Users -> SlotRecords] /\ ShellOnly(u)
           /\ slots'[u].npipes = t /\ slots'[u].env = slots[u].env
<1>1. slots[u] \in SlotRecords
  OBVIOUS
<1>2. [slots[u] EXCEPT !.npipes = t] \in SlotRecords
  BY <1>1 DEF SlotRecords
<1>3. \A v \in Users : slots'[v] = IF v = u THEN [slots[u] EXCEPT !.npipes = t] ELSE slots[v]
  OBVIOUS
<1>. QED  BY <1>1, <1>2, <1>3 DEF ShellOnly, SlotRecords

LEMMA SetTableAndName ==
    ASSUME slots \in [Users -> SlotRecords], NEW u \in Users, NEW t \in Tables,
           NEW n \in Names \cup {""},
           slots' = [slots EXCEPT ![u].npipes = t, ![u].nickname = n]
    PROVE  /\ slots' \in [Users -> SlotRecords] /\ ShellOnly(u)
           /\ slots'[u].npipes = t /\ slots'[u].env = slots[u].env
<1> DEFINE r == [slots[u] EXCEPT !.npipes = t, !.nickname = n]
<1>1. slots[u] \in SlotRecords
  OBVIOUS
<1>2. r \in SlotRecords
  BY <1>1 DEF SlotRecords
<1>3. \A v \in Users : slots'[v] = IF v = u THEN r ELSE slots[v]
  OBVIOUS
<1>4. /\ r.uid = slots[u].uid /\ r.fd = slots[u].fd /\ r.env = slots[u].env
      /\ r.sent_fd = slots[u].sent_fd /\ r.send_fd = slots[u].send_fd /\ r.npipes = t
  BY <1>1 DEF SlotRecords
<1> HIDE DEF r
<1>. QED  BY <1>2, <1>3, <1>4 DEF ShellOnly

WithEnv(u, t, x, y) == [slots EXCEPT ![u].npipes = t, ![u].env[x] = y]

LEMMA SetTableAndEnv ==
    ASSUME slots \in [Users -> SlotRecords], NEW u \in Users, NEW t \in Tables,
           NEW x \in EnvVars, NEW y \in EnvValues, slots' = WithEnv(u, t, x, y)
    PROVE  /\ slots' \in [Users -> SlotRecords] /\ ShellOnly(u)
           /\ slots'[u].npipes = t /\ slots'[u].env = [slots[u].env EXCEPT ![x] = y]
<1> DEFINE e == [slots[u].env EXCEPT ![x] = y]
           r == [slots[u] EXCEPT !.npipes = t, !.env = e]
<1>1. slots[u] \in SlotRecords
  OBVIOUS
<1>2. e \in Environments
  BY <1>1 DEF SlotRecords, Environments
<1>3. slots' = [slots EXCEPT ![u] = r]
  BY DEF WithEnv
<1> HIDE DEF e
<1>4. r \in SlotRecords
  BY <1>1, <1>2 DEF SlotRecords
<1>5. \A v \in Users : slots'[v] = IF v = u THEN r ELSE slots[v]
  BY <1>3
<1>6. /\ r.uid = slots[u].uid /\ r.fd = slots[u].fd /\ r.env = e
      /\ r.sent_fd = slots[u].sent_fd /\ r.send_fd = slots[u].send_fd /\ r.npipes = t
  BY <1>1 DEF SlotRecords
<1> HIDE DEF r
<1>. QED  BY <1>3, <1>4, <1>5, <1>6 DEF ShellOnly, e

(* The two records of the pipe from s to r become a and b, by a command of *)
(* u, who is one of the two. *)
RecordsPipe(s, r, a, b, u) ==
    \A v \in Users :
        /\ slots'[v].uid = slots[v].uid /\ slots'[v].fd = slots[v].fd
        /\ slots'[v].sent_fd = IF v = r THEN [slots[v].sent_fd EXCEPT ![s] = a] ELSE slots[v].sent_fd
        /\ slots'[v].send_fd = IF v = s THEN [slots[v].send_fd EXCEPT ![r] = b] ELSE slots[v].send_fd
        /\ slots'[v].nickname = slots[v].nickname /\ slots'[v].env = slots[v].env
        /\ v # u => slots'[v].npipes = slots[v].npipes
        /\ v \notin {s, r} => slots'[v] = slots[v]

WithRecords(s, r, a, b, u, t) ==
    [v \in Users |->
        [slots[v] EXCEPT
            !.npipes = IF v = u THEN t ELSE @,
            !.sent_fd[s] = IF v = r THEN a ELSE @,
            !.send_fd[r] = IF v = s THEN b ELSE @]]

LEMMA SetRecords ==
    ASSUME slots \in [Users -> SlotRecords],
           NEW s \in Users, NEW r \in Users, NEW u \in {s, r},
           NEW a \in {-1} \cup Fds, NEW b \in {-1} \cup Fds, NEW t \in Tables,
           slots' = WithRecords(s, r, a, b, u, t)
    PROVE  slots' \in [Users -> SlotRecords] /\ RecordsPipe(s, r, a, b, u) /\ slots'[u].npipes = t
<1>1. ASSUME NEW v \in Users
      PROVE  /\ slots'[v] \in SlotRecords
             /\ slots'[v].uid = slots[v].uid /\ slots'[v].fd = slots[v].fd
             /\ slots'[v].sent_fd = IF v = r THEN [slots[v].sent_fd EXCEPT ![s] = a]
                                    ELSE slots[v].sent_fd
             /\ slots'[v].send_fd = IF v = s THEN [slots[v].send_fd EXCEPT ![r] = b]
                                    ELSE slots[v].send_fd
             /\ v \notin {s, r} => slots'[v] = slots[v]
             /\ slots'[v].npipes = IF v = u THEN t ELSE slots[v].npipes
             /\ slots'[v].env = slots[v].env /\ slots'[v].nickname = slots[v].nickname
  <2>1. slots[v] \in SlotRecords
    OBVIOUS
  <2> DEFINE x == [slots[v].sent_fd EXCEPT ![s] = IF v = r THEN a ELSE @]
             y == [slots[v].send_fd EXCEPT ![r] = IF v = s THEN b ELSE @]
             z == IF v = u THEN t ELSE slots[v].npipes
             q == [slots[v] EXCEPT !.npipes = z, !.sent_fd = x, !.send_fd = y]
  <2>2. slots'[v] = q
    BY DEF WithRecords
  <2>3. slots[v].sent_fd \in Rows /\ slots[v].send_fd \in Rows /\ slots[v].npipes \in Tables
    BY <2>1 DEF SlotRecords
  <2>4. x \in Rows /\ y \in Rows
    BY <2>3 DEF Rows
  <2>5. /\ x = IF v = r THEN [slots[v].sent_fd EXCEPT ![s] = a] ELSE slots[v].sent_fd
        /\ y = IF v = s THEN [slots[v].send_fd EXCEPT ![r] = b] ELSE slots[v].send_fd
    BY <2>3 DEF Rows
  <2>6. z \in Tables
    BY <2>3
  <2> HIDE DEF x, y, z
  <2>7. /\ q \in SlotRecords /\ q.uid = slots[v].uid /\ q.fd = slots[v].fd
        /\ q.sent_fd = x /\ q.send_fd = y /\ q.npipes = z /\ q.env = slots[v].env
        /\ q.nickname = slots[v].nickname
    BY <2>1, <2>4, <2>6 DEF SlotRecords
  <2>8. ASSUME v \notin {s, r} PROVE q = slots[v]
    BY <2>1, <2>5, <2>7, <2>8 DEF SlotRecords, z
  <2>. QED  BY <2>2, <2>5, <2>7, <2>8 DEF z
<1>2. slots' \in [Users -> SlotRecords]
  BY <1>1 DEF WithRecords
<1>. QED  BY <1>1, <1>2 DEF RecordsPipe

LEMMA FreeSlotTyped == FreeSlot \in SlotRecords /\ NoFds \in Rows /\ EmptyEnv \in Environments
<1>1. <<>> \in Tables
  BY DEF Tables, Distinct
<1>. QED  BY <1>1 DEF FreeSlot, SlotRecords, NoFds, Rows, EmptyEnv, Environments

(* A client gets slot u, or none. *)
LogsIn(u, f) ==
    \A v \in Users :
        IF v = u
        THEN /\ slots'[v].uid = u /\ slots'[v].fd = f
             /\ slots'[v].sent_fd = NoFds /\ slots'[v].send_fd = NoFds
             /\ slots'[v].npipes = <<>>
        ELSE slots'[v] = slots[v]

LEMMA SetClient ==
    ASSUME slots \in [Users -> SlotRecords], NEW u, NEW f \in Fds, client_init(u, f)
    PROVE  slots' \in [Users -> SlotRecords] /\ LogsIn(u, f)
<1>1. CASE u \notin Users
  BY <1>1 DEF client_init, LogsIn
<1>2. CASE u \in Users
  <2>1. slots[u] \in SlotRecords
    BY <1>2
  <2> DEFINE e == [slots[u].env EXCEPT !["PATH"] = "bin:."]
             q == [slots[u] EXCEPT !.uid = u, !.nickname = "(no name)", !.fd = f,
                                   !.sent_fd = NoFds, !.send_fd = NoFds,
                                   !.env = e, !.npipes = <<>>]
  <2>2. slots' = [slots EXCEPT ![u] = q]
    BY <1>2 DEF client_init
  <2>3. e \in Environments
    <3>1. slots[u].env \in Environments
      BY <2>1 DEF SlotRecords
    <3>. QED  BY <3>1, SingleProcAssumption DEF Environments
  <2> HIDE DEF e
  <2>4. <<>> \in Tables
    BY DEF Tables, Distinct
  <2>5. /\ q \in SlotRecords /\ q.uid = u /\ q.fd = f
        /\ q.sent_fd = NoFds /\ q.send_fd = NoFds /\ q.npipes = <<>>
    BY <1>2, <2>1, <2>3, <2>4, FreeSlotTyped DEF SlotRecords
  <2>6. \A v \in Users : slots'[v] = IF v = u THEN q ELSE slots[v]
    BY <2>2
  <2> HIDE DEF q
  <2>. QED  BY <2>2, <2>5, <2>6 DEF LogsIn
<1>. QED  BY <1>1, <1>2

(* User u leaves: the others forget their pipes to and from u. *)
LogsOut(u) ==
    /\ slots'[u] = FreeSlot
    /\ \A v \in Users \ {u} :
          /\ slots'[v].uid = slots[v].uid /\ slots'[v].fd = slots[v].fd
          /\ slots'[v].sent_fd =
                [slots[v].sent_fd EXCEPT ![u] = IF slots[u].send_fd[v] > 0 THEN -1 ELSE @]
          /\ slots'[v].send_fd =
                [slots[v].send_fd EXCEPT ![u] = IF slots[u].sent_fd[v] > 0 THEN -1 ELSE @]
          /\ slots'[v].nickname = slots[v].nickname /\ slots'[v].env = slots[v].env
          /\ slots'[v].npipes = slots[v].npipes

LEMMA ClearUser ==
    ASSUME slots \in [Users -> SlotRecords], NEW u \in Users,
           slots' = [user_pipe_clear(u) EXCEPT ![u] = FreeSlot]
    PROVE  slots' \in [Users -> SlotRecords] /\ LogsOut(u)
<1>1. ASSUME NEW v \in Users \ {u}
      PROVE  /\ slots'[v] \in SlotRecords
             /\ slots'[v].uid = slots[v].uid /\ slots'[v].fd = slots[v].fd
             /\ slots'[v].sent_fd =
                   [slots[v].sent_fd EXCEPT ![u] = IF slots[u].send_fd[v] > 0 THEN -1 ELSE @]
             /\ slots'[v].send_fd =
                   [slots[v].send_fd EXCEPT ![u] = IF slots[u].sent_fd[v] > 0 THEN -1 ELSE @]
             /\ slots'[v].nickname = slots[v].nickname /\ slots'[v].env = slots[v].env
             /\ slots'[v].npipes = slots[v].npipes
  <2>1. slots[v] \in SlotRecords
    OBVIOUS
  <2> DEFINE x == [slots[v].sent_fd EXCEPT ![u] = IF slots[u].send_fd[v] > 0 THEN -1 ELSE @]
             y == [slots[v].send_fd EXCEPT ![u] = IF slots[u].sent_fd[v] > 0 THEN -1 ELSE @]
             q == [slots[v] EXCEPT !.send_fd = y, !.sent_fd = x]
  <2>2. slots'[v] = q
    BY DEF user_pipe_clear
  <2>3. slots[v].sent_fd \in Rows /\ slots[v].send_fd \in Rows
    BY <2>1 DEF SlotRecords
  <2>4. x \in Rows /\ y \in Rows
    BY <2>3 DEF Rows
  <2> HIDE DEF x, y
  <2>5. /\ q \in SlotRecords /\ q.uid = slots[v].uid /\ q.fd = slots[v].fd
        /\ q.sent_fd = x /\ q.send_fd = y /\ q.npipes = slots[v].npipes
        /\ q.env = slots[v].env /\ q.nickname = slots[v].nickname
    BY <2>1, <2>4 DEF SlotRecords
  <2> HIDE DEF q
  <2>. QED  BY <2>2, <2>5 DEF x, y
<1>2. slots'[u] = FreeSlot /\ slots'[u] \in SlotRecords
  BY FreeSlotTyped DEF user_pipe_clear
<1>3. slots' \in [Users -> SlotRecords]
  <2>1. \A v \in Users : slots'[v] \in SlotRecords
    BY <1>1, <1>2
  <2>2. DOMAIN slots' = Users /\ slots' = [v \in Users |-> slots'[v]]
    BY DEF user_pipe_clear
  <2>. QED  BY <2>1, <2>2
<1>. QED  BY <1>1, <1>2, <1>3 DEF LogsOut

(* All pipes between users are dropped. *)
LEMMA ClearAll ==
    ASSUME slots \in [Users -> SlotRecords],
           slots' = [u \in Users |-> [slots[u] EXCEPT !.sent_fd = NoFds]]
    PROVE  /\ slots' \in [Users -> SlotRecords]
           /\ \A v \in Users : slots'[v].uid = slots[v].uid /\ slots'[v].sent_fd = NoFds
                                 /\ slots'[v].env = slots[v].env
<1>1. ASSUME NEW v \in Users
      PROVE  /\ slots'[v] \in SlotRecords /\ slots'[v].uid = slots[v].uid
             /\ slots'[v].sent_fd = NoFds /\ slots'[v].env = slots[v].env
  <2>1. slots[v] \in SlotRecords
    OBVIOUS
  <2>. QED  BY <2>1, FreeSlotTyped DEF SlotRecords
<1>. QED  BY <1>1

(************************* The command at hand ****************************)

LEMMA CommandTyped ==
    ASSUME TypeInv, cur.pc # "idle", cur.line # <<>>
    PROVE  /\ Cmd \in Commands /\ Tail(cur.line) \in Seq(Commands) /\ Me \in Users
           /\ Table \in Tables /\ Updated \in Tables
           /\ Erased(Table) \in Tables /\ Erased(Updated) \in Tables
<1>1. cur.line \in Seq(Commands) /\ Me \in Users
  BY DEF TypeInv, CommandLines, Me
<1>2. Cmd \in Commands /\ Tail(cur.line) \in Seq(Commands)
  BY <1>1 DEF Cmd
<1>3. Table \in Tables
  <2>1. slots[Me] \in SlotRecords
    BY <1>1 DEF TypeInv
  <2>. QED  BY <2>1 DEF Table, SlotRecords
<1>4. Updated \in Tables
  BY <1>3, UpdateKeepsTable DEF Updated
<1>. QED  BY <1>1, <1>2, <1>3, <1>4, EraseKeepsTable

(* The command line goes on, for the same user. *)
Continues ==
    /\ cur' \in CommandLines
    /\ cur'.pc # "idle" /\ cur'.uid = cur.uid
    /\ cur'.pc = "out" =>
          cur'.line = cur.line /\ cur.line # <<>> /\ Cmd.prog = "run" /\ InBounds
    /\ \/ cur'.line = cur.line
       \/ cur'.line = Tail(cur.line) /\ cur.line # <<>>
       \/ cur'.line = <<>>

LEMMA NextCommandTyped ==
    ASSUME TypeInv, cur.pc # "idle", cur.line # <<>>, NextCommand
    PROVE  /\ Continues /\ cur'.pc = "cmd" /\ cur'.line = Tail(cur.line)
<1>1. Tail(cur.line) \in Seq(Commands) /\ cur \in CommandLines
  BY CommandTyped DEF TypeInv
<1> DEFINE t == Tail(cur.line)
<1>2. cur' = [cur EXCEPT !.pc = "cmd", !.line = t, !.readfd = 0]
  BY DEF NextCommand
<1> HIDE DEF t
<1>3. t \in Seq(Commands)
  BY <1>1 DEF t
<1>. QED  BY <1>1, <1>2, <1>3 DEF CommandLines, Continues, t

LEMMA RestDropped ==
    ASSUME TypeInv, cur.pc = "cmd", cur' = [cur EXCEPT !.line = <<>>]
    PROVE  Continues /\ cur'.pc = "cmd" /\ cur'.line = <<>>
<1>1. cur \in CommandLines /\ <<>> \in Seq(Commands)
  BY DEF TypeInv
<1>. QED  BY <1>1 DEF CommandLines, Continues

LEMMA ToOutputTyped ==
    ASSUME TypeInv, AtCommand, Cmd.prog = "run", InBounds, NEW x \in {0} \cup Fds, ToOutput(x)
    PROVE  Continues /\ cur'.pc = "out" /\ cur'.line = cur.line /\ cur'.readfd = x
<1>1. cur \in CommandLines
  BY DEF TypeInv
<1>. QED  BY <1>1 DEF CommandLines, Continues, ToOutput, AtCommand

(* The command line stays typed when it goes on. *)
LEMMA ContinuesTyped ==
    ASSUME Continues, TypeInv, cur.pc # "idle"
    PROVE  /\ cur' \in CommandLines
           /\ cur'.pc = "idle" => cur' = Idle
           /\ cur'.pc # "idle" => cur'.uid \in Users
           /\ cur'.pc = "out" => cur'.line # <<>> /\ Cmd'.prog = "run" /\ InBounds'
<1>1. cur'.pc = "out" => Cmd' = Cmd
  BY DEF Continues, Cmd
<1>2. cur'.pc = "out" => InBounds'
  BY <1>1 DEF Continues, InBounds
<1>. QED  BY <1>1, <1>2 DEF Continues, TypeInv

(****************************** Descriptors *******************************)

LEMMA CloseAllTyped ==
    ASSUME NEW t \in [Fds -> Objects], NEW S
    PROVE  /\ CloseAll(t, S) \in [Fds -> Objects]
           /\ \A f \in Fds : CloseAll(t, S)[f] = IF f \in S THEN Closed ELSE t[f]
<1>1. Closed \in Objects
  BY DEF Closed, Obj, Objects, Kinds
<1>. QED  BY <1>1 DEF CloseAll

LEMMA OpenTyped ==
    ASSUME NEW t \in [Fds -> Objects], NEW f \in Fds, NEW k \in Kinds, NEW a \in Nat, NEW b \in Nat
    PROVE  [t EXCEPT ![f] = Obj(k, a, b)] \in [Fds -> Objects]
BY DEF Obj, Objects

(* What the kernel hands out is free. *)
LEMMA FreshFds ==
    ASSUME NEW t \in [Fds -> Objects]
    PROVE  /\ \A f \in LowestFree(t) : f \in Fds /\ t[f] = Closed
           /\ \A p \in PipeFds(t) :
                 /\ p = <<p[1], p[2]>> /\ p[1] \in Fds /\ p[2] \in Fds /\ p[1] # p[2]
                 /\ t[p[1]] = Closed /\ t[p[2]] = Closed
<1>1. ASSUME NEW p \in PipeFds(t)
      PROVE  /\ p = <<p[1], p[2]>> /\ p[1] \in Fds /\ p[2] \in Fds /\ p[1] # p[2]
             /\ t[p[1]] = Closed /\ t[p[2]] = Closed
  <2>1. p \in Fds \X Fds /\ t[p[1]] = Closed
    BY DEF PipeFds, LowestFree
  <2>2. [t EXCEPT ![p[1]] = Obj("null", 0, 0)][p[2]] = Closed
    BY DEF PipeFds, LowestFree
  <2>3. Obj("null", 0, 0) # Closed
    BY DEF Obj, Closed
  <2>4. p[1] # p[2]
    BY <2>1, <2>2, <2>3
  <2>. QED  BY <2>1, <2>2, <2>4
<1>. QED  BY <1>1 DEF LowestFree

(***************************** Kinds of steps *****************************)

Statuses == {"up", "exited", "killed", "interrupted", "undefined"}

LEMMA WritesTyped == ASSUME NEW F, Writes(F) PROVE status' \in {"up", "killed"}
BY DEF Writes

Unchanging == UNCHANGED <<slots, fd_uid_map, penv>>

(* Nothing happens but that sockets are closed or a line ends. *)
Quiet == Unchanging /\ afds' \subseteq afds /\ (cur' = cur \/ cur' = Idle)

Login ==
    /\ cur = Idle /\ UNCHANGED <<cur, penv>>
    /\ \E f \in Fds : \E u \in FirstFree :
          /\ fdt[f] = Closed /\ fdt' = [fdt EXCEPT ![f] = Obj("sock", u, 0)]
          /\ LogsIn(u, f) /\ afds' = afds \cup {f}
          /\ fd_uid_map' = [fd_uid_map EXCEPT ![f] = u]

Reading ==
    /\ cur = Idle /\ UNCHANGED <<slots, afds, fd_uid_map>>
    /\ cur'.pc = "cmd" /\ cur'.line \in Lines
    /\ \E f \in afds :
          /\ fd_uid_map[f] \in Users
          /\ cur'.uid = fd_uid_map[f]
          /\ penv' = slots[fd_uid_map[f]].env

LogsOff(f) ==
    /\ cur = Idle /\ UNCHANGED <<cur, penv>>
    /\ f \in afds /\ fd_uid_map[f] \in Users
    /\ LogsOut(fd_uid_map[f]) /\ afds' = afds \ {f}
    /\ \A g \in Fds :
          fd_uid_map'[g] = IF g = slots[fd_uid_map[f]].fd THEN -1 ELSE fd_uid_map[g]

Executing == cur.pc # "idle" /\ Continues /\ UNCHANGED <<afds, fd_uid_map>>

(* A command of the user's that leaves every pipe between users alone. *)
ShellStep ==
    /\ Executing /\ ShellOnly(Me)
    /\ penv = slots[Me].env => penv' = slots'[Me].env

(* "<N" takes the pipe from N; ">N" makes one to N. *)
Takes ==
    /\ Executing /\ penv' = penv /\ cur.pc = "cmd"
    /\ \E s \in Users : /\ slots[s].uid > 0 /\ slots[Me].sent_fd[s] > 0
                         /\ RecordsPipe(s, Me, -1, -1, Me)

Gives ==
    /\ Executing /\ penv' = penv /\ cur.pc = "out"
    /\ \E r \in Users : \E p \in Fds \X Fds :
          /\ slots[r].uid > 0 /\ ~(slots[Me].send_fd[r] > 0)
          /\ RecordsPipe(Me, r, p[1], p[2], Me)

Interrupted ==
    /\ status' \in {"interrupted", "exited"} /\ UNCHANGED <<afds, fd_uid_map, penv, cur>>
    /\ \A v \in Users : /\ slots'[v].uid = slots[v].uid /\ slots'[v].sent_fd = NoFds
                         /\ slots'[v].env = slots[v].env

StepKind ==
    \/ UNCHANGED vars
    \/ /\ status = "up"
       /\ \/ Quiet \/ Login \/ Reading \/ (\E f \in Fds : LogsOff(f))
          \/ ShellStep \/ Takes \/ Gives \/ Interrupted

LEMMA CommandStepTyped ==
    ASSUME TypeInv, Executing, slots' \in [Users -> SlotRecords],
           \A v \in Users : slots'[v].uid = slots[v].uid,
           status' \in Statuses, fdt' \in [Fds -> Objects], penv' \in Environments
    PROVE  TypeInv'
<1>1. /\ cur' \in CommandLines
      /\ cur'.pc = "idle" => cur' = Idle
      /\ cur'.pc # "idle" => cur'.uid \in Users
      /\ cur'.pc = "out" => cur'.line # <<>> /\ Cmd'.prog = "run" /\ InBounds'
  BY ContinuesTyped DEF Executing
<1>2. afds' \subseteq Fds /\ fd_uid_map' \in [Fds -> Int]
  BY DEF TypeInv, Executing
<1>3. \A u \in Users : slots'[u].uid \in {-1, u}
  BY DEF TypeInv
<1>. QED  BY <1>1, <1>2, <1>3 DEF TypeInv, Statuses

(* The commands that change only the user's table, name or environment. *)
LEMMA OwnStepTyped ==
    ASSUME TypeInv, Executing, slots' \in [Users -> SlotRecords], ShellOnly(Me),
           slots'[Me].env = slots[Me].env, penv' = penv,
           status' \in Statuses, fdt' \in [Fds -> Objects]
    PROVE  TypeInv' /\ ShellStep
<1>1. \A v \in Users : slots'[v].uid = slots[v].uid
  BY DEF ShellOnly
<1>2. penv' \in Environments
  BY DEF TypeInv
<1>. QED  BY <1>1, <1>2, CommandStepTyped DEF ShellStep

LEMMA SetenvStep == TypeInv /\ CmdSetenv => TypeInv' /\ ShellStep
<1> SUFFICES ASSUME TypeInv, CmdSetenv PROVE TypeInv' /\ ShellStep
  OBVIOUS
<1> USE DEF CmdSetenv
<1>1. cur.pc # "idle" /\ cur.line # <<>> /\ status = "up"
  BY DEF AtCommand
<1>2. Me \in Users /\ Updated \in Tables /\ Cmd.var \in EnvVars /\ Cmd.val \in EnvValues
  BY <1>1, CommandTyped DEF Commands
<1>3. /\ slots' \in [Users -> SlotRecords] /\ ShellOnly(Me)
      /\ slots'[Me].env = [slots[Me].env EXCEPT ![Cmd.var] = Cmd.val]
  <2>1. slots' = WithEnv(Me, Updated, Cmd.var, Cmd.val)
    BY DEF WithEnv
  <2>. QED  BY <1>2, <2>1, SetTableAndEnv DEF TypeInv
<1>4. Executing
  BY <1>1, NextCommandTyped DEF Executing
<1>5. penv' \in Environments
  BY <1>2 DEF TypeInv, Environments
<1>6. TypeInv'
  BY <1>1, <1>3, <1>4, <1>5, CommandStepTyped DEF ShellOnly, Statuses, TypeInv
<1>. QED  BY <1>3, <1>4, <1>6 DEF ShellStep

LEMMA QueryStep == TypeInv /\ CmdQuery => TypeInv' /\ ShellStep
<1> SUFFICES ASSUME TypeInv, CmdQuery PROVE TypeInv' /\ ShellStep
  OBVIOUS
<1> USE DEF CmdQuery
<1>1. cur.pc # "idle" /\ cur.line # <<>>
  BY DEF AtCommand
<1>2. Me \in Users /\ Updated \in Tables
  BY <1>1, CommandTyped
<1>3. slots' \in [Users -> SlotRecords] /\ ShellOnly(Me) /\ slots'[Me].env = slots[Me].env
  BY <1>2, SetTable DEF TypeInv
<1>4. Executing
  BY <1>1, NextCommandTyped DEF Executing
<1>5. status' \in Statuses /\ fdt' \in [Fds -> Objects]
  BY WritesTyped DEF Statuses, TypeInv
<1>. QED  BY <1>3, <1>4, <1>5, OwnStepTyped

LEMMA SayStep ==
    ASSUME TypeInv, cur.pc = "cmd", cur.line # <<>>, NEW F, Say(F)
    PROVE  TypeInv' /\ ShellStep
<1>1. Me \in Users /\ Erased(Updated) \in Tables
  BY CommandTyped
<1>2. slots' \in [Users -> SlotRecords] /\ ShellOnly(Me) /\ slots'[Me].env = slots[Me].env
  BY <1>1, SetTable DEF TypeInv, Say
<1>3. Executing
  BY RestDropped DEF Executing, Say
<1>4. status' \in Statuses /\ fdt' \in [Fds -> Objects] /\ penv' = penv
  BY WritesTyped, CloseAllTyped DEF Statuses, TypeInv, Say
<1>. QED  BY <1>2, <1>3, <1>4, OwnStepTyped

LEMMA NameStep == TypeInv /\ CmdName => TypeInv' /\ ShellStep
<1> SUFFICES ASSUME TypeInv, CmdName PROVE TypeInv' /\ ShellStep
  OBVIOUS
<1> USE DEF CmdName
<1>1. cur.pc # "idle" /\ cur.line # <<>>
  BY DEF AtCommand
<1>2. Me \in Users /\ Updated \in Tables /\ Cmd.name \in Names \cup {""}
  BY <1>1, CommandTyped DEF Commands
<1>3. slots' \in [Users -> SlotRecords] /\ ShellOnly(Me) /\ slots'[Me].env = slots[Me].env
  BY <1>2, SetTable, SetTableAndName DEF TypeInv
<1>4. Executing
  BY <1>1, NextCommandTyped DEF Executing
<1>5. status' \in Statuses /\ fdt' \in [Fds -> Objects]
  BY WritesTyped DEF Statuses, TypeInv
<1>. QED  BY <1>3, <1>4, <1>5, OwnStepTyped

LEMMA PlainInputStep == TypeInv /\ NoUserPipeIn => TypeInv' /\ ShellStep
<1> SUFFICES ASSUME TypeInv, NoUserPipeIn PROVE TypeInv' /\ ShellStep
  OBVIOUS
<1> USE DEF NoUserPipeIn
<1>1. cur.pc # "idle" /\ cur.line # <<>> /\ status = "up"
  BY DEF AtCommand
<1>2. Me \in Users /\ Updated \in Tables
  BY <1>1, CommandTyped
<1>3. slots' \in [Users -> SlotRecords] /\ ShellOnly(Me) /\ slots'[Me].env = slots[Me].env
  BY <1>2, SetTable DEF TypeInv
<1>4. Executing
  BY <1>1, ToOutputTyped DEF Executing
<1>5. status' \in Statuses /\ fdt' \in [Fds -> Objects]
  BY <1>1 DEF Statuses, TypeInv
<1>. QED  BY <1>3, <1>4, <1>5, OwnStepTyped

LEMMA NullInputStep == TypeInv /\ UserPipeInError => TypeInv' /\ ShellStep
<1> SUFFICES ASSUME TypeInv, UserPipeInError PROVE TypeInv' /\ ShellStep
  OBVIOUS
<1> USE DEF UserPipeInError
<1>1. cur.pc # "idle" /\ cur.line # <<>>
  BY DEF AtCommand
<1>2. Me \in Users /\ Updated \in Tables
  BY <1>1, CommandTyped
<1>3. slots' \in [Users -> SlotRecords] /\ ShellOnly(Me) /\ slots'[Me].env = slots[Me].env
  BY <1>2, SetTable DEF TypeInv
<1>4. PICK f \in LowestFree(fdt) : fdt' = [fdt EXCEPT ![f] = Obj("null", 0, 0)] /\ ToOutput(f)
  OBVIOUS
<1>5. f \in Fds /\ fdt \in [Fds -> Objects]
  BY FreshFds DEF TypeInv
<1>6. Executing
  BY <1>1, <1>4, <1>5, ToOutputTyped DEF Executing
<1>7. fdt' \in [Fds -> Objects]
  BY <1>4, <1>5, OpenTyped DEF Kinds
<1>8. status' \in Statuses
  BY WritesTyped DEF Statuses
<1>. QED  BY <1>3, <1>6, <1>7, <1>8, OwnStepTyped

LEMMA TakeStep == TypeInv /\ UserPipeIn => TypeInv' /\ Takes
<1> SUFFICES ASSUME TypeInv, UserPipeIn PROVE TypeInv' /\ Takes
  OBVIOUS
<1> USE DEF UserPipeIn
<1>1. cur.pc = "cmd" /\ cur.line # <<>>
  BY DEF AtCommand
<1>2. Me \in Users /\ Updated \in Tables /\ Cmd.in \in Users
  BY <1>1, CommandTyped DEF InBounds
<1>3. -1 \in {-1} \cup Fds
  OBVIOUS
<1>4. slots' \in [Users -> SlotRecords] /\ RecordsPipe(Cmd.in, Me, -1, -1, Me)
  <2>1. slots' = WithRecords(Cmd.in, Me, -1, -1, Me, Updated)
    BY DEF WithRecords
  <2>2. slots \in [Users -> SlotRecords] /\ Me \in {Cmd.in, Me}
    BY DEF TypeInv
  <2> HIDE DEF UserPipeIn
  <2>. QED  BY Zenon, <1>2, <1>3, <2>1, <2>2, SetRecords
<1>5. slots[Me].sent_fd[Cmd.in] \in Fds /\ slots[Me].sent_fd[Cmd.in] > 0 /\ slots[Cmd.in].uid > 0
  <2>1. slots[Me].sent_fd \in Rows
    BY <1>2 DEF TypeInv, SlotRecords
  <2>2. slots[Me].sent_fd[Cmd.in] \in {-1} \cup Fds
    BY <1>2, <2>1 DEF Rows
  <2>3. slots[Me].sent_fd[Cmd.in] > 0 /\ slots[Cmd.in].uid > 0
    BY DEF user_pipe_exists, usr_exists
  <2>. QED  BY <2>2, <2>3, PositiveIsFd
<1>6. Executing
  BY <1>1, <1>5, ToOutputTyped DEF Executing
<1>7. status' \in Statuses /\ fdt' \in [Fds -> Objects] /\ penv' \in Environments
  BY WritesTyped DEF Statuses, TypeInv
<1>8. TypeInv'
  BY <1>4, <1>6, <1>7, CommandStepTyped DEF RecordsPipe
<1>. QED  BY <1>1, <1>2, <1>4, <1>5, <1>6, <1>8 DEF Takes

(* The part of a command after the fork. *)
LEMMA AfterForkTyped ==
    ASSUME TypeInv, AtOutput, NEW tbl, NEW t \in [Fds -> Objects], NEW w, NEW F,
           AfterFork(tbl, t, w, F)
    PROVE  /\ Executing /\ penv' = penv /\ cur.line # <<>>
           /\ status' \in Statuses /\ fdt' \in [Fds -> Objects]
<1>1. cur.pc # "idle" /\ cur.line # <<>>
  BY DEF AtOutput, TypeInv
<1> DEFINE t1 == CloseAll(t, DueEnds(tbl))
           t2 == IF Cmd.in = 0 THEN t1 ELSE CloseAll(t1, {cur.readfd})
           t3 == IF Cmd.out = 0 THEN t2 ELSE CloseAll(t2, {w})
<1>2. fdt' = t3
  BY DEF AfterFork
<1>3. t1 \in [Fds -> Objects]
  BY CloseAllTyped
<1> HIDE DEF t1
<1>4. t2 \in [Fds -> Objects]
  BY <1>3, CloseAllTyped
<1> HIDE DEF t2
<1>5. t3 \in [Fds -> Objects]
  BY <1>4, CloseAllTyped
<1>6. Executing
  BY <1>1, NextCommandTyped DEF Executing, AfterFork
<1>7. status' \in Statuses
  BY WritesTyped DEF AfterFork, Statuses
<1>. QED  BY <1>1, <1>2, <1>5, <1>6, <1>7 DEF AfterFork

(* The user's table changes after the fork. *)
LEMMA ForkStep ==
    ASSUME TypeInv, AtOutput, NEW tbl, NEW t \in [Fds -> Objects], NEW w, NEW F,
           AfterFork(tbl, t, w, F),
           NEW new \in Tables, slots' = [slots EXCEPT ![Me].npipes = new]
    PROVE  TypeInv' /\ ShellStep
<1>1. cur.pc # "idle" /\ cur.line # <<>>
  BY DEF AtOutput, TypeInv
<1>2. slots' \in [Users -> SlotRecords] /\ ShellOnly(Me) /\ slots'[Me].env = slots[Me].env
  BY <1>1, CommandTyped, SetTable DEF TypeInv
<1>. QED  BY <1>2, AfterForkTyped, OwnStepTyped

LEMMA OutputFacts ==
    ASSUME TypeInv, AtOutput
    PROVE  /\ cur.pc # "idle" /\ cur.line # <<>> /\ Cmd \in Commands /\ Me \in Users
           /\ Table \in Tables /\ Erased(Table) \in Tables /\ fdt \in [Fds -> Objects]
           /\ pipeN \in Nat \ {0} /\ Me \in Nat
<1>1. cur.pc # "idle" /\ cur.line # <<>>
  BY DEF AtOutput, TypeInv
<1>2. Cmd \in Commands /\ Me \in Users /\ Table \in Tables /\ Erased(Table) \in Tables
  BY <1>1, CommandTyped
<1>3. Cmd.num \in Nat
  BY <1>2 DEF Commands
<1>4. pipeN \in Nat \ {0}
  BY <1>3 DEF pipeN
<1>5. Me \in Nat
  BY <1>2 DEF Users
<1>. QED  BY <1>1, <1>2, <1>4, <1>5 DEF TypeInv

LEMMA OldPipeStep == TypeInv /\ ToOldPipe => TypeInv' /\ ShellStep
<1> SUFFICES ASSUME TypeInv, ToOldPipe PROVE TypeInv' /\ ShellStep
  OBVIOUS
<1>1. AtOutput /\ slots' = [slots EXCEPT ![Me].npipes = Erased(Table)]
  BY DEF ToOldPipe
<1>2. PICK w : AfterFork(Table, fdt, w, {})
  BY DEF ToOldPipe
<1>. QED  BY <1>1, <1>2, OutputFacts, ForkStep

(* The table with a pipe on two fresh descriptors. *)
NewTable(p) == Append(Table, [readfd |-> p[1], writefd |-> p[2], counter |-> pipeN])

LEMMA NewTableTyped ==
    ASSUME TypeInv, AtOutput, pipe_for_writing(Table, pipeN) = 0, NEW p \in Fds \X Fds
    PROVE  /\ NewTable(p) \in Tables /\ Erased(NewTable(p)) \in Tables
           /\ DOMAIN NewTable(p) = DOMAIN Table \cup {Len(Table) + 1}
           /\ \A i \in DOMAIN Table : NewTable(p)[i] = Table[i]
           /\ NewTable(p)[Len(Table) + 1].readfd = p[1]
           /\ NewTable(p)[Len(Table) + 1].writefd = p[2]
<1> DEFINE e == [readfd |-> p[1], writefd |-> p[2], counter |-> pipeN]
<1>1. pipeN \in Int /\ Table \in Tables
  BY OutputFacts
<1>2. e \in Entries
  BY <1>1 DEF Entries
<1>3. \A i \in DOMAIN Table : Table[i].counter # e.counter
  BY <1>1, SearchInTable DEF pipe_for_writing
<1> HIDE DEF e
<1>4. /\ Append(Table, e) \in Tables
      /\ DOMAIN Append(Table, e) = DOMAIN Table \cup {Len(Table) + 1}
      /\ \A i \in DOMAIN Table : Append(Table, e)[i] = Table[i]
      /\ Append(Table, e)[Len(Table) + 1] = e
  BY <1>1, <1>2, <1>3, AppendKeepsTable
<1>5. Erased(Append(Table, e)) \in Tables
  BY <1>4, EraseKeepsTable
<1>6. NewTable(p) = Append(Table, e)
  BY DEF NewTable, e
<1>. QED  BY <1>4, <1>5, <1>6 DEF e

LEMMA NewPipeStep == TypeInv /\ ToNewPipe => TypeInv' /\ ShellStep
<1> SUFFICES ASSUME TypeInv, ToNewPipe PROVE TypeInv' /\ ShellStep
  OBVIOUS
<1>1. AtOutput /\ pipe_for_writing(Table, pipeN) = 0
  BY DEF ToNewPipe
<1>2. PICK p \in PipeFds(fdt) :
         /\ AfterFork(NewTable(p), [fdt EXCEPT ![p[1]] = Obj("nr", Me, 0),
                                              ![p[2]] = Obj("nw", Me, 0)], p[2], {})
         /\ slots' = [slots EXCEPT ![Me].npipes = Erased(NewTable(p))]
  BY DEF ToNewPipe, NewTable
<1>3. fdt \in [Fds -> Objects] /\ Me \in Nat
  BY <1>1, OutputFacts
<1>4. p[1] \in Fds /\ p[2] \in Fds /\ p \in Fds \X Fds
  BY <1>3, FreshFds
<1>5. [fdt EXCEPT ![p[1]] = Obj("nr", Me, 0), ![p[2]] = Obj("nw", Me, 0)] \in [Fds -> Objects]
  BY <1>3, <1>4, OpenTyped DEF Kinds
<1>6. Erased(NewTable(p)) \in Tables
  BY <1>1, <1>4, NewTableTyped
<1>. QED  BY <1>1, <1>2, <1>5, <1>6, ForkStep

LEMMA FileStep == TypeInv /\ ToFile => TypeInv' /\ ShellStep
<1> SUFFICES ASSUME TypeInv, ToFile PROVE TypeInv' /\ ShellStep
  OBVIOUS
<1>1. AtOutput /\ slots' = [slots EXCEPT ![Me].npipes = Erased(Table)]
  BY DEF ToFile
<1>2. PICK f \in LowestFree(fdt) :
         AfterFork(Table, [fdt EXCEPT ![f] = Obj("file", 0, 0)], f, {})
  BY DEF ToFile
<1>3. [fdt EXCEPT ![f] = Obj("file", 0, 0)] \in [Fds -> Objects]
  BY <1>1, OutputFacts, FreshFds, OpenTyped DEF Kinds
<1>. QED  BY <1>1, <1>2, <1>3, OutputFacts, ForkStep

LEMMA ClientStep == TypeInv /\ ToClient => TypeInv' /\ ShellStep
<1> SUFFICES ASSUME TypeInv, ToClient PROVE TypeInv' /\ ShellStep
  OBVIOUS
<1>1. AtOutput /\ slots' = [slots EXCEPT ![Me].npipes = Erased(Table)]
  BY DEF ToClient
<1>2. AfterFork(Table, fdt, 1, {})
  BY DEF ToClient
<1>. QED  BY <1>1, <1>2, OutputFacts, ForkStep

LEMMA OpenFailsStep == TypeInv /\ OpenFails => TypeInv' /\ ShellStep
<1> SUFFICES ASSUME TypeInv, OpenFails PROVE TypeInv' /\ ShellStep
  OBVIOUS
<1> USE DEF OpenFails
<1>1. Executing
  BY OutputFacts, NextCommandTyped DEF Executing
<1>2. slots' \in [Users -> SlotRecords] /\ ShellOnly(Me) /\ slots'[Me].env = slots[Me].env
  BY DEF TypeInv, ShellOnly
<1>3. status' \in Statuses /\ fdt' \in [Fds -> Objects]
  BY DEF Statuses, TypeInv
<1>. QED  BY <1>1, <1>2, <1>3, OwnStepTyped

LEMMA GiveErrorStep == TypeInv /\ UserPipeOutError => TypeInv' /\ ShellStep
<1> SUFFICES ASSUME TypeInv, UserPipeOutError PROVE TypeInv' /\ ShellStep
  OBVIOUS
<1> USE DEF UserPipeOutError
<1>1. Executing
  BY OutputFacts, NextCommandTyped DEF Executing
<1>2. slots' \in [Users -> SlotRecords] /\ ShellOnly(Me) /\ slots'[Me].env = slots[Me].env
  BY OutputFacts, SetTable DEF TypeInv
<1>3. status' \in Statuses /\ fdt' \in [Fds -> Objects]
  BY OutputFacts, WritesTyped, CloseAllTyped DEF Statuses
<1>. QED  BY <1>1, <1>2, <1>3, OwnStepTyped

LEMMA GiveStep == TypeInv /\ UserPipeOut => TypeInv' /\ Gives
<1> SUFFICES ASSUME TypeInv, UserPipeOut PROVE TypeInv' /\ Gives
  OBVIOUS
<1>1. /\ AtOutput /\ Cmd.op = "none" /\ Cmd.out # 0
      /\ slots[Cmd.out].uid > 0 /\ ~(slots[Me].send_fd[Cmd.out] > 0)
  BY DEF UserPipeOut, usr_exists, user_pipe_exists
<1>2. Cmd.out \in Users
  BY <1>1 DEF TypeInv, AtOutput, InBounds
<1>3. PICK p \in PipeFds(fdt) :
         /\ AfterFork(Table, [fdt EXCEPT ![p[1]] = Obj("ur", Me, Cmd.out),
                                        ![p[2]] = Obj("uw", Me, Cmd.out)], p[2], BroadcastFds)
         /\ slots' = WithRecords(Me, Cmd.out, p[1], p[2], Me, Erased(Table))
  BY DEF UserPipeOut, WithRecords
<1>4. fdt \in [Fds -> Objects] /\ Me \in Users /\ Me \in Nat /\ Erased(Table) \in Tables
  BY <1>1, OutputFacts
<1>5. p[1] \in Fds /\ p[2] \in Fds /\ p \in Fds \X Fds
  BY <1>4, FreshFds
<1>6. Cmd.out \in Nat
  BY <1>2 DEF Users
<1>7. [fdt EXCEPT ![p[1]] = Obj("ur", Me, Cmd.out), ![p[2]] = Obj("uw", Me, Cmd.out)]
         \in [Fds -> Objects]
  BY <1>4, <1>5, <1>6, OpenTyped DEF Kinds
<1>8. Executing /\ penv' = penv /\ status' \in Statuses /\ fdt' \in [Fds -> Objects]
  BY <1>1, <1>3, <1>7, AfterForkTyped
<1>9. slots' \in [Users -> SlotRecords] /\ RecordsPipe(Me, Cmd.out, p[1], p[2], Me)
  <2>1. p[1] \in {-1} \cup Fds /\ p[2] \in {-1} \cup Fds /\ Me \in {Me, Cmd.out}
    BY <1>5
  <2>2. slots \in [Users -> SlotRecords]
    BY DEF TypeInv
  <2>3. ASSUME NEW a \in {-1} \cup Fds, NEW b \in {-1} \cup Fds,
               slots' = WithRecords(Me, Cmd.out, a, b, Me, Erased(Table))
        PROVE  slots' \in [Users -> SlotRecords] /\ RecordsPipe(Me, Cmd.out, a, b, Me)
    BY Zenon, <1>2, <1>4, <2>1, <2>2, <2>3, SetRecords
  <2>. QED  BY <1>3, <2>1, <2>3
<1>10. TypeInv'
  BY <1>8, <1>9, CommandStepTyped DEF RecordsPipe, TypeInv
<1>. QED  BY <1>1, <1>2, <1>5, <1>8, <1>9, <1>10 DEF Gives, AtOutput

(* The steps of the loop. *)
LEMMA IdleTyped == Idle \in CommandLines /\ Idle.pc = "idle"
<1>1. <<>> \in Seq(Commands)
  OBVIOUS
<1>. QED  BY <1>1 DEF Idle, CommandLines

LEMMA QuietTyped ==
    ASSUME TypeInv, Unchanging, afds' \subseteq afds, cur' \in {cur, Idle},
           status' \in Statuses, fdt' \in [Fds -> Objects]
    PROVE  TypeInv'
<1>1. slots' = slots /\ fd_uid_map' = fd_uid_map /\ penv' = penv
  BY DEF Unchanging
<1>2. CASE cur' = cur
  <2>1. Cmd' = Cmd /\ InBounds' = InBounds
    BY <1>2 DEF Cmd, InBounds
  <2>. QED  BY <1>1, <1>2, <2>1 DEF TypeInv, Statuses
<1>3. CASE cur' = Idle
  BY <1>1, <1>3, IdleTyped DEF TypeInv, Statuses
<1>. QED  BY <1>2, <1>3

LEMMA QuietSteps ==
    ASSUME TypeInv,
           \/ \E f \in Fds : PeerCloses(f) \/ EndOfInput(f) \/ LineWithoutSlot(f)
           \/ OutOfBounds \/ PipeFails \/ EndOfLine
    PROVE  TypeInv' /\ status = "up" /\ Quiet
<1>0. fdt \in [Fds -> Objects] /\ status \in Statuses
  BY DEF TypeInv, Statuses
<1>1. ASSUME NEW f \in Fds, PeerCloses(f) PROVE TypeInv' /\ status = "up" /\ Quiet
  <2>1. Unchanging /\ afds' = afds /\ cur' = cur /\ status' = status /\ status = "up"
    BY <1>1 DEF PeerCloses, Unchanging
  <2>2. fdt[f] \in Objects
    BY <1>0
  <2>3. [fdt[f] EXCEPT !.kind = "dead"] \in Objects
    BY <2>2 DEF Objects, Kinds
  <2>4. fdt' \in [Fds -> Objects]
    BY <1>0, <1>1, <2>3 DEF PeerCloses
  <2>. QED  BY <1>0, <2>1, <2>4, QuietTyped DEF Quiet
<1>2. ASSUME NEW f \in Fds, EndOfInput(f) PROVE TypeInv' /\ status = "up" /\ Quiet
  <2>1. Unchanging /\ afds' \subseteq afds /\ cur' = cur /\ status' = status /\ status = "up"
    BY <1>2 DEF EndOfInput, Unchanging, Selects
  <2>2. fdt' \in [Fds -> Objects]
    BY <1>0, <1>2, CloseAllTyped DEF EndOfInput
  <2>. QED  BY <1>0, <2>1, <2>2, QuietTyped DEF Quiet
<1>3. ASSUME NEW f \in Fds, LineWithoutSlot(f) PROVE TypeInv' /\ status = "up" /\ Quiet
  <2>1. /\ Unchanging /\ afds' = afds /\ cur' = cur /\ fdt' = fdt
        /\ status' \in Statuses /\ status = "up"
    BY <1>3 DEF LineWithoutSlot, Unchanging, Selects, Statuses
  <2>. QED  BY <1>0, <2>1, QuietTyped DEF Quiet
<1>4. ASSUME OutOfBounds PROVE TypeInv' /\ status = "up" /\ Quiet
  <2>1. /\ Unchanging /\ afds' = afds /\ cur' = cur /\ fdt' = fdt
        /\ status' \in Statuses /\ status = "up"
    BY <1>4 DEF OutOfBounds, Unchanging, AtCommand, Statuses
  <2>. QED  BY <1>0, <2>1, QuietTyped DEF Quiet
<1>5. ASSUME PipeFails PROVE TypeInv' /\ status = "up" /\ Quiet
  <2>1. /\ Unchanging /\ afds' = afds /\ cur' = cur /\ fdt' = fdt
        /\ status' \in Statuses /\ status = "up"
    BY <1>5 DEF PipeFails, Unchanging, AtOutput, Statuses
  <2>. QED  BY <1>0, <2>1, QuietTyped DEF Quiet
<1>6. ASSUME EndOfLine PROVE TypeInv' /\ status = "up" /\ Quiet
  <2>1. /\ Unchanging /\ afds' = afds /\ cur' = Idle /\ fdt' = fdt
        /\ status' \in Statuses /\ status = "up"
    BY <1>6, WritesTyped DEF EndOfLine, Unchanging, Statuses
  <2>. QED  BY <1>0, <2>1, QuietTyped DEF Quiet
<1>. QED  BY <1>1, <1>2, <1>3, <1>4, <1>5, <1>6

LEMMA LoginStep == TypeInv /\ Accept => TypeInv' /\ Login
<1> SUFFICES ASSUME TypeInv, Accept PROVE TypeInv' /\ Login
  OBVIOUS
<1>1. PICK f \in LowestFree(fdt), u \in FirstFree :
          /\ fdt' = [fdt EXCEPT ![f] = Obj("sock", u, 0)]
          /\ afds' = afds \cup {f}
          /\ client_init(u, f)
          /\ fd_uid_map' = [fd_uid_map EXCEPT ![f] = u]
  BY DEF Accept
<1>2. cur = Idle /\ penv' = penv /\ cur' = cur /\ status' \in Statuses
  BY WritesTyped DEF Accept, Selects, Statuses
<1>3. /\ slots \in [Users -> SlotRecords] /\ fdt \in [Fds -> Objects]
      /\ fd_uid_map \in [Fds -> Int]
  BY DEF TypeInv
<1>4. f \in Fds /\ fdt[f] = Closed
  BY <1>3, FreshFds
<1>5. u \in Nat
  <2>1. MAX_CLIENTS \in Nat
    BY SingleProcAssumption
  <2>. QED  BY <2>1 DEF FirstFree
<1>6. slots' \in [Users -> SlotRecords] /\ LogsIn(u, f)
  BY <1>1, <1>3, <1>4, SetClient
<1>7. fdt' \in [Fds -> Objects] /\ fd_uid_map' \in [Fds -> Int]
  BY <1>1, <1>3, <1>4, <1>5, OpenTyped DEF Kinds
<1>8. Login
  BY <1>1, <1>2, <1>4, <1>6 DEF Login
<1>9. \A v \in Users : slots'[v].uid \in {-1, v}
  BY <1>6 DEF LogsIn, TypeInv
<1>10. afds' \subseteq Fds /\ penv' \in Environments /\ cur' = Idle
  BY <1>1, <1>2, <1>4 DEF TypeInv
<1>. QED  BY <1>2, <1>6, <1>7, <1>8, <1>9, <1>10, IdleTyped DEF TypeInv, Statuses

LEMMA LogoutStep ==
    ASSUME TypeInv, NEW f \in Fds, Logout(f)
    PROVE  TypeInv' /\ LogsOff(f)
<1> DEFINE u == fd_uid_map[f]
<1>1. /\ cur = Idle /\ penv' = penv /\ cur' = cur /\ f \in afds /\ u \in Users
      /\ afds' = afds \ {f}
  BY DEF Logout, Selects
<1>2. /\ slots' = [user_pipe_clear(u) EXCEPT ![u] = FreeSlot]
      /\ fd_uid_map' = [g \in Fds |-> IF g = slots[u].fd THEN -1 ELSE fd_uid_map[g]]
      /\ status' = "exited" \/ Writes(BroadcastFds)
  BY DEF Logout
<1>3. PICK S : fdt' = CloseAll(fdt, S)
  BY DEF Logout
<1> HIDE DEF u
<1>4. slots' \in [Users -> SlotRecords] /\ LogsOut(u)
  BY <1>1, <1>2, ClearUser DEF TypeInv
<1>5. fd_uid_map' \in [Fds -> Int] /\ fdt' \in [Fds -> Objects]
  BY <1>2, <1>3, CloseAllTyped DEF TypeInv
<1>6. status' \in Statuses
  BY <1>2, WritesTyped DEF Statuses
<1>7. LogsOff(f)
  BY <1>1, <1>2, <1>4 DEF LogsOff, u
<1>8. \A v \in Users : slots'[v].uid \in {-1, v}
  <2>1. slots'[u].uid = -1
    <3>1. slots'[u] = FreeSlot
      BY <1>4 DEF LogsOut
    <3>2. FreeSlot.uid = -1
      BY DEF FreeSlot
    <3>. QED  BY <3>1, <3>2
  <2>2. \A v \in Users \ {u} : slots'[v].uid = slots[v].uid
    BY <1>4 DEF LogsOut
  <2>. QED  BY <2>1, <2>2 DEF TypeInv
<1>9. afds' \subseteq Fds /\ penv' \in Environments /\ cur' = Idle
  BY <1>1 DEF TypeInv
<1>. QED  BY <1>4, <1>5, <1>6, <1>7, <1>8, <1>9, IdleTyped DEF TypeInv, Statuses

LEMMA ReadStep ==
    ASSUME TypeInv, NEW f \in Fds, ReadLine(f)
    PROVE  TypeInv' /\ Reading
<1>1. /\ cur = Idle /\ UNCHANGED <<slots, afds, fd_uid_map, fdt, status>>
      /\ f \in afds /\ fd_uid_map[f] \in Users
      /\ penv' = slots[fd_uid_map[f]].env
  BY DEF ReadLine, Selects
<1>2. PICK l \in Lines : cur' = [pc |-> "cmd", fd |-> f, uid |-> fd_uid_map[f], line |-> l,
                                readfd |-> 0]
  BY DEF ReadLine
<1>3. l \in Seq(Commands)
  BY SingleProcAssumption
<1>4. /\ cur' \in CommandLines /\ cur'.pc = "cmd" /\ cur'.uid = fd_uid_map[f]
      /\ cur'.line \in Lines
  BY <1>1, <1>2, <1>3 DEF CommandLines
<1>5. penv' \in Environments
  BY <1>1 DEF TypeInv, SlotRecords
<1>6. Reading
  BY <1>1, <1>4 DEF Reading
<1>. QED  BY <1>1, <1>4, <1>5, <1>6 DEF TypeInv

LEMMA InterruptStep == TypeInv /\ Interrupt => TypeInv' /\ Interrupted
<1> SUFFICES ASSUME TypeInv, Interrupt PROVE TypeInv' /\ Interrupted
  OBVIOUS
<1>1. /\ UNCHANGED <<afds, fd_uid_map, penv, cur>>
      /\ slots' = [u \in Users |-> [slots[u] EXCEPT !.sent_fd = NoFds]]
  BY DEF Interrupt
<1>2. status' \in {"interrupted", "exited"}
  BY DEF Interrupt
<1>3. PICK S : fdt' = CloseAll(fdt, S)
  BY DEF Interrupt
<1>4. /\ slots' \in [Users -> SlotRecords]
      /\ \A v \in Users : slots'[v].uid = slots[v].uid /\ slots'[v].sent_fd = NoFds
                            /\ slots'[v].env = slots[v].env
  BY <1>1, ClearAll DEF TypeInv
<1>5. fdt' \in [Fds -> Objects]
  BY <1>3, CloseAllTyped DEF TypeInv
<1>6. Cmd' = Cmd /\ InBounds' = InBounds
  BY <1>1 DEF Cmd, InBounds
<1>7. Interrupted
  BY <1>1, <1>2, <1>4 DEF Interrupted
<1>8. \A v \in Users : slots'[v].uid \in {-1, v}
  BY <1>4 DEF TypeInv
<1>. QED  BY <1>1, <1>2, <1>4, <1>5, <1>6, <1>7, <1>8 DEF TypeInv

LEMMA InitTyped == Init => TypeInv
<1> SUFFICES ASSUME Init PROVE TypeInv
  OBVIOUS
<1>1. slots \in [Users -> SlotRecords] /\ \A u \in Users : slots[u].uid \in {-1, u}
  <2>1. \A u \in Users : slots[u] = FreeSlot
    BY DEF Init
  <2>2. FreeSlot.uid = -1
    BY DEF FreeSlot
  <2>. QED  BY <2>1, <2>2, FreeSlotTyped DEF Init
<1>2. fdt \in [Fds -> Objects]
  <2>1. Closed \in Objects
    BY DEF Closed, Obj, Objects, Kinds
  <2>. QED  BY <2>1 DEF Init
<1>3. penv \in Environments
  BY FreeSlotTyped DEF Init
<1>. QED  BY <1>1, <1>2, <1>3, IdleTyped DEF Init, TypeInv

(* Every step is of one of these kinds and keeps the types. *)
LEMMA StepKinds == TypeInv /\ [Next]_vars => TypeInv' /\ StepKind
<1> SUFFICES ASSUME TypeInv, [Next]_vars PROVE TypeInv' /\ StepKind
  OBVIOUS
<1>0. CASE UNCHANGED vars
  <2>1. Cmd' = Cmd /\ InBounds' = InBounds
    BY <1>0 DEF vars, Cmd, InBounds
  <2>. QED  BY <1>0, <2>1 DEF TypeInv, vars, StepKind
<1>1. CASE Accept
  BY <1>1, LoginStep DEF StepKind, Accept, Selects
<1>2. ASSUME NEW f \in Fds, Logout(f) PROVE TypeInv' /\ StepKind
  BY <1>2, LogoutStep DEF StepKind, Logout, Selects
<1>3. ASSUME NEW f \in Fds, ReadLine(f) PROVE TypeInv' /\ StepKind
  BY <1>3, ReadStep DEF StepKind, ReadLine, Selects
<1>4. CASE Interrupt
  BY <1>4, InterruptStep DEF StepKind, Interrupt
<1>5. CASE \E f \in Fds : PeerCloses(f) \/ EndOfInput(f) \/ LineWithoutSlot(f)
  BY <1>5, QuietSteps DEF StepKind
<1>6. CASE RunStep
  <2>1. CASE CmdSetenv \/ CmdQuery \/ CmdName \/ NoUserPipeIn \/ UserPipeInError
    BY <2>1, SetenvStep, QueryStep, NameStep, PlainInputStep, NullInputStep
       DEF StepKind, CmdSetenv, CmdQuery, CmdName, NoUserPipeIn, UserPipeInError, AtCommand
  <2>2. CASE CmdTell \/ CmdYell
    <3>1. status = "up" /\ cur.pc = "cmd" /\ cur.line # <<>>
      BY <2>2 DEF CmdTell, CmdYell, AtCommand
    <3>2. PICK F : Say(F)
      BY <2>2 DEF CmdTell, CmdYell
    <3>. QED  BY <3>1, <3>2, SayStep DEF StepKind
  <2>3. CASE UserPipeIn
    BY <2>3, TakeStep DEF StepKind, UserPipeIn, AtCommand
  <2>4. CASE ToOldPipe \/ ToNewPipe \/ ToFile \/ OpenFails \/ UserPipeOutError \/ ToClient
    BY <2>4, OldPipeStep, NewPipeStep, FileStep, OpenFailsStep, GiveErrorStep, ClientStep
       DEF StepKind, ToOldPipe, ToNewPipe, ToFile, OpenFails, UserPipeOutError, ToClient, AtOutput
  <2>5. CASE UserPipeOut
    BY <2>5, GiveStep DEF StepKind, UserPipeOut, AtOutput
  <2>6. CASE OutOfBounds \/ PipeFails \/ EndOfLine
    BY <2>6, QuietSteps DEF StepKind
  <2>. QED  BY <1>6, <2>1, <2>2, <2>3, <2>4, <2>5, <2>6 DEF RunStep
<1>. QED  BY <1>0, <1>1, <1>2, <1>3, <1>4, <1>5, <1>6 DEF Next

(**************************** Users and slots *****************************)

(***************************************************************************)
(* A watched descriptor that is mapped to a user is mapped to one who is   *)
(* logged in, no other watched descriptor is mapped to that user, and the  *)
(* user whose line is executed is logged in.                               *)
(***************************************************************************)
Sessions ==
    /\ \A f \in afds : fd_uid_map[f] \in Users => slots[fd_uid_map[f]].uid = fd_uid_map[f]
    /\ \A f, g \in afds :
          fd_uid_map[f] \in Users /\ fd_uid_map[f] = fd_uid_map[g] => f = g
    /\ cur.pc # "idle" => slots[cur.uid].uid = cur.uid

SlotInv ==
    /\ TypeInv
    /\ EnvFollowsUser
    /\ status = "up" => Sessions
    /\ UserPipeSymmetric
    /\ FreeSlotIsClean

LEMMA FreeSlotFields ==
    /\ FreeSlot.uid = -1 /\ FreeSlot.fd = -1 /\ FreeSlot.npipes = <<>>
    /\ FreeSlot.sent_fd = NoFds /\ FreeSlot.send_fd = NoFds
BY DEF FreeSlot

LEMMA SameSlot ==
    ASSUME NEW x \in SlotRecords, NEW y \in SlotRecords,
           x.uid = y.uid, x.fd = y.fd, x.nickname = y.nickname, x.sent_fd = y.sent_fd,
           x.send_fd = y.send_fd, x.npipes = y.npipes, x.env = y.env
    PROVE  x = y
<1> DEFINE A == {-1} \cup Users  B == {-1} \cup Fds  C == Names \cup {"", "(no name)"}
<1>1. /\ x \in [uid : A, fd : B, nickname : C, sent_fd : Rows, send_fd : Rows,
                npipes : Tables, env : Environments]
      /\ y \in [uid : A, fd : B, nickname : C, sent_fd : Rows, send_fd : Rows,
                npipes : Tables, env : Environments]
  BY DEF SlotRecords
<1> HIDE DEF A, B, C
<1>. QED  BY <1>1

LEMMA NoneRecorded == \A u \in Users : NoFds[u] = -1
BY DEF NoFds

LEMMA SlotFields ==
    ASSUME TypeInv, NEW u \in Users
    PROVE  /\ slots[u] \in SlotRecords /\ slots[u].uid \in {-1, u} /\ u > 0
           /\ slots[u].sent_fd \in Rows /\ slots[u].send_fd \in Rows
           /\ \A v \in Users : /\ slots[u].sent_fd[v] \in {-1} \cup Fds
                               /\ slots[u].send_fd[v] \in {-1} \cup Fds
<1>1. slots[u] \in SlotRecords /\ slots[u].uid \in {-1, u}
  BY DEF TypeInv
<1>2. slots[u].sent_fd \in Rows /\ slots[u].send_fd \in Rows
  BY <1>1 DEF SlotRecords
<1>3. u > 0
  BY DEF Users
<1>. QED  BY <1>1, <1>2, <1>3 DEF Rows

(* The environment follows the user. *)
LEMMA EnvStep == TypeInv /\ EnvFollowsUser /\ StepKind => EnvFollowsUser'
<1> SUFFICES ASSUME TypeInv, EnvFollowsUser, StepKind, cur'.pc # "idle"
             PROVE  penv' = slots'[cur'.uid].env
  BY DEF EnvFollowsUser
<1>1. CASE UNCHANGED vars
  BY <1>1 DEF vars, EnvFollowsUser
<1>2. CASE Quiet
  BY <1>2, IdleTyped DEF Quiet, Unchanging, EnvFollowsUser
<1>3. CASE Login \/ \E f \in Fds : LogsOff(f)
  BY <1>3, IdleTyped DEF Login, LogsOff
<1>4. CASE Reading
  BY <1>4 DEF Reading
<1>5. CASE ShellStep
  BY <1>5 DEF ShellStep, Executing, Continues, EnvFollowsUser, Me
<1>6. CASE Takes
  <2>1. PICK s \in Users : RecordsPipe(s, Me, -1, -1, Me)
    BY <1>6 DEF Takes
  <2>2. cur.pc # "idle" /\ cur'.uid = cur.uid /\ penv' = penv /\ Me \in Users
    BY <1>6 DEF Takes, Executing, Continues, TypeInv, Me
  <2>3. slots'[Me].env = slots[Me].env
    BY <2>1, <2>2 DEF RecordsPipe
  <2>. QED  BY <2>2, <2>3 DEF EnvFollowsUser, Me
<1>7. CASE Gives
  <2>1. PICK r \in Users, p \in Fds \X Fds : RecordsPipe(Me, r, p[1], p[2], Me)
    BY <1>7 DEF Gives
  <2>2. cur.pc # "idle" /\ cur'.uid = cur.uid /\ penv' = penv /\ Me \in Users
    BY <1>7 DEF Gives, Executing, Continues, TypeInv, Me
  <2>3. slots'[Me].env = slots[Me].env
    BY <2>1, <2>2 DEF RecordsPipe
  <2>. QED  BY <2>2, <2>3 DEF EnvFollowsUser, Me
<1>8. CASE Interrupted
  BY <1>8 DEF Interrupted, EnvFollowsUser, TypeInv
<1>. QED  BY <1>1, <1>2, <1>3, <1>4, <1>5, <1>6, <1>7, <1>8 DEF StepKind

(* A login changes no other slot, and takes one that was free. *)
LEMMA FirstIsFree ==
    ASSUME NEW u \in FirstFree, u \in Users
    PROVE  slots[u].uid = -1
BY DEF FirstFree

LEMMA LoginKeeps == SlotInv /\ status = "up" /\ Login /\ TypeInv' =>
    Sessions' /\ UserPipeSymmetric' /\ FreeSlotIsClean'
<1> SUFFICES ASSUME SlotInv, status = "up", Login, TypeInv'
             PROVE  Sessions' /\ UserPipeSymmetric' /\ FreeSlotIsClean'
  OBVIOUS
<1>1. TypeInv /\ Sessions /\ UserPipeSymmetric /\ FreeSlotIsClean
  BY DEF SlotInv
<1>2. PICK f \in Fds, u \in FirstFree :
          /\ LogsIn(u, f) /\ afds' = afds \cup {f}
          /\ fd_uid_map' = [fd_uid_map EXCEPT ![f] = u]
  BY DEF Login
<1>3. cur' = Idle /\ cur'.pc = "idle"
  BY IdleTyped DEF Login
<1>4. fd_uid_map \in [Fds -> Int] /\ afds \subseteq Fds
  BY <1>1 DEF TypeInv
<1>5. \A g \in Fds : fd_uid_map'[g] = IF g = f THEN u ELSE fd_uid_map[g]
  BY <1>2, <1>4
<1>6. u \in Users =>
          /\ slots[u].uid = -1 /\ slots'[u].uid = u /\ slots'[u].uid # -1
          /\ slots'[u].sent_fd = NoFds /\ slots'[u].send_fd = NoFds
  <2>1. u \in Users => u > 0
    BY <1>1, SlotFields
  <2>. QED  BY <1>2, <2>1, FirstIsFree DEF LogsIn
<1>7. \A v \in Users : v # u => slots'[v] = slots[v]
  BY <1>2 DEF LogsIn
<1>8. Sessions'
  <2>1. ASSUME NEW g \in afds, fd_uid_map[g] \in Users
        PROVE  fd_uid_map[g] # u
    <3>1. slots[fd_uid_map[g]].uid = fd_uid_map[g]
      BY <1>1, <2>1 DEF Sessions
    <3>2. fd_uid_map[g] > 0
      BY <1>1, <2>1, SlotFields
    <3>. QED  BY <1>6, <2>1, <3>1, <3>2
  <2>2. ASSUME NEW g \in afds', fd_uid_map'[g] \in Users
        PROVE  slots'[fd_uid_map'[g]].uid = fd_uid_map'[g]
    <3>1. CASE g = f
      BY <1>4, <1>5, <1>6, <2>2, <3>1
    <3>2. CASE g # f
      <4>1. g \in afds /\ fd_uid_map'[g] = fd_uid_map[g] /\ fd_uid_map[g] \in Users
        BY <1>2, <1>4, <1>5, <2>2, <3>2
      <4>. QED  BY <1>1, <1>7, <2>1, <4>1 DEF Sessions
    <3>. QED  BY <3>1, <3>2
  <2>3. ASSUME NEW g \in afds', NEW h \in afds', fd_uid_map'[g] \in Users,
               fd_uid_map'[g] = fd_uid_map'[h]
        PROVE  g = h
    <3>1. g \in Fds /\ h \in Fds /\ (g # f => g \in afds) /\ (h # f => h \in afds)
      BY <1>2, <1>4
    <3>2. CASE g # f /\ h # f
      BY <1>1, <1>5, <2>3, <3>1, <3>2 DEF Sessions
    <3>3. CASE g = f \/ h = f
      BY <1>5, <2>1, <2>3, <3>1, <3>3
    <3>. QED  BY <3>2, <3>3
  <2>. QED  BY <1>3, <2>2, <2>3 DEF Sessions
<1>9. ASSUME u \in Users, NEW v \in Users
      PROVE  ~(slots[v].sent_fd[u] > 0) /\ ~(slots[v].send_fd[u] > 0)
  BY <1>1, <1>6, <1>9 DEF FreeSlotIsClean, SlotInv
<1>10. ASSUME NEW s \in Users, NEW r \in Users
       PROVE  slots'[s].send_fd[r] > 0 <=> slots'[r].sent_fd[s] > 0
  <2>1. slots[s].send_fd[r] > 0 <=> slots[r].sent_fd[s] > 0
    BY <1>1 DEF UserPipeSymmetric, SlotInv
  <2>2. CASE s # u /\ r # u
    BY <1>7, <2>1, <2>2
  <2>3. CASE s = u \/ r = u
    <3>1. ~(NoFds[s] > 0) /\ ~(NoFds[r] > 0)
      BY NoneRecorded
    <3>. QED  BY <1>6, <1>7, <1>9, <2>3, <3>1
  <2>. QED  BY <2>2, <2>3
<1>11. ASSUME NEW w \in Users, slots'[w].uid = -1
       PROVE  /\ slots'[w] = FreeSlot
              /\ \A v \in Users : slots'[v].sent_fd[w] = -1 /\ slots'[v].send_fd[w] = -1
  <2>1. w # u
    BY <1>6, <1>11
  <2>2. slots'[w] = slots[w] /\ slots[w].uid = -1
    BY <1>7, <1>11, <2>1
  <2>3. /\ slots[w] = FreeSlot
        /\ \A v \in Users : slots[v].sent_fd[w] = -1 /\ slots[v].send_fd[w] = -1
    BY <1>1, <2>2 DEF FreeSlotIsClean
  <2>. QED  BY <1>6, <1>7, <2>2, <2>3, NoneRecorded
<1>. QED  BY <1>8, <1>10, <1>11 DEF UserPipeSymmetric, FreeSlotIsClean

(* A logout leaves nothing of the user behind. *)
LEMMA LeftRecords ==
    ASSUME TypeInv, UserPipeSymmetric, status = "up", NEW u \in Users, LogsOut(u)
    PROVE  \A v, w \in Users :
              /\ slots'[v].sent_fd[w] = IF u \in {v, w} THEN -1 ELSE slots[v].sent_fd[w]
              /\ slots'[v].send_fd[w] = IF u \in {v, w} THEN -1 ELSE slots[v].send_fd[w]
<1> SUFFICES ASSUME NEW v \in Users, NEW w \in Users
             PROVE  /\ slots'[v].sent_fd[w] = IF u \in {v, w} THEN -1 ELSE slots[v].sent_fd[w]
                    /\ slots'[v].send_fd[w] = IF u \in {v, w} THEN -1 ELSE slots[v].send_fd[w]
  OBVIOUS
<1>1. CASE v = u
  <2>1. slots'[v].sent_fd = NoFds /\ slots'[v].send_fd = NoFds
    BY <1>1, FreeSlotFields DEF LogsOut
  <2>. QED  BY <1>1, <2>1, NoneRecorded
<1>2. CASE v # u
  <2>1. /\ slots'[v].sent_fd =
               [slots[v].sent_fd EXCEPT ![u] = IF slots[u].send_fd[v] > 0 THEN -1 ELSE @]
        /\ slots'[v].send_fd =
               [slots[v].send_fd EXCEPT ![u] = IF slots[u].sent_fd[v] > 0 THEN -1 ELSE @]
    BY <1>2 DEF LogsOut
  <2>2. /\ slots[v].sent_fd \in Rows /\ slots[v].send_fd \in Rows
        /\ slots[v].sent_fd[u] \in {-1} \cup Fds /\ slots[v].send_fd[u] \in {-1} \cup Fds
    BY SlotFields
  <2>3. /\ slots[u].send_fd[v] > 0 <=> slots[v].sent_fd[u] > 0
        /\ slots[v].send_fd[u] > 0 <=> slots[u].sent_fd[v] > 0
    BY DEF UserPipeSymmetric
  <2>4. /\ ~(slots[v].sent_fd[u] > 0) => slots[v].sent_fd[u] = -1
        /\ ~(slots[v].send_fd[u] > 0) => slots[v].send_fd[u] = -1
    BY <2>2, PositiveIsFd
  <2>5. CASE w = u
    BY <1>2, <2>1, <2>2, <2>3, <2>4, <2>5 DEF Rows
  <2>6. CASE w # u
    BY <1>2, <2>1, <2>2, <2>6 DEF Rows
  <2>. QED  BY <2>5, <2>6
<1>. QED  BY <1>1, <1>2

LEMMA LogoutKeeps == ASSUME SlotInv, status = "up", NEW f \in Fds, LogsOff(f), TypeInv'
    PROVE  Sessions' /\ UserPipeSymmetric' /\ FreeSlotIsClean'
<1> DEFINE u == fd_uid_map[f]
<1>1. TypeInv /\ Sessions /\ UserPipeSymmetric /\ FreeSlotIsClean
  BY DEF SlotInv
<1>2. /\ u \in Users /\ LogsOut(u) /\ f \in afds /\ afds' = afds \ {f}
      /\ \A g \in Fds : fd_uid_map'[g] \in {-1, fd_uid_map[g]}
  BY DEF LogsOff
<1>3. cur' = Idle /\ cur'.pc = "idle"
  BY IdleTyped DEF LogsOff
<1>4. slots'[u] = FreeSlot /\ \A v \in Users \ {u} : slots'[v].uid = slots[v].uid
  BY <1>2 DEF LogsOut
<1>5. -1 \notin Users /\ afds \subseteq Fds
  BY <1>1 DEF TypeInv, Users
<1>6. \A g \in afds' :
          fd_uid_map'[g] \in Users => fd_uid_map'[g] = fd_uid_map[g] /\ fd_uid_map[g] # u
  BY <1>1, <1>2, <1>5 DEF Sessions
<1>7. Sessions'
  BY <1>1, <1>2, <1>3, <1>4, <1>6 DEF Sessions
<1> HIDE DEF u
<1>8. \A v, w \in Users :
          /\ slots'[v].sent_fd[w] = IF u \in {v, w} THEN -1 ELSE slots[v].sent_fd[w]
          /\ slots'[v].send_fd[w] = IF u \in {v, w} THEN -1 ELSE slots[v].send_fd[w]
  BY <1>1, <1>2, LeftRecords
<1>9. UserPipeSymmetric'
  <2>1. \A s, r \in Users : slots[s].send_fd[r] > 0 <=> slots[r].sent_fd[s] > 0
    BY <1>1 DEF UserPipeSymmetric, SlotInv
  <2>. QED  BY <1>8, <2>1 DEF UserPipeSymmetric
<1>10. ASSUME NEW w \in Users, slots'[w].uid = -1
       PROVE  /\ slots'[w] = FreeSlot
              /\ \A v \in Users : slots'[v].sent_fd[w] = -1 /\ slots'[v].send_fd[w] = -1
  <2>1. CASE w = u
    BY <1>4, <1>8, <2>1
  <2>2. CASE w # u
    <3>1. slots[w].uid = -1
      BY <1>4, <1>10, <2>2
    <3>2. /\ slots[w] = FreeSlot
          /\ \A v \in Users : slots[v].sent_fd[w] = -1 /\ slots[v].send_fd[w] = -1
      BY <1>1, <3>1 DEF FreeSlotIsClean
    <3>3. \A v \in Users : slots'[v].sent_fd[w] = -1 /\ slots'[v].send_fd[w] = -1
      BY <1>8, <3>2
    <3>4. /\ slots[w] \in SlotRecords /\ slots'[w] \in SlotRecords
          /\ slots'[w].sent_fd \in Rows /\ slots'[w].send_fd \in Rows
          /\ slots[w].sent_fd \in Rows /\ slots[w].send_fd \in Rows
      <4>1. slots' \in [Users -> SlotRecords] /\ slots \in [Users -> SlotRecords]
        BY <1>1 DEF TypeInv
      <4>. QED  BY <4>1 DEF SlotRecords
    <3>5. \A v \in Users : /\ slots'[w].sent_fd[v] = slots[w].sent_fd[v]
                           /\ slots'[w].send_fd[v] = slots[w].send_fd[v]
      <4>1. slots[w].sent_fd = NoFds /\ slots[w].send_fd = NoFds
        BY <3>2, FreeSlotFields
      <4>. QED  BY <1>8, <4>1, NoneRecorded
    <3>6. slots'[w].sent_fd = slots[w].sent_fd /\ slots'[w].send_fd = slots[w].send_fd
      BY <3>4, <3>5 DEF Rows
    <3>7. slots'[w] = slots[w]
      <4>1. /\ slots'[w].uid = slots[w].uid /\ slots'[w].fd = slots[w].fd
            /\ slots'[w].nickname = slots[w].nickname /\ slots'[w].env = slots[w].env
            /\ slots'[w].npipes = slots[w].npipes
        BY <1>2, <2>2 DEF LogsOut
      <4>. QED  BY <3>4, <3>6, <4>1, SameSlot
    <3>. QED  BY <3>2, <3>3, <3>7
  <2>. QED  BY <2>1, <2>2
<1>11. FreeSlotIsClean'
  BY <1>10 DEF FreeSlotIsClean
<1>. QED  BY <1>7, <1>9, <1>11

(* A command of a user that is no pipe between users. *)
LEMMA ShellKeeps == SlotInv /\ status = "up" /\ ShellStep /\ TypeInv' =>
    Sessions' /\ UserPipeSymmetric' /\ FreeSlotIsClean'
<1> SUFFICES ASSUME SlotInv, status = "up", ShellStep, TypeInv'
             PROVE  Sessions' /\ UserPipeSymmetric' /\ FreeSlotIsClean'
  OBVIOUS
<1>1. TypeInv /\ Sessions /\ UserPipeSymmetric /\ FreeSlotIsClean
  BY DEF SlotInv
<1>2. /\ cur.pc # "idle" /\ Me \in Users /\ cur'.uid = Me /\ ShellOnly(Me)
      /\ UNCHANGED <<afds, fd_uid_map>>
  BY <1>1 DEF ShellStep, Executing, Continues, TypeInv, Me
<1>3. slots[Me].uid = Me /\ Me > 0 /\ Me # -1
  BY <1>1, <1>2, SlotFields DEF Sessions, Me
<1>4. \A v \in Users :
          /\ slots'[v].uid = slots[v].uid
          /\ slots'[v].sent_fd = slots[v].sent_fd /\ slots'[v].send_fd = slots[v].send_fd
          /\ slots[v].uid = -1 => slots'[v] = slots[v]
  BY <1>2, <1>3 DEF ShellOnly
<1>5. Sessions'
  BY <1>1, <1>2, <1>3, <1>4 DEF Sessions
<1>6. UserPipeSymmetric'
  BY <1>1, <1>4 DEF UserPipeSymmetric, SlotInv
<1>7. FreeSlotIsClean'
  BY <1>1, <1>4 DEF FreeSlotIsClean
<1>. QED  BY <1>5, <1>6, <1>7

(* Both records of a pipe change together, and both users are there. *)
LEMMA RecordKeeps ==
    ASSUME SlotInv, status = "up", TypeInv', Executing,
           NEW s \in Users, NEW r \in Users, Me \in {s, r},
           slots[s].uid > 0, slots[r].uid > 0,
           NEW a, NEW b, a > 0 <=> b > 0, RecordsPipe(s, r, a, b, Me)
    PROVE  Sessions' /\ UserPipeSymmetric' /\ FreeSlotIsClean'
<1>1. TypeInv /\ Sessions /\ UserPipeSymmetric /\ FreeSlotIsClean
  BY DEF SlotInv
<1>2. cur.pc # "idle" /\ Me \in Users /\ cur'.uid = Me /\ UNCHANGED <<afds, fd_uid_map>>
  BY DEF Executing, Continues, Me
<1>3. ASSUME NEW v \in Users
      PROVE  /\ slots'[v].uid = slots[v].uid
             /\ v \notin {s, r} => slots'[v] = slots[v]
             /\ \A w \in Users :
                  /\ slots'[v].sent_fd[w] = IF v = r /\ w = s THEN a ELSE slots[v].sent_fd[w]
                  /\ slots'[v].send_fd[w] = IF v = s /\ w = r THEN b ELSE slots[v].send_fd[w]
  <2>1. slots[v].sent_fd \in Rows /\ slots[v].send_fd \in Rows
    BY <1>1, SlotFields
  <2>. QED  BY <2>1 DEF RecordsPipe, Rows
<1>4. Sessions'
  BY <1>1, <1>2, <1>3 DEF Sessions, Me
<1>5. UserPipeSymmetric'
  <2>1. \A x, y \in Users : slots[x].send_fd[y] > 0 <=> slots[y].sent_fd[x] > 0
    BY <1>1 DEF UserPipeSymmetric, SlotInv
  <2>. QED  BY <1>3, <2>1 DEF UserPipeSymmetric
<1>6. ASSUME NEW w \in Users, slots'[w].uid = -1
      PROVE  /\ slots'[w] = FreeSlot
             /\ \A v \in Users : slots'[v].sent_fd[w] = -1 /\ slots'[v].send_fd[w] = -1
  <2>1. slots[w].uid = -1 /\ w \notin {s, r}
    BY <1>3, <1>6
  <2>. QED  BY <1>1, <1>3, <2>1 DEF FreeSlotIsClean
<1>7. FreeSlotIsClean'
  BY <1>6 DEF FreeSlotIsClean
<1>. QED  BY <1>4, <1>5, <1>7

LEMMA ExecutingUser ==
    ASSUME TypeInv, status = "up", Sessions, cur.pc # "idle"
    PROVE  Me \in Users /\ slots[Me].uid = Me /\ slots[Me].uid > 0
<1>1. Me \in Users
  BY DEF TypeInv, Me
<1>. QED  BY <1>1, SlotFields DEF Sessions, Me

LEMMA SlotInvStep == SlotInv /\ [Next]_vars => SlotInv'
<1> SUFFICES ASSUME SlotInv, [Next]_vars PROVE SlotInv'
  OBVIOUS
<1>1. TypeInv /\ EnvFollowsUser /\ UserPipeSymmetric /\ FreeSlotIsClean
  BY DEF SlotInv
<1>2. TypeInv' /\ StepKind
  BY <1>1, StepKinds
<1>3. EnvFollowsUser'
  BY <1>1, <1>2, EnvStep
<1>4. CASE UNCHANGED vars
  BY <1>1, <1>2, <1>4 DEF SlotInv, vars, EnvFollowsUser, Sessions, UserPipeSymmetric, FreeSlotIsClean
<1>5. CASE status = "up" /\ Quiet
  <2>1. Sessions
    BY <1>5 DEF SlotInv
  <2>2. slots' = slots /\ fd_uid_map' = fd_uid_map /\ afds' \subseteq afds /\ cur' \in {cur, Idle}
    BY <1>5 DEF Quiet, Unchanging
  <2>3. Sessions'
    BY <2>1, <2>2, IdleTyped DEF Sessions
  <2>4. UserPipeSymmetric' /\ FreeSlotIsClean'
    BY <1>1, <1>5, <2>2 DEF UserPipeSymmetric, FreeSlotIsClean
  <2>. QED  BY <1>2, <1>3, <2>3, <2>4 DEF SlotInv
<1>6. CASE status = "up" /\ Login
  BY <1>2, <1>3, <1>6, LoginKeeps DEF SlotInv
<1>7. CASE status = "up" /\ Reading
  <2>1. Sessions
    BY <1>7 DEF SlotInv
  <2>2. slots' = slots /\ fd_uid_map' = fd_uid_map /\ afds' = afds
    BY <1>7 DEF Reading
  <2>3. Sessions'
    BY <1>7, <2>1, <2>2 DEF Sessions, Reading
  <2>4. UserPipeSymmetric' /\ FreeSlotIsClean'
    BY <1>1, <1>7, <2>2 DEF UserPipeSymmetric, FreeSlotIsClean
  <2>. QED  BY <1>2, <1>3, <2>3, <2>4 DEF SlotInv
<1>8. CASE status = "up" /\ \E f \in Fds : LogsOff(f)
  BY <1>2, <1>3, <1>8, LogoutKeeps DEF SlotInv
<1>9. CASE status = "up" /\ ShellStep
  BY <1>2, <1>3, <1>9, ShellKeeps DEF SlotInv
<1>10. CASE status = "up" /\ Takes
  <2>0. Executing
    BY <1>10 DEF Takes
  <2>1. PICK s \in Users : slots[s].uid > 0 /\ RecordsPipe(s, Me, -1, -1, Me)
    BY <1>10 DEF Takes
  <2>2. Me \in Users /\ slots[Me].uid > 0
    BY <1>1, <1>10, <2>0, ExecutingUser DEF SlotInv, Executing
  <2>3. Sessions' /\ UserPipeSymmetric' /\ FreeSlotIsClean'
    BY <1>2, <1>10, <2>0, <2>1, <2>2, RecordKeeps
  <2>. QED  BY <1>2, <1>3, <2>3 DEF SlotInv
<1>11. CASE status = "up" /\ Gives
  <2>1. PICK r \in Users, p \in Fds \X Fds :
            slots[r].uid > 0 /\ RecordsPipe(Me, r, p[1], p[2], Me)
    BY <1>11 DEF Gives
  <2>2. Executing /\ Me \in Users /\ slots[Me].uid > 0
    BY <1>1, <1>11, ExecutingUser DEF SlotInv, Executing, Gives
  <2>3. p[1] > 0 /\ p[2] > 0
    BY PairPositive
  <2>4. Sessions' /\ UserPipeSymmetric' /\ FreeSlotIsClean'
    BY <1>2, <1>11, <2>1, <2>2, <2>3, RecordKeeps
  <2>. QED  BY <1>2, <1>3, <2>4 DEF SlotInv
<1>12. CASE Interrupted
  <2>1. status' # "up"
    BY <1>12 DEF Interrupted
  <2>. QED  BY <1>2, <1>3, <2>1 DEF SlotInv, UserPipeSymmetric, FreeSlotIsClean
<1>. QED  BY <1>2, <1>4, <1>5, <1>6, <1>7, <1>8, <1>9, <1>10, <1>11, <1>12 DEF StepKind

LEMMA SlotInvInit == Init => SlotInv
<1> SUFFICES ASSUME Init PROVE SlotInv
  OBVIOUS
<1>1. TypeInv
  BY InitTyped
<1>2. cur.pc = "idle" /\ afds = {}
  BY IdleTyped DEF Init
<1>3. \A u \in Users : slots[u] = FreeSlot
  BY DEF Init
<1>4. \A u, v \in Users : slots[u].sent_fd[v] = -1 /\ slots[u].send_fd[v] = -1
  BY <1>3, FreeSlotFields, NoneRecorded
<1>. QED  BY <1>1, <1>2, <1>3, <1>4
          DEF SlotInv, EnvFollowsUser, Sessions, UserPipeSymmetric, FreeSlotIsClean

LEMMA AlwaysSlotInv == Spec => []SlotInv
<1>1. SlotInv /\ [Next]_vars => SlotInv'
  BY SlotInvStep
<1>. QED  BY <1>1, SlotInvInit, PTL DEF Spec

(***************************************************************************)
(* Whatever users do, the sender's and the receiver's record of a pipe     *)
(* between users agree.                                                    *)
(***************************************************************************)
THEOREM UserPipesAgree == Spec => []UserPipeSymmetric
<1>1. SlotInv => UserPipeSymmetric
  BY DEF SlotInv
<1>. QED  BY <1>1, AlwaysSlotInv, PTL

(***************************************************************************)
(* A slot nobody is logged into keeps nothing of its last user.            *)
(***************************************************************************)
THEOREM FreeSlotsClean == Spec => []FreeSlotIsClean
<1>1. SlotInv => FreeSlotIsClean
  BY DEF SlotInv
<1>. QED  BY <1>1, AlwaysSlotInv, PTL

(***************************************************************************)
(* A line is executed in the environment of the user who typed it.         *)
(***************************************************************************)
THEOREM OwnEnvironment == Spec => []EnvFollowsUser
<1>1. SlotInv => EnvFollowsUser
  BY DEF SlotInv
<1>. QED  BY <1>1, AlwaysSlotInv, PTL

(********************** The pipes between users ***************************)

Present == {u \in Users : slots[u].uid # -1}
Piped == {p \in Users \X Users : slots[p[2]].sent_fd[p[1]] > 0}

LEMMA SamePipes ==
    ASSUME \A v \in Users : slots'[v].uid = slots[v].uid /\ slots'[v].sent_fd = slots[v].sent_fd
    PROVE  Present' = Present /\ Piped' = Piped
BY DEF Present, Piped

LEMMA RefinesLogin ==
    SlotInv /\ status = "up" /\ Login =>
        (\E u \in Users : Abstract!Enter(u)) \/ (Present' = Present /\ Piped' = Piped)
<1> SUFFICES ASSUME SlotInv, status = "up", Login
             PROVE  (\E u \in Users : Abstract!Enter(u)) \/ (Present' = Present /\ Piped' = Piped)
  OBVIOUS
<1>1. PICK f \in Fds, u \in FirstFree : LogsIn(u, f)
  BY DEF Login
<1>2. CASE u \notin Users
  BY <1>1, <1>2, SamePipes DEF LogsIn
<1>3. CASE u \in Users
  <2>1. slots[u].uid = -1 /\ u > 0
    BY <1>3, FirstIsFree, SlotFields DEF SlotInv
  <2>2. \A v \in Users : slots'[v].uid = IF v = u THEN u ELSE slots[v].uid
    BY <1>1 DEF LogsIn
  <2>3. u \notin Present /\ Present' = Present \cup {u}
    BY <1>3, <2>1, <2>2 DEF Present
  <2>4. ASSUME NEW v \in Users, NEW w \in Users
        PROVE  slots'[v].sent_fd[w] > 0 <=> slots[v].sent_fd[w] > 0
    <3>1. CASE v # u
      BY <1>1, <3>1 DEF LogsIn
    <3>2. CASE v = u
      <4>1. slots'[v].sent_fd = NoFds /\ slots[v].sent_fd = NoFds
        BY <1>1, <1>3, <2>1, <3>2, FreeSlotFields DEF LogsIn, SlotInv, FreeSlotIsClean
      <4>. QED  BY <4>1
    <3>. QED  BY <3>1, <3>2
  <2>5. Piped' = Piped
    BY <2>4 DEF Piped
  <2>. QED  BY <1>3, <2>3, <2>5 DEF Abstract!Enter, Present, Piped
<1>. QED  BY <1>2, <1>3

LEMMA RefinesLogout ==
    ASSUME SlotInv, status = "up", NEW f \in Fds, LogsOff(f)
    PROVE  \E u \in Users : Abstract!Leave(u)
<1> DEFINE u == fd_uid_map[f]
<1>1. u \in Users /\ LogsOut(u) /\ f \in afds
  BY DEF LogsOff
<1>2. slots[u].uid = u /\ u > 0
  BY <1>1, SlotFields DEF SlotInv, Sessions
<1> HIDE DEF u
<1>3. slots'[u].uid = -1 /\ \A v \in Users \ {u} : slots'[v].uid = slots[v].uid
  BY <1>1, FreeSlotFields DEF LogsOut
<1>4. u \in Present /\ Present' = Present \ {u}
  BY <1>1, <1>2, <1>3 DEF Present
<1>5. \A v, w \in Users :
          slots'[v].sent_fd[w] = IF u \in {v, w} THEN -1 ELSE slots[v].sent_fd[w]
  BY <1>1, LeftRecords DEF SlotInv
<1>6. Piped' = {p \in Piped : u \notin {p[1], p[2]}}
  BY <1>5 DEF Piped
<1>. QED  BY <1>1, <1>4, <1>6 DEF Abstract!Leave, Present, Piped

(* The change RecordsPipe makes to the pairs. *)
LEMMA RecordedPair ==
    ASSUME TypeInv, NEW s \in Users, NEW r \in Users, NEW a, NEW b, NEW u, RecordsPipe(s, r, a, b, u)
    PROVE  /\ Present' = Present
           /\ Piped' = IF a > 0 THEN Piped \cup {<<s, r>>} ELSE Piped \ {<<s, r>>}
<1>1. ASSUME NEW v \in Users
      PROVE  /\ slots'[v].uid = slots[v].uid
             /\ \A w \in Users :
                  slots'[v].sent_fd[w] = IF v = r /\ w = s THEN a ELSE slots[v].sent_fd[w]
  <2>1. slots[v].sent_fd \in Rows
    BY SlotFields
  <2>. QED  BY <2>1 DEF RecordsPipe, Rows
<1>2. \A p \in Users \X Users : p = <<p[1], p[2]>> /\ p[1] \in Users /\ p[2] \in Users
  OBVIOUS
<1>3. \A p \in Users \X Users : p = <<s, r>> <=> p[1] = s /\ p[2] = r
  BY <1>2
<1>. QED  BY <1>1, <1>2, <1>3 DEF Present, Piped

LEMMA RefinesStep ==
    SlotInv /\ StepKind => Abstract!Next \/ (Present' = Present /\ Piped' = Piped)
<1> SUFFICES ASSUME SlotInv, StepKind
             PROVE  Abstract!Next \/ (Present' = Present /\ Piped' = Piped)
  OBVIOUS
<1>0. TypeInv
  BY DEF SlotInv
<1>1. CASE UNCHANGED vars
  BY <1>1, SamePipes DEF vars
<1>2. CASE Quiet \/ Reading
  BY <1>2, SamePipes DEF Quiet, Unchanging, Reading
<1>3. CASE status = "up" /\ Login
  BY <1>3, RefinesLogin DEF Abstract!Next
<1>4. CASE status = "up" /\ \E f \in Fds : LogsOff(f)
  BY <1>4, RefinesLogout DEF Abstract!Next
<1>5. CASE ShellStep
  BY <1>5, SamePipes DEF ShellStep, ShellOnly
<1>6. CASE status = "up" /\ Takes
  <2>1. PICK s \in Users : slots[Me].sent_fd[s] > 0 /\ RecordsPipe(s, Me, -1, -1, Me)
    BY <1>6 DEF Takes
  <2>2. Me \in Users
    BY <1>0, <1>6, ExecutingUser DEF SlotInv, Takes, Executing
  <2>3. Present' = Present /\ Piped' = Piped \ {<<s, Me>>}
    BY <1>0, <2>1, <2>2, RecordedPair
  <2>4. <<s, Me>> \in Piped
    BY <2>1, <2>2 DEF Piped
  <2>5. PICK m \in Users : m = Me
    BY <2>2
  <2>6. Abstract!Receive(s, m)
    BY <2>3, <2>4, <2>5 DEF Abstract!Receive, Present, Piped
  <2>. QED  BY <2>6 DEF Abstract!Next
<1>7. CASE status = "up" /\ Gives
  <2>1. PICK r \in Users, p \in Fds \X Fds :
            /\ slots[r].uid > 0 /\ ~(slots[Me].send_fd[r] > 0)
            /\ RecordsPipe(Me, r, p[1], p[2], Me)
    BY <1>7 DEF Gives
  <2>2. Me \in Users /\ slots[Me].uid > 0
    BY <1>0, <1>7, ExecutingUser DEF SlotInv, Gives, Executing
  <2>3. p[1] > 0
    BY PairPositive
  <2>4. Present' = Present /\ Piped' = Piped \cup {<<Me, r>>}
    BY <1>0, <2>1, <2>2, <2>3, RecordedPair
  <2>5. ~(slots[r].sent_fd[Me] > 0)
    BY <1>7, <2>1, <2>2 DEF SlotInv, UserPipeSymmetric
  <2>6. <<Me, r>> \notin Piped
    BY <2>5 DEF Piped
  <2>7. Me \in Present /\ r \in Present
    BY <2>1, <2>2 DEF Present
  <2>8. Abstract!Send(Me, r)
    BY <2>4, <2>6, <2>7 DEF Abstract!Send, Present, Piped
  <2>. QED  BY <2>2, <2>8 DEF Abstract!Next
<1>8. CASE Interrupted
  <2>1. Present' = Present
    BY <1>8 DEF Interrupted, Present
  <2>2. Piped' = {}
    <3>1. \A p \in Users \X Users : ~(slots'[p[2]].sent_fd[p[1]] > 0)
      BY <1>8, NoneRecorded DEF Interrupted
    <3>. QED  BY <3>1 DEF Piped
  <2>. QED  BY <2>1, <2>2 DEF Abstract!Next, Abstract!Shutdown, Present, Piped
<1>. QED  BY <1>1, <1>2, <1>3, <1>4, <1>5, <1>6, <1>7, <1>8 DEF StepKind

(***************************************************************************)
(* Every step of the server is a step of UserPipes or leaves the pipes     *)
(* between users alone.                                                    *)
(***************************************************************************)
THEOREM UserPipesImplemented == Spec => ImplementsUserPipes
<1>1. Init => Abstract!Init
  <2> SUFFICES ASSUME Init PROVE Abstract!Init
    OBVIOUS
  <2>1. \A u \in Users : slots[u] = FreeSlot
    BY DEF Init
  <2>2. Present = {}
    BY <2>1, FreeSlotFields DEF Present
  <2>3. \A p \in Users \X Users : ~(slots[p[2]].sent_fd[p[1]] > 0)
    BY <2>1, FreeSlotFields, NoneRecorded
  <2>4. Piped = {}
    BY <2>3 DEF Piped
  <2>. QED  BY <2>2, <2>4 DEF Abstract!Init, Present, Piped
<1>2. SlotInv /\ [Next]_vars => [Abstract!Next]_<<Present, Piped>>
  BY StepKinds, RefinesStep DEF SlotInv
<1>. QED  BY <1>1, <1>2, AlwaysSlotInv, PTL
          DEF Spec, ImplementsUserPipes, Abstract!Spec, Present, Piped

(************************* The other users ********************************)

Others(v) ==
    /\ [slots'[v] EXCEPT !.sent_fd = NoFds, !.send_fd = NoFds]
          = [slots[v] EXCEPT !.sent_fd = NoFds, !.send_fd = NoFds]
    /\ \A w \in Users \ {cur.uid} :
          /\ slots'[v].sent_fd[w] = slots[v].sent_fd[w]
          /\ slots'[v].send_fd[w] = slots[v].send_fd[w]

LEMMA RecordsLeaveOthers ==
    ASSUME TypeInv, TypeInv', NEW s \in Users, NEW r \in Users, Me \in {s, r}, NEW a, NEW b,
           RecordsPipe(s, r, a, b, Me), NEW v \in Users, v # Me
    PROVE  Others(v)
<1>1. slots[v] \in SlotRecords /\ slots'[v] \in SlotRecords
  <2>1. slots \in [Users -> SlotRecords] /\ slots' \in [Users -> SlotRecords]
    BY DEF TypeInv
  <2>. QED  BY <2>1
<1>2. /\ slots'[v].uid = slots[v].uid /\ slots'[v].fd = slots[v].fd
      /\ slots'[v].nickname = slots[v].nickname /\ slots'[v].env = slots[v].env
      /\ slots'[v].npipes = slots[v].npipes
      /\ slots'[v].sent_fd = IF v = r THEN [slots[v].sent_fd EXCEPT ![s] = a] ELSE slots[v].sent_fd
      /\ slots'[v].send_fd = IF v = s THEN [slots[v].send_fd EXCEPT ![r] = b] ELSE slots[v].send_fd
  BY DEF RecordsPipe
<1>3. \A w \in Users \ {Me} :
          /\ slots'[v].sent_fd[w] = slots[v].sent_fd[w]
          /\ slots'[v].send_fd[w] = slots[v].send_fd[w]
  BY <1>2, SlotFields DEF Rows
<1> DEFINE x == [slots'[v] EXCEPT !.sent_fd = NoFds, !.send_fd = NoFds]
           y == [slots[v] EXCEPT !.sent_fd = NoFds, !.send_fd = NoFds]
<1>4. /\ x \in SlotRecords /\ x.uid = slots'[v].uid /\ x.fd = slots'[v].fd
      /\ x.nickname = slots'[v].nickname /\ x.env = slots'[v].env
      /\ x.npipes = slots'[v].npipes /\ x.sent_fd = NoFds /\ x.send_fd = NoFds
  BY <1>1, FreeSlotTyped DEF SlotRecords
<1>5. /\ y \in SlotRecords /\ y.uid = slots[v].uid /\ y.fd = slots[v].fd
      /\ y.nickname = slots[v].nickname /\ y.env = slots[v].env
      /\ y.npipes = slots[v].npipes /\ y.sent_fd = NoFds /\ y.send_fd = NoFds
  BY <1>1, FreeSlotTyped DEF SlotRecords
<1>6. x = y
  <2> HIDE DEF x, y
  <2>. QED  BY <1>2, <1>4, <1>5, SameSlot
<1>. QED  BY <1>3, <1>6 DEF Others, Me

LEMMA OthersStep ==
    ASSUME SlotInv, TypeInv', StepKind, cur.pc # "idle", status' = "up",
           NEW v \in Users \ {cur.uid}
    PROVE  Others(v)
<1>0. TypeInv /\ v # Me /\ v \in Users
  BY DEF SlotInv, Me
<1>1. CASE UNCHANGED vars \/ Quiet \/ ShellStep
  <2>1. slots'[v] = slots[v]
    BY <1>0, <1>1 DEF vars, Quiet, Unchanging, ShellStep, ShellOnly
  <2>. QED  BY <2>1 DEF Others
<1>2. CASE Login \/ Reading \/ \E f \in Fds : LogsOff(f)
  BY <1>2, IdleTyped DEF Login, Reading, LogsOff
<1>3. CASE Takes
  <2>1. PICK s \in Users : RecordsPipe(s, Me, -1, -1, Me)
    BY <1>3 DEF Takes
  <2>2. Me \in Users
    BY <1>0 DEF TypeInv, Me
  <2>. QED  BY <1>0, <2>1, <2>2, RecordsLeaveOthers
<1>4. CASE Gives
  <2>1. PICK r \in Users, p \in Fds \X Fds : RecordsPipe(Me, r, p[1], p[2], Me)
    BY <1>4 DEF Gives
  <2>2. Me \in Users
    BY <1>0 DEF TypeInv, Me
  <2>. QED  BY <1>0, <2>1, <2>2, RecordsLeaveOthers
<1>5. CASE Interrupted
  BY <1>5 DEF Interrupted
<1>. QED  BY <1>1, <1>2, <1>3, <1>4, <1>5 DEF StepKind

(***************************************************************************)
(* Whatever line is executed, the slots of the other users keep everything *)
(* but their pipes to and from the user whose line it is.                  *)
(***************************************************************************)
THEOREM OnlyOwnSlot == Spec => OthersUntouched
<1>1. SlotInv /\ [Next]_vars =>
          [cur.pc # "idle" /\ status' = "up" =>
             \A v \in Users \ {cur.uid} : Others(v)]_vars
  <2> SUFFICES ASSUME SlotInv, [Next]_vars, cur.pc # "idle", status' = "up",
                      NEW v \in Users \ {cur.uid}
               PROVE  Others(v)
    OBVIOUS
  <2>1. TypeInv' /\ StepKind
    BY StepKinds DEF SlotInv
  <2>. QED  BY <2>1, OthersStep
<1>. QED  BY <1>1, AlwaysSlotInv, PTL DEF Spec, OthersUntouched, Others

(****************************** Descriptors *******************************)

(***************************************************************************)
(* What is proved of descriptors is proved for lines without a command     *)
(* that has both a "|N" or "!N" and a ">M": the server then closes the     *)
(* write end of the numbered pipe it has just recorded, and the number in  *)
(* the table soon means something else.                                    *)
(***************************************************************************)
PlainLine(l) == \A i \in DOMAIN l : l[i].op \in {"|", "!"} => l[i].out = 0

PlainLines == \A l \in Lines : PlainLine(l)

LEMMA PlainTail ==
    ASSUME NEW l \in Seq(Commands), l # <<>>, PlainLine(l)
    PROVE  PlainLine(Tail(l)) /\ PlainLine(<<>>) /\ (Head(l).op \in {"|", "!"} => Head(l).out = 0)
<1>1. Head(l) = l[1] /\ 1 \in DOMAIN l
  OBVIOUS
<1>2. \A i \in DOMAIN Tail(l) : i+1 \in DOMAIN l /\ Tail(l)[i] = l[i+1]
  OBVIOUS
<1>. QED  BY <1>1, <1>2 DEF PlainLine

LEMMA PlainStep ==
    TypeInv /\ StepKind /\ PlainLines /\ PlainLine(cur.line) => PlainLine(cur'.line)
<1> SUFFICES ASSUME TypeInv, StepKind, PlainLines, PlainLine(cur.line) PROVE PlainLine(cur'.line)
  OBVIOUS
<1>1. cur.line \in Seq(Commands)
  BY DEF TypeInv, CommandLines
<1>2. PlainLine(<<>>) /\ Idle.line = <<>>
  BY DEF PlainLine, Idle
<1>3. CASE UNCHANGED vars \/ Quiet \/ Login \/ Interrupted \/ \E f \in Fds : LogsOff(f)
  <2>1. cur' \in {cur, Idle}
    BY <1>3 DEF vars, Quiet, Login, Interrupted, LogsOff
  <2>. QED  BY <1>2, <2>1
<1>4. CASE Reading
  BY <1>4 DEF Reading, PlainLines
<1>5. CASE ShellStep \/ Takes \/ Gives
  <2>1. \/ cur'.line = cur.line
        \/ cur'.line = Tail(cur.line) /\ cur.line # <<>>
        \/ cur'.line = <<>>
    BY <1>5 DEF ShellStep, Takes, Gives, Executing, Continues
  <2>. QED  BY <1>1, <1>2, <2>1, PlainTail
<1>. QED  BY <1>3, <1>4, <1>5 DEF StepKind

(* The descriptors of a table are the ends of its owner's own pipes. *)
Owns(t, tbl, u) ==
    /\ \A i \in DOMAIN tbl :
          t[tbl[i].readfd] = Obj("nr", u, 0) /\ t[tbl[i].writefd] = Obj("nw", u, 0)
    /\ \A i, j \in DOMAIN tbl : i # j =>
          tbl[i].readfd # tbl[j].readfd /\ tbl[i].writefd # tbl[j].writefd

Watched ==
    /\ \A f \in Fds : f \in afds <=> fdt[f].kind \in {"sock", "dead"}
    /\ \A f \in afds :
          /\ fd_uid_map[f] = fdt[f].a
          /\ fd_uid_map[f] \in Users => slots[fd_uid_map[f]].fd = f

Recorded ==
    \A s, r \in Users : slots[r].sent_fd[s] > 0 => fdt[slots[r].sent_fd[s]] = Obj("ur", s, r)

(* The descriptor of "<N" is open and in no table. *)
HasInput ==
    cur.pc = "out" /\ Cmd.in # 0 =>
        /\ cur.readfd \in Fds
        /\ \/ fdt[cur.readfd] = Obj("null", 0, 0)
           \/ /\ fdt[cur.readfd] = Obj("ur", Cmd.in, Me)
              /\ ~(slots[Me].sent_fd[Cmd.in] > 0)

Descriptors ==
    /\ Watched
    /\ Recorded
    /\ \A u \in Users : Owns(fdt, slots[u].npipes, u)
    /\ HasInput

DescriptorInv ==
    /\ SlotInv
    /\ PlainLine(cur.line)
    /\ status = "up" => Descriptors

(* What objects tell apart. *)
LEMMA ObjFields ==
    \A k, a, b, l, c, d :
        /\ Obj(k, a, b) = Obj(l, c, d) <=> k = l /\ a = c /\ b = d
        /\ Obj(k, a, b).kind = k /\ Obj(k, a, b).a = a
BY DEF Obj

LEMMA ClosedKind == Closed.kind = "closed" /\ Closed = Obj("closed", 0, 0)
BY DEF Closed, Obj

LEMMA EntryFds ==
    ASSUME NEW tbl \in Tables, NEW i \in DOMAIN tbl
    PROVE  tbl[i] \in Entries /\ tbl[i].readfd \in Fds /\ tbl[i].writefd \in Fds
<1>1. tbl \in Seq(Entries)
  BY DEF Tables
<1>2. tbl[i] \in Entries
  BY <1>1
<1>. QED  BY <1>2 DEF Entries

(* The due pipe's ends are its owner's. *)
LEMMA DueOwned ==
    ASSUME NEW t, NEW tbl \in Tables, NEW u, Owns(t, tbl, u), NEW f \in DueEnds(tbl)
    PROVE  f \in Fds /\ (t[f] = Obj("nr", u, 0) \/ t[f] = Obj("nw", u, 0))
<1>1. pipe_for_reading(tbl) \in DOMAIN tbl \cup {0}
  BY SearchInTable DEF pipe_for_reading
<1>2. /\ pipe_for_reading(tbl) # 0
      /\ f \in {tbl[pipe_for_reading(tbl)].readfd, tbl[pipe_for_reading(tbl)].writefd}
  BY DEF DueEnds
<1> DEFINE r == pipe_for_reading(tbl)
<1>3. r \in DOMAIN tbl /\ f \in {tbl[r].readfd, tbl[r].writefd}
  BY <1>1, <1>2
<1> HIDE DEF r
<1>. QED  BY <1>3, EntryFds DEF Owns

(* Counting down keeps the ends. *)
LEMMA UpdateOwned ==
    ASSUME NEW t, NEW tbl \in Tables, NEW u, Owns(t, tbl, u)
    PROVE  Owns(t, pipes_update(tbl), u)
BY UpdateKeepsTable DEF Owns

(* Erasing the due pipe and closing its ends leaves the others' ends open, *)
(* also when further descriptors are closed that are no ends.              *)
LEMMA EraseOwned ==
    ASSUME NEW t, NEW tbl \in Tables, NEW u, Owns(t, tbl, u), NEW s,
           \A f \in Fds : f \notin DueEnds(tbl) /\ t[f] \in {Obj("nr", u, 0), Obj("nw", u, 0)}
                              => s[f] = t[f]
    PROVE  Owns(s, Erased(tbl), u)
<1> DEFINE r == pipe_for_reading(tbl)
           e == Erased(tbl)
<1>1. /\ e \in Tables
      /\ \A i \in DOMAIN e : \E j \in DOMAIN tbl : e[i] = tbl[j] /\ (r # 0 => j # r)
  BY EraseKeepsTable
<1>2. \A i, j \in DOMAIN e : i # j => e[i].counter # e[j].counter
  BY <1>1 DEF Tables, Distinct
<1>3. r \in DOMAIN tbl \cup {0} /\ DueEnds(tbl) = IF r = 0 THEN {} ELSE {tbl[r].readfd, tbl[r].writefd}
  BY SearchInTable DEF pipe_for_reading, DueEnds
<1> HIDE DEF r, e
<1>4. Obj("nr", u, 0) # Obj("nw", u, 0)
  BY ObjFields
<1>5. ASSUME NEW j \in DOMAIN tbl, r # 0 => j # r
      PROVE  tbl[j].readfd \notin DueEnds(tbl) /\ tbl[j].writefd \notin DueEnds(tbl)
  <2>1. CASE r = 0
    BY <1>3, <2>1
  <2>2. CASE r # 0
    <3>1. r \in DOMAIN tbl /\ j # r
      BY <1>3, <1>5, <2>2
    <3>. QED  BY <1>3, <1>4, <2>2, <3>1 DEF Owns
  <2>. QED  BY <2>1, <2>2
<1>6. ASSUME NEW i \in DOMAIN e
      PROVE  s[e[i].readfd] = Obj("nr", u, 0) /\ s[e[i].writefd] = Obj("nw", u, 0)
  <2>1. PICK j \in DOMAIN tbl : e[i] = tbl[j] /\ (r # 0 => j # r)
    BY <1>1
  <2>2. tbl[j].readfd \in Fds /\ tbl[j].writefd \in Fds
    BY EntryFds
  <2>3. t[tbl[j].readfd] = Obj("nr", u, 0) /\ t[tbl[j].writefd] = Obj("nw", u, 0)
    BY DEF Owns
  <2>. QED  BY <1>5, <2>1, <2>2, <2>3
<1>7. ASSUME NEW i \in DOMAIN e, NEW j \in DOMAIN e, i # j
      PROVE  e[i].readfd # e[j].readfd /\ e[i].writefd # e[j].writefd
  <2>1. PICK x \in DOMAIN tbl : e[i] = tbl[x]
    BY <1>1
  <2>2. PICK y \in DOMAIN tbl : e[j] = tbl[y]
    BY <1>1
  <2>3. x # y
    BY <1>2, <1>7, <2>1, <2>2
  <2>. QED  BY <2>1, <2>2, <2>3 DEF Owns
<1>. QED  BY <1>6, <1>7 DEF Owns, e

(* A pipe on two descriptors that nothing else uses. *)
LEMMA AppendOwned ==
    ASSUME TypeInv, AtOutput, pipe_for_writing(Table, pipeN) = 0, NEW p \in PipeFds(fdt),
           Owns(fdt, Table, Me), NEW t,
           t = [fdt EXCEPT ![p[1]] = Obj("nr", Me, 0), ![p[2]] = Obj("nw", Me, 0)]
    PROVE  Owns(t, NewTable(p), Me)
<1>1. fdt \in [Fds -> Objects] /\ Table \in Tables
  BY OutputFacts
<1>2. /\ p[1] \in Fds /\ p[2] \in Fds /\ p[1] # p[2] /\ p \in Fds \X Fds
      /\ fdt[p[1]] = Closed /\ fdt[p[2]] = Closed
  BY <1>1, FreshFds
<1>3. /\ t[p[1]] = Obj("nr", Me, 0) /\ t[p[2]] = Obj("nw", Me, 0)
      /\ \A f \in Fds : f # p[1] /\ f # p[2] => t[f] = fdt[f]
  BY <1>1, <1>2
<1>4. \A i \in DOMAIN Table :
          /\ Table[i].readfd \in Fds /\ Table[i].writefd \in Fds
          /\ Table[i].readfd \notin {p[1], p[2]} /\ Table[i].writefd \notin {p[1], p[2]}
  BY <1>1, <1>2, EntryFds, ObjFields, ClosedKind DEF Owns
<1> DEFINE n == Len(Table) + 1
           q == NewTable(p)
<1>5. /\ DOMAIN q = DOMAIN Table \cup {n} /\ \A i \in DOMAIN Table : q[i] = Table[i]
      /\ q[n].readfd = p[1] /\ q[n].writefd = p[2]
  BY <1>2, NewTableTyped
<1> HIDE DEF n, q
<1>6. ASSUME NEW i \in DOMAIN q
      PROVE  t[q[i].readfd] = Obj("nr", Me, 0) /\ t[q[i].writefd] = Obj("nw", Me, 0)
  <2>1. CASE i = n
    BY <1>3, <1>5, <2>1
  <2>2. CASE i \in DOMAIN Table
    <3>1. fdt[Table[i].readfd] = Obj("nr", Me, 0) /\ fdt[Table[i].writefd] = Obj("nw", Me, 0)
      BY <2>2 DEF Owns
    <3>2. /\ Table[i].readfd \in Fds /\ Table[i].writefd \in Fds
          /\ Table[i].readfd \notin {p[1], p[2]} /\ Table[i].writefd \notin {p[1], p[2]}
      BY <1>4, <2>2
    <3>3. t[Table[i].readfd] = fdt[Table[i].readfd] /\ t[Table[i].writefd] = fdt[Table[i].writefd]
      BY Zenon, <1>3, <3>2
    <3>4. q[i] = Table[i]
      BY <1>5, <2>2
    <3>. QED  BY <3>1, <3>3, <3>4
  <2>. QED  BY <1>5, <2>1, <2>2
<1>7. ASSUME NEW i \in DOMAIN q, NEW j \in DOMAIN q, i # j
      PROVE  q[i].readfd # q[j].readfd /\ q[i].writefd # q[j].writefd
  <2>1. CASE i \in DOMAIN Table /\ j \in DOMAIN Table
    BY <1>5, <1>7, <2>1 DEF Owns
  <2>2. CASE i = n /\ j \in DOMAIN Table
    BY <1>4, <1>5, <2>2
  <2>3. CASE i \in DOMAIN Table /\ j = n
    BY <1>4, <1>5, <2>3
  <2>. QED  BY <1>5, <1>7, <2>1, <2>2, <2>3
<1>. QED  BY <1>6, <1>7 DEF Owns, q

(* Of the descriptors open, a command closes only its user's own numbered  *)
(* pipes, its own input and what it has opened itself.                     *)
OnlyOwn ==
    \A f \in Fds :
        \/ fdt'[f] = fdt[f]
        \/ /\ fdt'[f].kind \notin {"sock", "dead"}
           /\ \/ fdt[f] \in {Closed, Obj("nr", Me, 0), Obj("nw", Me, 0)}
              \/ cur.pc = "out" /\ Cmd.in # 0 /\ f = cur.readfd

CommandFds ==
    /\ OnlyOwn
    /\ Owns(fdt', slots'[Me].npipes, Me)
    /\ HasInput'
    /\ status' # "exited"

(* Every record of a pipe that a command leaves is old or of a new pipe.   *)
NewRecords ==
    \A s, r \in Users : slots'[r].sent_fd[s] > 0 =>
        \/ slots'[r].sent_fd[s] = slots[r].sent_fd[s]
        \/ fdt'[slots'[r].sent_fd[s]] = Obj("ur", s, r)

LEMMA CommandKeeps ==
    ASSUME TypeInv, TypeInv', Descriptors, Executing, CommandFds, NewRecords,
           \A v \in Users : slots'[v].fd = slots[v].fd,
           \A v \in Users \ {Me} : slots'[v].npipes = slots[v].npipes
    PROVE  Descriptors'
<1>1. /\ UNCHANGED <<afds, fd_uid_map>> /\ afds \subseteq Fds
      /\ fdt \in [Fds -> Objects] /\ slots \in [Users -> SlotRecords]
      /\ slots' \in [Users -> SlotRecords]
  BY DEF Executing, TypeInv
<1>2. Closed.kind \notin {"sock", "dead", "ur"}
  BY ClosedKind
<1>3. \A f \in Fds : cur.pc = "out" /\ Cmd.in # 0 /\ f = cur.readfd =>
          fdt[f].kind \in {"null", "ur"}
  BY ObjFields DEF Descriptors, HasInput
<1>4. \A f \in Fds :
          \/ fdt'[f] = fdt[f]
          \/ /\ fdt'[f].kind \notin {"sock", "dead"} /\ fdt[f].kind \notin {"sock", "dead"}
  BY <1>2, <1>3, ObjFields DEF CommandFds, OnlyOwn
<1>5. Watched'
  <2>1. \A f \in Fds : f \in afds' <=> fdt'[f].kind \in {"sock", "dead"}
    BY <1>1, <1>4 DEF Descriptors, Watched
  <2>2. \A f \in afds : fdt'[f] = fdt[f]
    BY <1>1, <1>4 DEF Descriptors, Watched
  <2>3. \A f \in afds :
          /\ fd_uid_map[f] = fdt[f].a
          /\ fd_uid_map[f] \in Users => slots[fd_uid_map[f]].fd = f
    BY DEF Descriptors, Watched
  <2>4. \A f \in afds' :
          /\ fd_uid_map'[f] = fdt'[f].a
          /\ fd_uid_map'[f] \in Users => slots'[fd_uid_map'[f]].fd = f
    BY <1>1, <2>2, <2>3
  <2>. QED  BY <2>1, <2>4 DEF Watched
<1>6. ASSUME NEW s \in Users, NEW r \in Users, slots'[r].sent_fd[s] > 0
      PROVE  fdt'[slots'[r].sent_fd[s]] = Obj("ur", s, r)
  <2>1. CASE slots'[r].sent_fd[s] = slots[r].sent_fd[s]
    <3> DEFINE f == slots[r].sent_fd[s]
    <3>1. f \in Fds
      BY <1>6, <2>1, SlotFields, PositiveIsFd
    <3>2. fdt[f] = Obj("ur", s, r)
      BY <1>6, <2>1 DEF Descriptors, Recorded
    <3>3. ~(cur.pc = "out" /\ Cmd.in # 0 /\ f = cur.readfd)
      <4> SUFFICES ASSUME cur.pc = "out", Cmd.in # 0, f = cur.readfd PROVE FALSE
        OBVIOUS
      <4>1. fdt[f] = Obj("ur", Cmd.in, Me) /\ ~(slots[Me].sent_fd[Cmd.in] > 0)
        BY <3>2, ObjFields DEF Descriptors, HasInput
      <4>2. s = Cmd.in /\ r = Me
        BY <3>2, <4>1, ObjFields
      <4>. QED  BY <1>6, <2>1, <4>1, <4>2
    <3>4. fdt'[f] = fdt[f]
      <4>1. fdt[f] \notin {Closed, Obj("nr", Me, 0), Obj("nw", Me, 0)}
        BY <3>2, ObjFields, ClosedKind
      <4>. QED  BY <3>1, <3>3, <4>1 DEF CommandFds, OnlyOwn
    <3>. QED  BY <2>1, <3>2, <3>4
  <2>. QED  BY <1>6, <2>1 DEF NewRecords
<1>7. ASSUME NEW u \in Users
      PROVE  Owns(fdt', slots'[u].npipes, u)
  <2>1. CASE u = Me
    BY <2>1 DEF CommandFds
  <2>2. CASE u # Me
    <3> DEFINE tbl == slots[u].npipes
    <3>1. tbl \in Tables /\ Owns(fdt, tbl, u) /\ slots'[u].npipes = tbl
      BY <1>1, <2>2 DEF SlotRecords, Descriptors
    <3>2. ASSUME NEW f \in Fds, fdt[f] \in {Obj("nr", u, 0), Obj("nw", u, 0)}
          PROVE  fdt'[f] = fdt[f]
      <4>1. fdt[f].kind \notin {"null", "ur"}
        BY <3>2, ObjFields
      <4>2. fdt[f] \notin {Closed, Obj("nr", Me, 0), Obj("nw", Me, 0)}
        BY <2>2, <3>2, ObjFields, ClosedKind
      <4>. QED  BY <1>3, <4>1, <4>2 DEF CommandFds, OnlyOwn
    <3> HIDE DEF tbl
    <3>3. \A i \in DOMAIN tbl : tbl[i].readfd \in Fds /\ tbl[i].writefd \in Fds
      BY <3>1, EntryFds
    <3>4. Owns(fdt', tbl, u)
      BY <3>1, <3>2, <3>3 DEF Owns
    <3>. QED  BY <3>1, <3>4
  <2>. QED  BY <2>1, <2>2
<1>. QED  BY <1>5, <1>6, <1>7 DEF Descriptors, Recorded, CommandFds

LEMMA ShellKeepsFds ==
    ASSUME TypeInv, TypeInv', Descriptors, ShellStep, CommandFds
    PROVE  Descriptors'
<1>1. NewRecords /\ Executing
  BY DEF ShellStep, ShellOnly, NewRecords
<1>2. /\ \A v \in Users : slots'[v].fd = slots[v].fd
      /\ \A v \in Users \ {Me} : slots'[v].npipes = slots[v].npipes
  BY DEF ShellStep, ShellOnly
<1>. QED  BY <1>1, <1>2, CommandKeeps

(* What closing the due pipe's ends does. *)
LEMMA DueClosed ==
    ASSUME TypeInv, NEW tbl \in Tables, Owns(fdt, tbl, Me), fdt' = CloseAll(fdt, DueEnds(tbl))
    PROVE  OnlyOwn /\ Owns(fdt', Erased(tbl), Me)
<1>1. \A f \in Fds : fdt'[f] = IF f \in DueEnds(tbl) THEN Closed ELSE fdt[f]
  BY CloseAllTyped DEF TypeInv
<1>2. OnlyOwn
  BY <1>1, DueOwned, ClosedKind DEF OnlyOwn
<1>3. Owns(fdt', Erased(tbl), Me)
  BY <1>1, EraseOwned
<1>. QED  BY <1>2, <1>3

(***************************************************************************)
(* The end of a command after the fork: t is the table of descriptors at   *)
(* the fork, which differs from fdt only where the command has opened      *)
(* something, and w is one of these when it is closed.  Nothing close_fd   *)
(* is called for is closed already.                                        *)
(***************************************************************************)
LEMMA ForkFds ==
    ASSUME TypeInv, Descriptors, AtOutput, NEW tbl \in Tables, NEW t \in [Fds -> Objects],
           NEW w, NEW F, AfterFork(tbl, t, w, F), Owns(t, tbl, Me),
           \A f \in Fds : t[f] = fdt[f] \/ fdt[f] = Closed,
           \A f \in Fds : t[f].kind \in {"sock", "dead"} => t[f] = fdt[f],
           Cmd.out # 0 => w \in Fds /\ fdt[w] = Closed /\ t[w].kind \in {"uw", "file"}
    PROVE  /\ OnlyOwn /\ Owns(fdt', Erased(tbl), Me) /\ status' # "exited"
           /\ \A f \in Fds : t[f].kind = "ur" /\ fdt[f] = Closed => fdt'[f] = t[f]
<1> DEFINE D == DueEnds(tbl)
           In == IF Cmd.in = 0 THEN {} ELSE {cur.readfd}
           Out == IF Cmd.out = 0 THEN {} ELSE {w}
           t1 == CloseAll(t, D)
           t2 == IF Cmd.in = 0 THEN t1 ELSE CloseAll(t1, {cur.readfd})
           t3 == IF Cmd.out = 0 THEN t2 ELSE CloseAll(t2, {w})
<1>1. /\ fdt' = t3
      /\ \/ (Cmd.in # 0 /\ t1[cur.readfd] = Closed) \/ (Cmd.out # 0 /\ t2[w] = Closed)
         \/ Writes(F)
  BY DEF AfterFork
<1>2. /\ t1 \in [Fds -> Objects]
      /\ \A f \in Fds : t1[f] = IF f \in D THEN Closed ELSE t[f]
  BY CloseAllTyped
<1> HIDE DEF t1
<1>3. /\ t2 \in [Fds -> Objects]
      /\ \A f \in Fds : t2[f] = IF f \in In THEN Closed ELSE t1[f]
  BY <1>2, CloseAllTyped
<1> HIDE DEF t2
<1>4. \A f \in Fds : t3[f] = IF f \in Out THEN Closed ELSE t2[f]
  BY <1>3, CloseAllTyped
<1> HIDE DEF t3
<1>5. \A f \in D : f \in Fds /\ t[f].kind \in {"nr", "nw"}
                    /\ t[f] \in {Obj("nr", Me, 0), Obj("nw", Me, 0)}
  BY DueOwned, ObjFields
<1>6. \A f \in In : f \in Fds /\ fdt[f].kind \in {"null", "ur"} /\ t[f] = fdt[f]
  <2>1. ASSUME Cmd.in # 0
        PROVE  /\ cur.readfd \in Fds /\ fdt[cur.readfd].kind \in {"null", "ur"}
               /\ t[cur.readfd] = fdt[cur.readfd]
    <3>1. cur.readfd \in Fds /\ fdt[cur.readfd].kind \in {"null", "ur"}
      BY <2>1, ObjFields DEF AtOutput, Descriptors, HasInput
    <3>. QED  BY <3>1, ClosedKind
  <2>. QED  BY <2>1
<1>7. \A f \in Out : f \in Fds /\ fdt[f] = Closed /\ t[f].kind \in {"uw", "file"}
  OBVIOUS
<1> HIDE DEF D
<1>8. status' # "exited"
  <2>1. ASSUME Cmd.in # 0 PROVE t1[cur.readfd] # Closed
    <3>1. cur.readfd \in Fds /\ t[cur.readfd].kind \in {"null", "ur"}
      BY <1>6, <2>1
    <3>2. cur.readfd \notin D
      BY <1>5, <3>1
    <3>. QED  BY <1>2, <3>1, <3>2, ClosedKind
  <2>2. ASSUME Cmd.out # 0 PROVE t2[w] # Closed
    <3>1. w \in Fds /\ t[w].kind \in {"uw", "file"}
      BY <1>7, <2>2
    <3>2. w \notin D /\ w \notin In
      BY <1>5, <1>6, <1>7, <2>2, <3>1, ClosedKind
    <3>. QED  BY <1>2, <1>3, <3>1, <3>2, ClosedKind
  <2>3. Writes(F)
    BY <1>1, <2>1, <2>2
  <2>. QED  BY <2>3, WritesTyped
<1>9. \A f \in Fds : fdt'[f] = IF f \in D \cup In \cup Out THEN Closed ELSE t[f]
  BY <1>1, <1>2, <1>3, <1>4
<1>10. OnlyOwn
  <2> SUFFICES ASSUME NEW f \in Fds, fdt'[f] # fdt[f]
               PROVE  /\ fdt'[f].kind \notin {"sock", "dead"}
                      /\ \/ fdt[f] \in {Closed, Obj("nr", Me, 0), Obj("nw", Me, 0)}
                         \/ cur.pc = "out" /\ Cmd.in # 0 /\ f = cur.readfd
    BY DEF OnlyOwn
  <2>1. fdt'[f].kind \notin {"sock", "dead"}
    <3>1. CASE f \in D \cup In \cup Out
      BY <1>9, <3>1, ClosedKind
    <3>2. CASE f \notin D \cup In \cup Out
      BY <1>9, <3>2
    <3>. QED  BY <3>1, <3>2
  <2>2. CASE f \in In
    BY <2>1, <2>2 DEF AtOutput
  <2>3. CASE f \in D
    BY <1>5, <2>1, <2>3
  <2>4. CASE f \notin D /\ f \notin In
    <3>1. CASE f \in Out
      BY <1>7, <2>1, <3>1
    <3>2. CASE f \notin Out
      BY <1>9, <2>1, <2>4, <3>2
    <3>. QED  BY <3>1, <3>2
  <2>. QED  BY <2>2, <2>3, <2>4
<1>11. Owns(fdt', Erased(tbl), Me)
  <2>1. ASSUME NEW f \in Fds, f \notin DueEnds(tbl), t[f] \in {Obj("nr", Me, 0), Obj("nw", Me, 0)}
        PROVE  fdt'[f] = t[f]
    <3>1. t[f].kind \in {"nr", "nw"}
      BY <2>1, ObjFields
    <3>2. f \notin In /\ f \notin Out
      BY <1>6, <1>7, <3>1
    <3>. QED  BY <1>9, <2>1, <3>2 DEF D
  <2>. QED  BY <2>1, EraseOwned
<1>12. ASSUME NEW f \in Fds, t[f].kind = "ur", fdt[f] = Closed
       PROVE  fdt'[f] = t[f]
  <2>1. f \notin D /\ f \notin Out
    BY <1>5, <1>7, <1>12
  <2>2. f \notin In
    BY <1>6, <1>12, ClosedKind
  <2>. QED  BY <1>9, <2>1, <2>2
<1>. QED  BY <1>8, <1>10, <1>11, <1>12

LEMMA TableOwned ==
    ASSUME TypeInv, Descriptors, cur.pc # "idle"
    PROVE  /\ Me \in Users /\ Table \in Tables /\ Updated \in Tables
           /\ Owns(fdt, Table, Me) /\ Owns(fdt, Updated, Me)
<1>1. Me \in Users /\ slots[Me] \in SlotRecords
  BY DEF TypeInv, Me
<1>2. Table \in Tables
  BY <1>1 DEF Table, SlotRecords
<1>3. Updated \in Tables
  BY <1>2, UpdateKeepsTable DEF Updated
<1>4. Owns(fdt, Table, Me)
  BY <1>1 DEF Descriptors, Table
<1>5. Owns(fdt, Updated, Me)
  BY <1>2, <1>4, UpdateOwned DEF Updated
<1>. QED  BY <1>1, <1>2, <1>3, <1>4, <1>5

LEMMA NoInput == cur'.pc # "out" => HasInput'
BY DEF HasInput

(* Commands that open and close nothing. *)
LEMMA UntouchedFds ==
    ASSUME TypeInv, Descriptors, cur.pc # "idle", fdt' = fdt, status' # "exited",
           slots'[Me].npipes \in {Table, Updated}, HasInput'
    PROVE  CommandFds
BY TableOwned DEF CommandFds, OnlyOwn

LEMMA BuiltinFds ==
    ASSUME TypeInv, TypeInv', Descriptors, CmdSetenv \/ CmdQuery \/ CmdName
    PROVE  Descriptors' /\ status' # "exited"
<1>1. cur.pc # "idle" /\ cur.line # <<>> /\ status = "up"
  BY DEF CmdSetenv, CmdQuery, CmdName, AtCommand
<1>2. ShellStep
  BY SetenvStep, QueryStep, NameStep
<1>3. Me \in Users /\ Updated \in Tables /\ slots \in [Users -> SlotRecords]
  BY <1>1, TableOwned DEF TypeInv
<1>4. slots'[Me].npipes = Updated
  <2>1. CASE CmdSetenv
    <3>1. Cmd.var \in EnvVars /\ Cmd.val \in EnvValues
      BY <1>1, CommandTyped DEF Commands
    <3>2. slots' = WithEnv(Me, Updated, Cmd.var, Cmd.val)
      BY <2>1 DEF CmdSetenv, WithEnv
    <3>. QED  BY <1>3, <3>1, <3>2, SetTableAndEnv
  <2>2. CASE CmdQuery
    BY <1>3, <2>2, SetTable DEF CmdQuery
  <2>3. CASE CmdName
    <3>1. Cmd.name \in Names \cup {""}
      BY <1>1, CommandTyped DEF Commands
    <3>. QED  BY <1>3, <2>3, <3>1, SetTable, SetTableAndName DEF CmdName
  <2>. QED  BY <2>1, <2>2, <2>3
<1>5. cur'.pc = "cmd"
  BY <1>1, NextCommandTyped DEF CmdSetenv, CmdQuery, CmdName
<1>6. fdt' = fdt /\ status' # "exited"
  BY <1>1, WritesTyped DEF CmdSetenv, CmdQuery, CmdName
<1>7. CommandFds
  BY <1>1, <1>4, <1>5, <1>6, NoInput, UntouchedFds
<1>. QED  BY <1>2, <1>6, <1>7, ShellKeepsFds

LEMMA SayFds ==
    ASSUME TypeInv, TypeInv', Descriptors, CmdTell \/ CmdYell
    PROVE  Descriptors' /\ status' # "exited"
<1>1. cur.pc = "cmd" /\ cur.line # <<>>
  BY DEF CmdTell, CmdYell, AtCommand
<1>2. PICK F : Say(F)
  BY DEF CmdTell, CmdYell
<1>3. ShellStep
  BY <1>1, <1>2, SayStep
<1>4. /\ Me \in Users /\ Updated \in Tables /\ Owns(fdt, Updated, Me)
      /\ Erased(Updated) \in Tables /\ slots \in [Users -> SlotRecords]
  BY <1>1, TableOwned, CommandTyped DEF TypeInv
<1>5. slots'[Me].npipes = Erased(Updated)
  BY <1>2, <1>4, SetTable DEF Say
<1>6. OnlyOwn /\ Owns(fdt', Erased(Updated), Me)
  BY <1>2, <1>4, DueClosed DEF Say
<1>7. cur'.pc = "cmd"
  BY <1>1, <1>2, RestDropped DEF Say
<1>8. status' # "exited"
  BY <1>2, WritesTyped DEF Say
<1>9. CommandFds
  BY <1>5, <1>6, <1>7, <1>8, NoInput DEF CommandFds
<1>. QED  BY <1>3, <1>8, <1>9, ShellKeepsFds

(* "<N" and commands without it. *)
LEMMA InputCommand ==
    ASSUME TypeInv, AtCommand, Cmd.prog = "run", InBounds, NEW x \in {0} \cup Fds, ToOutput(x)
    PROVE  Cmd' = Cmd /\ Me' = Me /\ cur'.readfd = x
BY ToOutputTyped DEF Cmd, Me, Continues

LEMMA PlainInputFds ==
    ASSUME TypeInv, TypeInv', Descriptors, NoUserPipeIn
    PROVE  Descriptors' /\ status' # "exited"
<1> USE DEF NoUserPipeIn
<1>1. cur.pc # "idle" /\ status = "up" /\ fdt' = fdt /\ status' # "exited"
  BY DEF AtCommand
<1>2. ShellStep
  BY PlainInputStep
<1>3. slots'[Me].npipes = Updated
  BY <1>1, TableOwned, SetTable DEF TypeInv
<1>4. HasInput'
  BY InputCommand DEF HasInput
<1>. QED  BY <1>1, <1>2, <1>3, <1>4, UntouchedFds, ShellKeepsFds

LEMMA NullInputFds ==
    ASSUME TypeInv, TypeInv', Descriptors, UserPipeInError
    PROVE  Descriptors' /\ status' # "exited"
<1>1. cur.pc # "idle" /\ AtCommand /\ Cmd.prog = "run" /\ InBounds
  BY DEF AtCommand, UserPipeInError
<1>2. ShellStep
  BY NullInputStep
<1>3. slots' = [slots EXCEPT ![Me].npipes = Updated] /\ status' # "exited"
  BY WritesTyped DEF UserPipeInError
<1>4. PICK f \in LowestFree(fdt) : fdt' = [fdt EXCEPT ![f] = Obj("null", 0, 0)] /\ ToOutput(f)
  BY DEF UserPipeInError
<1>5. fdt \in [Fds -> Objects] /\ f \in Fds /\ fdt[f] = Closed
  BY FreshFds DEF TypeInv
<1>6. \A g \in Fds : fdt'[g] = IF g = f THEN Obj("null", 0, 0) ELSE fdt[g]
  BY <1>4, <1>5
<1>7. OnlyOwn
  BY <1>5, <1>6, ObjFields DEF OnlyOwn
<1>8. Me \in Users /\ Updated \in Tables /\ Owns(fdt, Updated, Me)
  BY <1>1, TableOwned
<1>9. slots'[Me].npipes = Updated
  BY <1>3, <1>8, SetTable DEF TypeInv
<1>10. Owns(fdt', Updated, Me)
  <2>1. \A i \in DOMAIN Updated : Updated[i].readfd \in Fds /\ Updated[i].writefd \in Fds
    BY <1>8, EntryFds
  <2>2. Closed # Obj("nr", Me, 0) /\ Closed # Obj("nw", Me, 0)
    BY ObjFields, ClosedKind
  <2>. QED  BY <1>5, <1>6, <1>8, <2>1, <2>2 DEF Owns
<1>11. HasInput'
  <2>1. cur'.readfd = f
    BY <1>1, <1>4, <1>5, InputCommand
  <2>2. fdt'[cur'.readfd] = Obj("null", 0, 0)
    BY <1>5, <1>6, <2>1
  <2>. QED  BY <1>5, <2>1, <2>2 DEF HasInput
<1>12. CommandFds
  BY <1>3, <1>7, <1>9, <1>10, <1>11 DEF CommandFds
<1>. QED  BY <1>2, <1>3, <1>12, ShellKeepsFds

LEMMA TakeFds ==
    ASSUME TypeInv, TypeInv', Descriptors, UserPipeIn
    PROVE  Descriptors' /\ status' # "exited"
<1>1. /\ cur.pc # "idle" /\ AtCommand /\ Cmd.prog = "run" /\ InBounds
      /\ slots[Me].sent_fd[Cmd.in] > 0 /\ ToOutput(slots[Me].sent_fd[Cmd.in])
  BY DEF AtCommand, UserPipeIn, user_pipe_exists
<1>2. Me \in Users /\ Updated \in Tables /\ Cmd.in \in Users
  BY <1>1, TableOwned DEF UserPipeIn, InBounds
<1>3. Executing
  BY TakeStep DEF Takes
<1>4. fdt' = fdt /\ status' # "exited"
  BY WritesTyped DEF UserPipeIn
<1>5. slots' = WithRecords(Cmd.in, Me, -1, -1, Me, Updated)
  BY DEF UserPipeIn, WithRecords
<1>6. slots'[Me].npipes = Updated /\ RecordsPipe(Cmd.in, Me, -1, -1, Me)
  <2>1. slots \in [Users -> SlotRecords] /\ Me \in {Cmd.in, Me} /\ -1 \in {-1} \cup Fds
    BY DEF TypeInv
  <2>. QED  BY Zenon, <1>2, <1>5, <2>1, SetRecords
<1>7. ASSUME NEW v \in Users
      PROVE  /\ slots'[v].fd = slots[v].fd
             /\ v # Me => slots'[v].npipes = slots[v].npipes
             /\ \A w \in Users :
                  slots'[v].sent_fd[w] = IF v = Me /\ w = Cmd.in THEN -1 ELSE slots[v].sent_fd[w]
  <2>1. slots[v].sent_fd \in Rows
    BY SlotFields
  <2>. QED  BY <1>6, <2>1 DEF RecordsPipe, Rows
<1>8. NewRecords
  BY <1>7 DEF NewRecords
<1>9. HasInput'
  <2> DEFINE f == slots[Me].sent_fd[Cmd.in]
  <2>1. f \in Fds /\ fdt[f] = Obj("ur", Cmd.in, Me)
    BY <1>1, <1>2, SlotFields, PositiveIsFd DEF Descriptors, Recorded
  <2>2. cur'.readfd = f /\ Cmd' = Cmd /\ Me' = Me
    BY <1>1, <2>1, InputCommand
  <2>3. ~(slots'[Me].sent_fd[Cmd.in] > 0)
    BY <1>2, <1>7
  <2>. QED  BY <1>4, <2>1, <2>2, <2>3 DEF HasInput
<1>10. CommandFds
  BY <1>1, <1>4, <1>6, <1>9, UntouchedFds
<1>. QED  BY <1>3, <1>4, <1>7, <1>8, <1>10, CommandKeeps

(* ">N" and the other ways a command's output can go. *)
LEMMA AtForkEnd ==
    ASSUME TypeInv, AtOutput, NEW tbl, NEW t, NEW w, NEW F, AfterFork(tbl, t, w, F)
    PROVE  HasInput'
<1>1. cur'.pc = "cmd"
  BY OutputFacts, NextCommandTyped DEF AfterFork
<1>. QED  BY <1>1, NoInput

LEMMA PlainCommand ==
    ASSUME TypeInv, AtOutput, PlainLine(cur.line), Cmd.op \in {"|", "!"}
    PROVE  Cmd.out = 0
<1>1. cur.line \in Seq(Commands) /\ cur.line # <<>>
  BY OutputFacts DEF TypeInv, CommandLines
<1>. QED  BY <1>1, PlainTail DEF Cmd

LEMMA NoNewFds ==
    ASSUME TypeInv, TypeInv', Descriptors, AtOutput, NEW w, NEW F,
           AfterFork(Table, fdt, w, F), Cmd.out = 0, ShellStep,
           slots' = [slots EXCEPT ![Me].npipes = Erased(Table)]
    PROVE  Descriptors' /\ status' # "exited"
<1>1. /\ fdt \in [Fds -> Objects] /\ Me \in Users /\ Table \in Tables /\ Erased(Table) \in Tables
      /\ Owns(fdt, Table, Me)
  BY OutputFacts, TableOwned
<1>2. OnlyOwn /\ Owns(fdt', Erased(Table), Me) /\ status' # "exited"
  BY <1>1, ForkFds
<1>3. slots'[Me].npipes = Erased(Table)
  BY <1>1, SetTable DEF TypeInv
<1>4. HasInput'
  BY AtForkEnd
<1>5. CommandFds
  BY <1>2, <1>3, <1>4 DEF CommandFds
<1>. QED  BY <1>2, <1>5, ShellKeepsFds

LEMMA OldPipeFds ==
    ASSUME TypeInv, TypeInv', Descriptors, PlainLine(cur.line), ToOldPipe
    PROVE  Descriptors' /\ status' # "exited"
<1>1. AtOutput /\ Cmd.op \in {"|", "!"} /\ slots' = [slots EXCEPT ![Me].npipes = Erased(Table)]
  BY DEF ToOldPipe
<1>2. PICK w : AfterFork(Table, fdt, w, {})
  BY DEF ToOldPipe
<1>3. Cmd.out = 0
  BY <1>1, PlainCommand
<1>. QED  BY <1>1, <1>2, <1>3, OldPipeStep, NoNewFds

LEMMA ClientFds ==
    ASSUME TypeInv, TypeInv', Descriptors, ToClient
    PROVE  Descriptors' /\ status' # "exited"
BY ClientStep, NoNewFds DEF ToClient

LEMMA NewPipeFds ==
    ASSUME TypeInv, TypeInv', Descriptors, PlainLine(cur.line), ToNewPipe
    PROVE  Descriptors' /\ status' # "exited"
<1>1. AtOutput /\ pipe_for_writing(Table, pipeN) = 0 /\ Cmd.op \in {"|", "!"}
  BY DEF ToNewPipe
<1>2. PICK p \in PipeFds(fdt) :
         /\ AfterFork(NewTable(p), [fdt EXCEPT ![p[1]] = Obj("nr", Me, 0),
                                              ![p[2]] = Obj("nw", Me, 0)], p[2], {})
         /\ slots' = [slots EXCEPT ![Me].npipes = Erased(NewTable(p))]
  BY DEF ToNewPipe, NewTable
<1> DEFINE t == [fdt EXCEPT ![p[1]] = Obj("nr", Me, 0), ![p[2]] = Obj("nw", Me, 0)]
<1>3. fdt \in [Fds -> Objects] /\ Me \in Nat /\ Me \in Users /\ Owns(fdt, Table, Me)
  BY <1>1, OutputFacts, TableOwned
<1>4. /\ p[1] \in Fds /\ p[2] \in Fds /\ p \in Fds \X Fds /\ p[1] # p[2]
      /\ fdt[p[1]] = Closed /\ fdt[p[2]] = Closed
  BY <1>3, FreshFds
<1>5. t \in [Fds -> Objects]
  BY <1>3, <1>4, OpenTyped DEF Kinds
<1>6. NewTable(p) \in Tables /\ Erased(NewTable(p)) \in Tables
  BY <1>1, <1>4, NewTableTyped
<1>7. Owns(t, NewTable(p), Me)
  BY <1>1, <1>3, AppendOwned
<1>8. Cmd.out = 0
  BY <1>1, PlainCommand
<1>9. \A f \in Fds : t[f] = IF f = p[2] THEN Obj("nw", Me, 0)
                           ELSE IF f = p[1] THEN Obj("nr", Me, 0) ELSE fdt[f]
  BY <1>3, <1>4
<1> HIDE DEF t
<1>10. /\ \A f \in Fds : t[f] = fdt[f] \/ fdt[f] = Closed
       /\ \A f \in Fds : t[f].kind \in {"sock", "dead"} => t[f] = fdt[f]
  BY <1>4, <1>9, ObjFields
<1>11. AfterFork(NewTable(p), t, p[2], {})
  BY <1>2 DEF t
<1>12. OnlyOwn /\ Owns(fdt', Erased(NewTable(p)), Me) /\ status' # "exited"
  BY <1>1, <1>5, <1>6, <1>7, <1>8, <1>10, <1>11, ForkFds
<1>13. slots'[Me].npipes = Erased(NewTable(p))
  BY <1>2, <1>3, <1>6, SetTable DEF TypeInv
<1>14. HasInput'
  BY <1>1, <1>11, AtForkEnd
<1>15. CommandFds
  BY <1>12, <1>13, <1>14 DEF CommandFds
<1>. QED  BY <1>12, <1>15, NewPipeStep, ShellKeepsFds

LEMMA FileFds ==
    ASSUME TypeInv, TypeInv', Descriptors, ToFile
    PROVE  Descriptors' /\ status' # "exited"
<1>1. AtOutput /\ slots' = [slots EXCEPT ![Me].npipes = Erased(Table)]
  BY DEF ToFile
<1>2. PICK f \in LowestFree(fdt) :
         AfterFork(Table, [fdt EXCEPT ![f] = Obj("file", 0, 0)], f, {})
  BY DEF ToFile
<1> DEFINE t == [fdt EXCEPT ![f] = Obj("file", 0, 0)]
<1>3. /\ fdt \in [Fds -> Objects] /\ Me \in Users /\ Table \in Tables /\ Erased(Table) \in Tables
      /\ Owns(fdt, Table, Me)
  BY <1>1, OutputFacts, TableOwned
<1>4. f \in Fds /\ fdt[f] = Closed
  BY <1>3, FreshFds
<1>5. t \in [Fds -> Objects] /\ \A g \in Fds : t[g] = IF g = f THEN Obj("file", 0, 0) ELSE fdt[g]
  BY <1>3, <1>4, OpenTyped DEF Kinds
<1>6. AfterFork(Table, t, f, {})
  BY <1>2
<1> HIDE DEF t
<1>7. /\ \A g \in Fds : t[g] = fdt[g] \/ fdt[g] = Closed
      /\ \A g \in Fds : t[g].kind \in {"sock", "dead"} => t[g] = fdt[g]
      /\ t[f].kind \in {"uw", "file"}
  BY <1>4, <1>5, ObjFields
<1>8. Owns(t, Table, Me)
  <2>1. \A i \in DOMAIN Table : Table[i].readfd \in Fds /\ Table[i].writefd \in Fds
    BY <1>3, EntryFds
  <2>2. Closed # Obj("nr", Me, 0) /\ Closed # Obj("nw", Me, 0)
    BY ObjFields, ClosedKind
  <2>. QED  BY <1>3, <1>7, <2>1, <2>2 DEF Owns
<1>9. OnlyOwn /\ Owns(fdt', Erased(Table), Me) /\ status' # "exited"
  BY <1>1, <1>3, <1>4, <1>5, <1>6, <1>7, <1>8, ForkFds
<1>10. slots'[Me].npipes = Erased(Table)
  BY <1>1, <1>3, SetTable DEF TypeInv
<1>11. HasInput'
  BY <1>1, <1>6, AtForkEnd
<1>12. CommandFds
  BY <1>9, <1>10, <1>11 DEF CommandFds
<1>. QED  BY <1>9, <1>12, FileStep, ShellKeepsFds

LEMMA OpenFailsFds ==
    ASSUME TypeInv, TypeInv', Descriptors, OpenFails
    PROVE  Descriptors' /\ status' # "exited"
<1>1. AtOutput /\ cur.pc # "idle" /\ cur.line # <<>> /\ status = "up"
  BY OutputFacts DEF OpenFails, AtOutput
<1>2. fdt' = fdt /\ slots' = slots /\ status' = status /\ NextCommand
  BY DEF OpenFails
<1>3. HasInput'
  BY <1>1, <1>2, NextCommandTyped, NoInput
<1>4. CommandFds
  BY <1>1, <1>2, <1>3, UntouchedFds DEF Table
<1>. QED  BY <1>1, <1>2, <1>4, OpenFailsStep, ShellKeepsFds

LEMMA GiveErrorFds ==
    ASSUME TypeInv, TypeInv', Descriptors, UserPipeOutError
    PROVE  Descriptors' /\ status' # "exited"
<1>1. AtOutput /\ cur.pc # "idle" /\ cur.line # <<>>
  BY OutputFacts DEF UserPipeOutError
<1>2. /\ fdt' = CloseAll(fdt, DueEnds(Table)) /\ NextCommand
      /\ slots' = [slots EXCEPT ![Me].npipes = Erased(Table)] /\ status' # "exited"
  BY WritesTyped DEF UserPipeOutError
<1>3. /\ Me \in Users /\ Table \in Tables /\ Erased(Table) \in Tables /\ Owns(fdt, Table, Me)
  BY <1>1, OutputFacts, TableOwned
<1>4. OnlyOwn /\ Owns(fdt', Erased(Table), Me)
  BY <1>2, <1>3, DueClosed
<1>5. slots'[Me].npipes = Erased(Table)
  BY <1>2, <1>3, SetTable DEF TypeInv
<1>6. HasInput'
  BY <1>1, <1>2, NextCommandTyped, NoInput
<1>7. CommandFds
  BY <1>2, <1>4, <1>5, <1>6 DEF CommandFds
<1>. QED  BY <1>2, <1>7, GiveErrorStep, ShellKeepsFds

LEMMA GiveFds ==
    ASSUME TypeInv, TypeInv', Descriptors, UserPipeOut
    PROVE  Descriptors' /\ status' # "exited"
<1>1. AtOutput /\ Cmd.op = "none" /\ Cmd.out # 0
  BY DEF UserPipeOut
<1>2. Cmd.out \in Users /\ Cmd.out \in Nat
  BY <1>1 DEF TypeInv, AtOutput, InBounds, Users
<1>3. PICK p \in PipeFds(fdt) :
         /\ AfterFork(Table, [fdt EXCEPT ![p[1]] = Obj("ur", Me, Cmd.out),
                                        ![p[2]] = Obj("uw", Me, Cmd.out)], p[2], BroadcastFds)
         /\ slots' = WithRecords(Me, Cmd.out, p[1], p[2], Me, Erased(Table))
  BY DEF UserPipeOut, WithRecords
<1> DEFINE t == [fdt EXCEPT ![p[1]] = Obj("ur", Me, Cmd.out), ![p[2]] = Obj("uw", Me, Cmd.out)]
<1>4. /\ fdt \in [Fds -> Objects] /\ Me \in Users /\ Me \in Nat /\ Erased(Table) \in Tables
      /\ Table \in Tables /\ Owns(fdt, Table, Me)
  BY <1>1, OutputFacts, TableOwned
<1>5. /\ p[1] \in Fds /\ p[2] \in Fds /\ p[1] # p[2]
      /\ fdt[p[1]] = Closed /\ fdt[p[2]] = Closed
  BY <1>4, FreshFds
<1>6. /\ t \in [Fds -> Objects]
      /\ \A f \in Fds : t[f] = IF f = p[2] THEN Obj("uw", Me, Cmd.out)
                               ELSE IF f = p[1] THEN Obj("ur", Me, Cmd.out) ELSE fdt[f]
  BY <1>2, <1>4, <1>5, OpenTyped DEF Kinds
<1>7. AfterFork(Table, t, p[2], BroadcastFds)
  BY <1>3
<1> HIDE DEF t
<1>8. /\ \A f \in Fds : t[f] = fdt[f] \/ fdt[f] = Closed
      /\ \A f \in Fds : t[f].kind \in {"sock", "dead"} => t[f] = fdt[f]
      /\ t[p[2]].kind \in {"uw", "file"} /\ t[p[1]] = Obj("ur", Me, Cmd.out)
      /\ t[p[1]].kind = "ur"
  BY <1>5, <1>6, ObjFields
<1>9. Owns(t, Table, Me)
  <2>1. \A i \in DOMAIN Table : Table[i].readfd \in Fds /\ Table[i].writefd \in Fds
    BY <1>4, EntryFds
  <2>2. Closed # Obj("nr", Me, 0) /\ Closed # Obj("nw", Me, 0)
    BY ObjFields, ClosedKind
  <2>. QED  BY <1>4, <1>8, <2>1, <2>2 DEF Owns
<1>10. /\ OnlyOwn /\ Owns(fdt', Erased(Table), Me) /\ status' # "exited"
       /\ \A f \in Fds : t[f].kind = "ur" /\ fdt[f] = Closed => fdt'[f] = t[f]
  <2>1. Cmd.out # 0 => p[2] \in Fds /\ fdt[p[2]] = Closed /\ t[p[2]].kind \in {"uw", "file"}
    BY <1>5, <1>8
  <2>2. /\ \A f \in Fds : t[f] = fdt[f] \/ fdt[f] = Closed
        /\ \A f \in Fds : t[f].kind \in {"sock", "dead"} => t[f] = fdt[f]
    BY <1>8
  <2>3. t \in [Fds -> Objects]
    BY <1>6
  <2>. QED  BY <1>1, <1>4, <1>7, <1>9, <2>1, <2>2, <2>3, ForkFds
<1>11. fdt'[p[1]] = Obj("ur", Me, Cmd.out)
  BY <1>5, <1>8, <1>10
<1>12. slots'[Me].npipes = Erased(Table) /\ RecordsPipe(Me, Cmd.out, p[1], p[2], Me)
  <2>1. /\ p[1] \in {-1} \cup Fds /\ p[2] \in {-1} \cup Fds /\ Me \in {Me, Cmd.out}
        /\ slots \in [Users -> SlotRecords]
    BY <1>5 DEF TypeInv
  <2>2. ASSUME NEW a \in {-1} \cup Fds, NEW b \in {-1} \cup Fds,
               slots' = WithRecords(Me, Cmd.out, a, b, Me, Erased(Table))
        PROVE  slots'[Me].npipes = Erased(Table) /\ RecordsPipe(Me, Cmd.out, a, b, Me)
    BY Zenon, <1>2, <1>4, <2>1, <2>2, SetRecords
  <2>. QED  BY <1>3, <2>1, <2>2
<1>13. ASSUME NEW v \in Users
       PROVE  /\ slots'[v].fd = slots[v].fd
              /\ v # Me => slots'[v].npipes = slots[v].npipes
              /\ \A w \in Users :
                   slots'[v].sent_fd[w] = IF v = Cmd.out /\ w = Me THEN p[1] ELSE slots[v].sent_fd[w]
  <2>1. slots[v].sent_fd \in Rows
    BY SlotFields
  <2>. QED  BY <1>2, <1>4, <1>12, <2>1 DEF RecordsPipe, Rows
<1>14. NewRecords
  BY <1>11, <1>13 DEF NewRecords
<1>15. HasInput'
  BY <1>1, <1>7, AtForkEnd
<1>16. CommandFds
  BY <1>10, <1>12, <1>15 DEF CommandFds
<1>17. Executing
  BY GiveStep DEF Gives
<1>. QED  BY <1>10, <1>13, <1>14, <1>16, <1>17, CommandKeeps

(* Numbers in the tables. *)
LEMMA RecordedFd ==
    ASSUME TypeInv, Recorded, NEW s \in Users, NEW r \in Users, slots[r].sent_fd[s] > 0
    PROVE  slots[r].sent_fd[s] \in Fds /\ fdt[slots[r].sent_fd[s]] = Obj("ur", s, r)
BY SlotFields, PositiveIsFd DEF Recorded

LEMMA OwnedFrame ==
    ASSUME NEW t, NEW s, NEW tbl \in Tables, NEW u, Owns(t, tbl, u),
           \A f \in Fds : t[f].kind \in {"nr", "nw"} => s[f] = t[f]
    PROVE  Owns(s, tbl, u)
<1>1. \A i \in DOMAIN tbl : tbl[i].readfd \in Fds /\ tbl[i].writefd \in Fds
  BY EntryFds
<1>2. Obj("nr", u, 0).kind = "nr" /\ Obj("nw", u, 0).kind = "nw"
  BY ObjFields
<1>. QED  BY <1>1, <1>2 DEF Owns

LEMMA SlotTable == ASSUME TypeInv, NEW u \in Users PROVE slots[u].npipes \in Tables
BY DEF TypeInv, SlotRecords

LEMMA EmptyOwned == \A t, u : Owns(t, <<>>, u)
BY DEF Owns

(* The end of a line, a line to execute, a client that closes. *)
LEMMA QuietFds ==
    ASSUME TypeInv, TypeInv', Descriptors, slots' = slots, afds' = afds, fd_uid_map' = fd_uid_map,
           cur' = cur \/ cur'.pc # "out",
           fdt' = fdt \/ \E f \in Fds : fdt[f].kind = "sock" /\ fdt' = [fdt EXCEPT ![f].kind = "dead"]
    PROVE  Descriptors'
<1>0. fdt \in [Fds -> Objects] /\ fdt' \in [Fds -> Objects]
  BY DEF TypeInv
<1>1. \A f \in Fds :
          \/ fdt'[f] = fdt[f]
          \/ fdt[f].kind = "sock" /\ fdt'[f].kind = "dead" /\ fdt'[f].a = fdt[f].a
  <2>1. ASSUME NEW g \in Fds, fdt[g].kind = "sock", fdt' = [fdt EXCEPT ![g].kind = "dead"],
               NEW f \in Fds
        PROVE  \/ fdt'[f] = fdt[f]
               \/ fdt[f].kind = "sock" /\ fdt'[f].kind = "dead" /\ fdt'[f].a = fdt[f].a
    <3>1. fdt[g] \in Objects
      BY <1>0
    <3>2. [fdt[g] EXCEPT !.kind = "dead"].kind = "dead" /\ [fdt[g] EXCEPT !.kind = "dead"].a = fdt[g].a
      BY <3>1 DEF Objects
    <3>3. fdt'[f] = IF f = g THEN [fdt[g] EXCEPT !.kind = "dead"] ELSE fdt[f]
      BY <1>0, <2>1
    <3>. QED  BY <2>1, <3>2, <3>3
  <2>. QED  BY <2>1
<1>2. Watched'
  <2>1. afds \subseteq Fds
    BY DEF TypeInv
  <2>. QED  BY <1>1, <2>1 DEF Descriptors, Watched
<1>3. Recorded'
  <2>1. ASSUME NEW s \in Users, NEW r \in Users, slots[r].sent_fd[s] > 0
        PROVE  fdt'[slots[r].sent_fd[s]] = Obj("ur", s, r)
    BY <1>1, <2>1, RecordedFd, ObjFields DEF Descriptors
  <2>. QED  BY <2>1 DEF Recorded
<1>4. \A u \in Users : Owns(fdt', slots'[u].npipes, u)
  BY <1>1, OwnedFrame, SlotTable DEF Descriptors
<1>5. HasInput'
  <2>1. CASE cur'.pc # "out"
    BY <2>1, NoInput
  <2>2. CASE cur' = cur
    <3>1. Cmd' = Cmd /\ Me' = Me
      BY <2>2 DEF Cmd, Me
    <3>. QED  BY <1>1, <2>2, <3>1, ObjFields DEF HasInput, Descriptors
  <2>. QED  BY <2>1, <2>2
<1>. QED  BY <1>2, <1>3, <1>4, <1>5 DEF Descriptors

LEMMA EndOfInputFds ==
    ASSUME TypeInv, TypeInv', Descriptors, NEW f \in Fds, EndOfInput(f)
    PROVE  Descriptors'
<1>1. /\ slots' = slots /\ fd_uid_map' = fd_uid_map /\ afds' = afds \ {f}
      /\ cur' = Idle /\ cur'.pc # "out" /\ fdt[f].kind = "dead"
  BY IdleTyped DEF EndOfInput, Selects
<1>2. \A g \in Fds : fdt'[g] = IF g = f THEN Closed ELSE fdt[g]
  BY CloseAllTyped DEF EndOfInput, TypeInv
<1>3. Watched'
  <2>1. afds \subseteq Fds
    BY DEF TypeInv
  <2>. QED  BY <1>1, <1>2, <2>1, ClosedKind DEF Descriptors, Watched
<1>4. Recorded'
  <2>1. ASSUME NEW s \in Users, NEW r \in Users, slots[r].sent_fd[s] > 0
        PROVE  fdt'[slots[r].sent_fd[s]] = Obj("ur", s, r)
    BY <1>1, <1>2, <2>1, RecordedFd, ObjFields DEF Descriptors
  <2>. QED  BY <1>1, <2>1 DEF Recorded
<1>5. \A u \in Users : Owns(fdt', slots'[u].npipes, u)
  BY <1>1, <1>2, OwnedFrame, SlotTable DEF Descriptors
<1>. QED  BY <1>1, <1>3, <1>4, <1>5, NoInput DEF Descriptors

LEMMA LoginFds ==
    ASSUME TypeInv, TypeInv', Descriptors, SlotInv, status = "up", Login
    PROVE  Descriptors'
<1>1. PICK f \in Fds, u \in FirstFree :
          /\ fdt[f] = Closed /\ fdt' = [fdt EXCEPT ![f] = Obj("sock", u, 0)]
          /\ LogsIn(u, f) /\ afds' = afds \cup {f}
          /\ fd_uid_map' = [fd_uid_map EXCEPT ![f] = u]
  BY DEF Login
<1>2. /\ fdt \in [Fds -> Objects] /\ fd_uid_map \in [Fds -> Int] /\ afds \subseteq Fds
      /\ cur' = Idle /\ cur'.pc # "out"
  BY IdleTyped DEF TypeInv, Login
<1>3. /\ \A g \in Fds : fdt'[g] = IF g = f THEN Obj("sock", u, 0) ELSE fdt[g]
      /\ \A g \in Fds : fd_uid_map'[g] = IF g = f THEN u ELSE fd_uid_map[g]
  BY <1>1, <1>2
<1>4. \A v \in Users : v # u => slots'[v] = slots[v]
  BY <1>1 DEF LogsIn
<1>5. u \in Users =>
          /\ slots'[u].fd = f /\ slots'[u].sent_fd = NoFds /\ slots'[u].npipes = <<>>
          /\ slots[u].uid = -1 /\ u > 0
  <2>1. u \in Users => u > 0
    BY SlotFields
  <2>. QED  BY <1>1, <2>1, FirstIsFree DEF LogsIn
<1>6. Watched'
  <2>1. \A g \in Fds : g \in afds' <=> fdt'[g].kind \in {"sock", "dead"}
    <3>1. Obj("sock", u, 0).kind = "sock"
      BY ObjFields
    <3>. QED  BY <1>1, <1>2, <1>3, <3>1 DEF Descriptors, Watched
  <2>2. ASSUME NEW g \in afds'
        PROVE  /\ fd_uid_map'[g] = fdt'[g].a
               /\ fd_uid_map'[g] \in Users => slots'[fd_uid_map'[g]].fd = g
    <3>1. CASE g = f
      <4>1. Obj("sock", u, 0).a = u
        BY ObjFields
      <4>. QED  BY <1>2, <1>3, <1>5, <3>1, <4>1
    <3>2. CASE g # f
      <4>1. g \in afds /\ g \in Fds /\ fd_uid_map'[g] = fd_uid_map[g] /\ fdt'[g] = fdt[g]
        BY <1>1, <1>2, <1>3, <2>2, <3>2
      <4>2. /\ fd_uid_map[g] = fdt[g].a
            /\ fd_uid_map[g] \in Users => slots[fd_uid_map[g]].fd = g
        BY <4>1 DEF Descriptors, Watched
      <4>3. ASSUME fd_uid_map[g] \in Users PROVE fd_uid_map[g] # u
        <5>1. slots[fd_uid_map[g]].uid = fd_uid_map[g]
          BY <4>1, <4>3 DEF SlotInv, Sessions
        <5>2. fd_uid_map[g] > 0
          BY <4>3, SlotFields
        <5>. QED  BY <1>5, <4>3, <5>1, <5>2
      <4>. QED  BY <1>4, <4>1, <4>2, <4>3
    <3>. QED  BY <3>1, <3>2
  <2>. QED  BY <2>1, <2>2 DEF Watched
<1>7. ASSUME NEW s \in Users, NEW r \in Users, slots'[r].sent_fd[s] > 0
      PROVE  fdt'[slots'[r].sent_fd[s]] = Obj("ur", s, r)
  <2>1. r # u
    BY <1>5, <1>7, NoneRecorded
  <2>2. slots'[r] = slots[r] /\ slots[r].sent_fd[s] > 0
    BY <1>4, <1>7, <2>1
  <2>3. slots[r].sent_fd[s] \in Fds /\ fdt[slots[r].sent_fd[s]] = Obj("ur", s, r)
    BY <2>2, RecordedFd DEF Descriptors
  <2>4. slots[r].sent_fd[s] # f
    BY <1>1, <2>3, ObjFields, ClosedKind
  <2>. QED  BY <1>3, <2>2, <2>3, <2>4
<1>8. ASSUME NEW v \in Users
      PROVE  Owns(fdt', slots'[v].npipes, v)
  <2>1. CASE v = u
    BY <1>5, <2>1, EmptyOwned
  <2>2. CASE v # u
    <3>1. \A g \in Fds : fdt[g].kind \in {"nr", "nw"} => fdt'[g] = fdt[g]
      BY <1>1, <1>3, ClosedKind
    <3>2. slots'[v] = slots[v] /\ slots[v].npipes \in Tables /\ Owns(fdt, slots[v].npipes, v)
      BY <1>4, <2>2, SlotTable DEF Descriptors
    <3>. QED  BY <3>1, <3>2, OwnedFrame
  <2>. QED  BY <2>1, <2>2
<1>. QED  BY <1>2, <1>6, <1>7, <1>8, NoInput DEF Descriptors, Recorded

(* What user_pipe_clear closes are the pipes to and from the user, and no  *)
(* two of its records share a descriptor unless the user has a pipe to     *)
(* itself.                                                                 *)
LEMMA ClosedByLogout ==
    ASSUME TypeInv, Recorded, UserPipeSymmetric, status = "up", NEW u \in Users
    PROVE  /\ \A x \in ToClose(u) :
                 /\ x[3] \in Fds
                 /\ \E i \in Users : fdt[x[3]] = Obj("ur", i, u) \/ fdt[x[3]] = Obj("ur", u, i)
           /\ CloseFails(ToClose(u)) => slots[u].sent_fd[u] > 0
<1>1. ASSUME NEW x \in ToClose(u)
      PROVE  \E i \in Users :
                \/ /\ x = <<"receiver", i, slots[u].sent_fd[i]>> /\ slots[u].sent_fd[i] > 0
                   /\ x[3] = slots[u].sent_fd[i]
                   /\ x[3] \in Fds /\ fdt[x[3]] = Obj("ur", i, u)
                \/ /\ x = <<"sender", i, slots[i].sent_fd[u]>> /\ slots[i].sent_fd[u] > 0
                   /\ x[3] = slots[i].sent_fd[u]
                   /\ x[3] \in Fds /\ fdt[x[3]] = Obj("ur", u, i)
  <2>1. CASE x \in {<<"receiver", i, slots[u].sent_fd[i]>> :
                       i \in {j \in Users : slots[u].sent_fd[j] > 0}}
    <3>1. PICK i \in Users : slots[u].sent_fd[i] > 0 /\ x = <<"receiver", i, slots[u].sent_fd[i]>>
      BY <2>1
    <3>2. slots[u].sent_fd[i] \in Fds /\ fdt[slots[u].sent_fd[i]] = Obj("ur", i, u)
      BY <3>1, RecordedFd
    <3>3. x[3] = slots[u].sent_fd[i]
      BY <3>1
    <3>. QED  BY <3>1, <3>2, <3>3
  <2>2. CASE x \in {<<"sender", i, slots[i].sent_fd[u]>> :
                       i \in {j \in Users : slots[u].send_fd[j] > 0}}
    <3>1. PICK i \in Users : slots[u].send_fd[i] > 0 /\ x = <<"sender", i, slots[i].sent_fd[u]>>
      BY <2>2
    <3>2. slots[i].sent_fd[u] > 0
      BY <3>1 DEF UserPipeSymmetric
    <3>3. slots[i].sent_fd[u] \in Fds /\ fdt[slots[i].sent_fd[u]] = Obj("ur", u, i)
      BY <3>2, RecordedFd
    <3>4. x[3] = slots[i].sent_fd[u]
      BY <3>1
    <3>. QED  BY <3>1, <3>2, <3>3, <3>4
  <2>. QED  BY <2>1, <2>2 DEF ToClose
<1>2. \A x \in ToClose(u) : x[3] \in Fds /\ fdt[x[3]] # Closed
  BY <1>1, ObjFields, ClosedKind
<1>3. ASSUME NEW x \in ToClose(u), NEW y \in ToClose(u), x # y, x[3] = y[3]
      PROVE  slots[u].sent_fd[u] > 0
  <2>1. PICK i \in Users :
                \/ /\ x = <<"receiver", i, slots[u].sent_fd[i]>> /\ slots[u].sent_fd[i] > 0
                   /\ fdt[x[3]] = Obj("ur", i, u)
                \/ /\ x = <<"sender", i, slots[i].sent_fd[u]>> /\ slots[i].sent_fd[u] > 0
                   /\ fdt[x[3]] = Obj("ur", u, i)
    BY <1>1
  <2>2. PICK j \in Users :
                \/ /\ y = <<"receiver", j, slots[u].sent_fd[j]>> /\ slots[u].sent_fd[j] > 0
                   /\ fdt[y[3]] = Obj("ur", j, u)
                \/ /\ y = <<"sender", j, slots[j].sent_fd[u]>> /\ slots[j].sent_fd[u] > 0
                   /\ fdt[y[3]] = Obj("ur", u, j)
    BY <1>1
  <2>3. i = j \/ (i = u /\ j = u)
    BY <1>3, <2>1, <2>2, ObjFields
  <2>4. i = j
    BY <2>3
  <2>5. CASE i = u
    BY <2>1, <2>5
  <2>6. CASE i # u
    <3>1. Obj("ur", i, u) # Obj("ur", u, i)
      BY <2>6, ObjFields
    <3>2. x = y
      BY <1>3, <2>1, <2>2, <2>4, <3>1
    <3>. QED  BY <1>3, <3>2
  <2>. QED  BY <2>5, <2>6
<1>. QED  BY <1>1, <1>2, <1>3 DEF CloseFails

LEMMA LogoutFds ==
    ASSUME TypeInv, TypeInv', Descriptors, SlotInv, status = "up", NEW f \in Fds, Logout(f)
    PROVE  /\ Descriptors'
           /\ status' = "exited" => \E u \in Users : slots[u].sent_fd[u] > 0 /\ slots'[u].uid = -1
<1> DEFINE u == fd_uid_map[f]
           S == ToClose(u)
<1>1. LogsOff(f) /\ u \in Users /\ f \in afds /\ afds' = afds \ {f}
  BY LogoutStep DEF Logout
<1>2. /\ fdt' = CloseAll(fdt, {x[3] : x \in S} \cup {f})
      /\ CloseFails(S) \/ Writes(BroadcastFds)
  BY DEF Logout
<1>3. /\ LogsOut(u) /\ cur' = Idle /\ cur'.pc # "out"
      /\ \A g \in Fds : fd_uid_map'[g] = IF g = slots[u].fd THEN -1 ELSE fd_uid_map[g]
  BY <1>1, IdleTyped DEF LogsOff
<1>4. slots[u].fd = f
  BY <1>1 DEF Descriptors, Watched
<1> HIDE DEF u
<1>5. /\ \A x \in S : /\ x[3] \in Fds
                       /\ \E i \in Users : fdt[x[3]] = Obj("ur", i, u) \/ fdt[x[3]] = Obj("ur", u, i)
      /\ CloseFails(S) => slots[u].sent_fd[u] > 0
  BY <1>1, ClosedByLogout DEF SlotInv, Descriptors
<1> HIDE DEF S
<1>6. slots'[u].uid = -1 /\ slots'[u] = FreeSlot
  BY <1>3, FreeSlotFields DEF LogsOut
<1>7. status' = "exited" => \E v \in Users : slots[v].sent_fd[v] > 0 /\ slots'[v].uid = -1
  BY <1>1, <1>2, <1>5, <1>6, WritesTyped
<1>8. \A g \in Fds : fdt'[g] = IF g = f \/ \E x \in S : g = x[3] THEN Closed ELSE fdt[g]
  BY <1>2, CloseAllTyped DEF TypeInv
<1>9. ASSUME NEW g \in Fds, g # f
      PROVE  \/ fdt'[g] = fdt[g]
             \/ /\ fdt'[g] = Closed
                /\ \E i \in Users : fdt[g] = Obj("ur", i, u) \/ fdt[g] = Obj("ur", u, i)
  BY <1>5, <1>8, <1>9
<1>10. fdt[f].kind \in {"sock", "dead"} /\ afds \subseteq Fds
  BY <1>1 DEF Descriptors, Watched, TypeInv
<1>11. Watched'
  <2>1. ASSUME NEW g \in Fds
        PROVE  g \in afds' <=> fdt'[g].kind \in {"sock", "dead"}
    <3>1. CASE g = f
      BY <1>1, <1>8, <3>1, ClosedKind
    <3>2. CASE g # f
      <4>1. g \in afds' <=> fdt[g].kind \in {"sock", "dead"}
        BY <1>1, <3>2 DEF Descriptors, Watched
      <4>. QED  BY <1>9, <3>2, <4>1, ObjFields, ClosedKind
    <3>. QED  BY <3>1, <3>2
  <2>2. ASSUME NEW g \in afds'
        PROVE  /\ fd_uid_map'[g] = fdt'[g].a
               /\ fd_uid_map'[g] \in Users => slots'[fd_uid_map'[g]].fd = g
    <3>1. g \in afds /\ g \in Fds /\ g # f
      BY <1>1, <1>10, <2>2
    <3>2. /\ fd_uid_map[g] = fdt[g].a /\ fdt[g].kind \in {"sock", "dead"}
          /\ fd_uid_map[g] \in Users => slots[fd_uid_map[g]].fd = g
      BY <3>1 DEF Descriptors, Watched
    <3>3. fdt'[g] = fdt[g]
      BY <1>9, <3>1, <3>2, ObjFields
    <3>4. fd_uid_map'[g] = fd_uid_map[g]
      BY <1>3, <1>4, <3>1
    <3>5. fd_uid_map[g] # u
      BY <1>1, <3>1 DEF SlotInv, Sessions, u
    <3>6. fd_uid_map[g] \in Users => slots'[fd_uid_map[g]].fd = slots[fd_uid_map[g]].fd
      BY <1>3, <3>5 DEF LogsOut
    <3>. QED  BY <3>2, <3>3, <3>4, <3>6
  <2>. QED  BY <2>1, <2>2 DEF Watched
<1>12. ASSUME NEW s \in Users, NEW r \in Users, slots'[r].sent_fd[s] > 0
       PROVE  fdt'[slots'[r].sent_fd[s]] = Obj("ur", s, r)
  <2>1. slots'[r].sent_fd[s] = IF u \in {r, s} THEN -1 ELSE slots[r].sent_fd[s]
    BY <1>1, <1>3, LeftRecords DEF SlotInv
  <2>2. s # u /\ r # u /\ slots'[r].sent_fd[s] = slots[r].sent_fd[s]
    BY <1>12, <2>1
  <2>3. slots[r].sent_fd[s] \in Fds /\ fdt[slots[r].sent_fd[s]] = Obj("ur", s, r)
    BY <1>12, <2>2, RecordedFd DEF Descriptors
  <2>4. slots[r].sent_fd[s] # f
    BY <1>10, <2>3, ObjFields
  <2>5. fdt'[slots[r].sent_fd[s]] = fdt[slots[r].sent_fd[s]]
    BY <1>9, <2>2, <2>3, <2>4, ObjFields
  <2>. QED  BY <2>2, <2>3, <2>5
<1>13. ASSUME NEW v \in Users
       PROVE  Owns(fdt', slots'[v].npipes, v)
  <2>1. CASE v = u
    BY <1>6, <2>1, EmptyOwned, FreeSlotFields
  <2>2. CASE v # u
    <3>1. \A g \in Fds : fdt[g].kind \in {"nr", "nw"} => fdt'[g] = fdt[g]
      BY <1>9, <1>10, ObjFields
    <3>2. /\ slots'[v].npipes = slots[v].npipes /\ slots[v].npipes \in Tables
          /\ Owns(fdt, slots[v].npipes, v)
      BY <1>3, <2>2, SlotTable DEF LogsOut, Descriptors
    <3>. QED  BY <3>1, <3>2, OwnedFrame
  <2>. QED  BY <2>1, <2>2
<1>. QED  BY <1>3, <1>7, <1>11, <1>12, <1>13, NoInput DEF Descriptors, Recorded

(* Every pipe between users can be closed when the server is interrupted.  *)
LEMMA InterruptFds ==
    ASSUME TypeInv, Descriptors, Interrupt
    PROVE  status' = "interrupted"
<1> DEFINE S == {<<p[1], p[2], slots[p[1]].sent_fd[p[2]]>> :
                    p \in {q \in Users \X Users : slots[q[1]].sent_fd[q[2]] > 0}}
<1>1. status' = IF CloseFails(S) THEN "exited" ELSE "interrupted"
  BY DEF Interrupt
<1>2. ASSUME NEW x \in S
      PROVE  /\ x = <<x[1], x[2], x[3]>> /\ x[3] \in Fds /\ fdt[x[3]] = Obj("ur", x[2], x[1])
  <2>1. PICK p \in Users \X Users :
            /\ slots[p[1]].sent_fd[p[2]] > 0
            /\ x = <<p[1], p[2], slots[p[1]].sent_fd[p[2]]>>
    OBVIOUS
  <2>2. p[1] \in Users /\ p[2] \in Users
    OBVIOUS
  <2>3. slots[p[1]].sent_fd[p[2]] \in Fds /\ fdt[slots[p[1]].sent_fd[p[2]]] = Obj("ur", p[2], p[1])
    BY <2>1, <2>2, RecordedFd DEF Descriptors
  <2>. QED  BY <2>1, <2>3
<1> HIDE DEF S
<1>3. \A x \in S : x[3] \in Fds /\ fdt[x[3]] # Closed
  BY <1>2, ObjFields, ClosedKind
<1>4. ASSUME NEW x \in S, NEW y \in S, x[3] = y[3]
      PROVE  x = y
  <2>1. x[1] = y[1] /\ x[2] = y[2]
    BY <1>2, <1>4, ObjFields
  <2>. QED  BY <1>2, <1>4, <2>1
<1>5. ~CloseFails(S)
  BY <1>3, <1>4 DEF CloseFails
<1>. QED  BY <1>1, <1>5

(***************************************************************************)
(* The invariant is inductive, and the causes of an exit.                  *)
(***************************************************************************)
ExitCause ==
    \/ \E u \in Users : slots[u].sent_fd[u] > 0 /\ slots'[u].uid = -1
    \/ PipeFds(fdt) = {}

LEMMA DescriptorsStep ==
    ASSUME DescriptorInv, TypeInv', status = "up", Next
    PROVE  /\ status' = "up" => Descriptors'
           /\ status' = "exited" => ExitCause
<1>1. TypeInv /\ Descriptors /\ SlotInv /\ PlainLine(cur.line)
  BY DEF DescriptorInv, SlotInv
<1>2. CASE Accept
  <2>1. status' # "exited"
    BY <1>2, WritesTyped DEF Accept
  <2>. QED  BY <1>1, <1>2, <2>1, LoginStep, LoginFds
<1>3. ASSUME NEW f \in Fds, Logout(f)
      PROVE  Descriptors' /\ (status' = "exited" => ExitCause)
  BY <1>1, <1>3, LogoutFds DEF ExitCause
<1>4. ASSUME NEW f \in Fds, ReadLine(f)
      PROVE  Descriptors' /\ status' # "exited"
  <2>1. /\ UNCHANGED <<slots, afds, fd_uid_map, fdt>> /\ status' # "exited" /\ cur'.pc # "out"
    BY <1>4, ReadStep, <1>1 DEF ReadLine, Reading
  <2>. QED  BY <1>1, <2>1, QuietFds
<1>5. ASSUME NEW f \in Fds, PeerCloses(f)
      PROVE  Descriptors' /\ status' # "exited"
  <2>1. /\ UNCHANGED <<slots, afds, fd_uid_map, cur>> /\ status' # "exited"
        /\ fdt[f].kind = "sock" /\ fdt' = [fdt EXCEPT ![f].kind = "dead"]
    BY <1>5 DEF PeerCloses
  <2>. QED  BY <1>1, <2>1, QuietFds
<1>6. ASSUME NEW f \in Fds, EndOfInput(f)
      PROVE  Descriptors' /\ status' # "exited"
  <2>1. status' # "exited"
    BY <1>6 DEF EndOfInput
  <2>. QED  BY <1>1, <1>6, <2>1, EndOfInputFds
<1>7. CASE EndOfLine
  <2>1. UNCHANGED <<slots, afds, fd_uid_map, fdt>> /\ cur'.pc # "out" /\ status' # "exited"
    BY <1>7, IdleTyped, WritesTyped DEF EndOfLine
  <2>. QED  BY <1>1, <2>1, QuietFds
<1>8. CASE OutOfBounds \/ \E f \in Fds : LineWithoutSlot(f)
  <2>1. status' = "undefined"
    BY <1>8 DEF OutOfBounds, LineWithoutSlot
  <2>. QED  BY <2>1
<1>9. CASE PipeFails
  <2>1. status' = "exited" /\ PipeFds(fdt) = {}
    BY <1>9 DEF PipeFails
  <2>. QED  BY <2>1 DEF ExitCause
<1>10. CASE Interrupt
  <2>1. status' = "interrupted"
    BY <1>1, <1>10, InterruptFds
  <2>. QED  BY <2>1
<1>11. CASE RunStep
  <2>1. CASE CmdSetenv \/ CmdQuery \/ CmdName
    BY <1>1, <2>1, BuiltinFds
  <2>2. CASE CmdTell \/ CmdYell
    BY <1>1, <2>2, SayFds
  <2>3. CASE NoUserPipeIn \/ UserPipeIn \/ UserPipeInError
    BY <1>1, <2>3, PlainInputFds, TakeFds, NullInputFds
  <2>4. CASE ToOldPipe \/ ToNewPipe \/ ToFile \/ OpenFails
    BY <1>1, <2>4, OldPipeFds, NewPipeFds, FileFds, OpenFailsFds
  <2>5. CASE UserPipeOut \/ UserPipeOutError \/ ToClient
    BY <1>1, <2>5, GiveFds, GiveErrorFds, ClientFds
  <2>. QED  BY <1>7, <1>8, <1>9, <1>11, <2>1, <2>2, <2>3, <2>4, <2>5 DEF RunStep
<1>. QED  BY <1>2, <1>3, <1>4, <1>5, <1>6, <1>8, <1>10, <1>11 DEF Next

LEMMA DescriptorInvStep ==
    PlainLines /\ DescriptorInv /\ [Next]_vars =>
        /\ DescriptorInv'
        /\ [status = "up" /\ status' = "exited" => ExitCause]_vars
<1> SUFFICES ASSUME PlainLines, DescriptorInv, [Next]_vars
             PROVE  /\ DescriptorInv'
                    /\ [status = "up" /\ status' = "exited" => ExitCause]_vars
  OBVIOUS
<1>1. SlotInv' /\ TypeInv' /\ StepKind
  BY SlotInvStep, StepKinds DEF DescriptorInv, SlotInv
<1>2. PlainLine(cur'.line)
  BY <1>1, PlainStep DEF DescriptorInv, SlotInv
<1>3. CASE UNCHANGED vars
  <2>1. Descriptors' <=> Descriptors
    BY <1>3 DEF vars, Descriptors, Watched, Recorded, HasInput, Cmd, Me, Owns
  <2>. QED  BY <1>1, <1>2, <1>3, <2>1 DEF DescriptorInv, vars
<1>4. CASE Next /\ status = "up"
  BY <1>1, <1>2, <1>4, DescriptorsStep DEF DescriptorInv
<1>5. status = "up" \/ UNCHANGED vars
  BY <1>1 DEF StepKind
<1>. QED  BY <1>3, <1>4, <1>5

LEMMA DescriptorInvInit == Init => DescriptorInv
<1> SUFFICES ASSUME Init PROVE DescriptorInv
  OBVIOUS
<1>1. SlotInv /\ TypeInv /\ PlainLine(cur.line) /\ cur.pc # "out"
  BY SlotInvInit, IdleTyped DEF SlotInv, Init, Idle, PlainLine
<1>2. \A u \in Users : slots[u] = FreeSlot
  BY DEF Init
<1>3. \A f \in Fds : fdt[f] = Closed
  BY DEF Init
<1>4. Watched
  BY <1>3, ClosedKind DEF Watched, Init
<1>5. \A s, r \in Users : ~(slots[r].sent_fd[s] > 0)
  BY <1>2, FreeSlotFields, NoneRecorded
<1>6. \A u \in Users : Owns(fdt, slots[u].npipes, u)
  BY <1>2, FreeSlotFields, EmptyOwned
<1>. QED  BY <1>1, <1>4, <1>5, <1>6 DEF DescriptorInv, Descriptors, Recorded, HasInput

LEMMA AlwaysDescriptorInv == PlainLines => (Spec => []DescriptorInv)
<1> SUFFICES ASSUME PlainLines PROVE Spec => []DescriptorInv
  OBVIOUS
<1>1. DescriptorInv /\ [Next]_vars => DescriptorInv'
  BY DescriptorInvStep
<1>. QED  BY <1>1, DescriptorInvInit, PTL DEF Spec

(***************************************************************************)
(* Every watched descriptor is the socket of the user it is mapped to, and *)
(* that user's slot names it.                                              *)
(***************************************************************************)
THEOREM SocketsCorrect == PlainLines => (Spec => []SocketOfUser)
<1> SUFFICES ASSUME PlainLines PROVE Spec => []SocketOfUser
  OBVIOUS
<1>1. DescriptorInv => SocketOfUser
  BY DEF DescriptorInv, Descriptors, Watched, SlotInv, Sessions, SocketOfUser
<1>. QED  BY <1>1, AlwaysDescriptorInv, PTL

(***************************************************************************)
(* The numbers kept in the tables are open and mean what they are used     *)
(* for.                                                                    *)
(***************************************************************************)
THEOREM TablesCorrect == PlainLines => (Spec => []TablesOwnDescriptors)
<1> SUFFICES ASSUME PlainLines PROVE Spec => []TablesOwnDescriptors
  OBVIOUS
<1>1. DescriptorInv => TablesOwnDescriptors
  BY DEF DescriptorInv, Descriptors, Recorded, Owns, TablesOwnDescriptors
<1>. QED  BY <1>1, AlwaysDescriptorInv, PTL

(***************************************************************************)
(* The server exits only for want of descriptors or when a user leaves     *)
(* with a pipe to itself.                                                  *)
(***************************************************************************)
THEOREM ExitsExplained == PlainLines => (Spec => ExitCauses)
<1> SUFFICES ASSUME PlainLines PROVE Spec => ExitCauses
  OBVIOUS
<1>1. DescriptorInv /\ [Next]_vars => [status = "up" /\ status' = "exited" => ExitCause]_vars
  BY DescriptorInvStep
<1>. QED  BY <1>1, AlwaysDescriptorInv, PTL DEF Spec, ExitCauses, ExitCause

(************************ Where descriptors are kept **********************)

(***************************************************************************)
(* Three things leave a descriptor open for good: a logout forgets the     *)
(* user's numbered pipes, "> file" is never closed, and "<N" with an       *)
(* output that fails drops the pipe it has taken.  Lines that keep to      *)
(* pipes between users, a command having one of "<N" and ">N", do none of  *)
(* them.                                                                   *)
(***************************************************************************)
UserPipeLine(l) ==
    \A i \in DOMAIN l : l[i].prog = "run" => l[i].op = "none" /\ (l[i].in = 0 \/ l[i].out = 0)

UserPipesOnly == \A l \in Lines : UserPipeLine(l)

NoTables == \A u \in Users : slots[u].npipes = <<>>

(* Every open descriptor is watched, recorded, or the input at hand. *)
Accounted ==
    \A f \in Fds : fdt[f] # Closed =>
        \/ f \in afds
        \/ \E u, v \in Users : slots[u].sent_fd[v] = f
        \/ cur.pc = "out" /\ Cmd.in # 0 /\ cur.readfd = f

LeakInv ==
    /\ SlotInv
    /\ UserPipeLine(cur.line)
    /\ status = "up" => NoTables /\ Accounted

LEMMA UserPipeTail ==
    ASSUME NEW l \in Seq(Commands), l # <<>>, UserPipeLine(l)
    PROVE  /\ UserPipeLine(Tail(l)) /\ UserPipeLine(<<>>)
           /\ Head(l).prog = "run" => Head(l).op = "none" /\ (Head(l).in = 0 \/ Head(l).out = 0)
<1>1. Head(l) = l[1] /\ 1 \in DOMAIN l
  OBVIOUS
<1>2. \A i \in DOMAIN Tail(l) : i+1 \in DOMAIN l /\ Tail(l)[i] = l[i+1]
  OBVIOUS
<1>. QED  BY <1>1, <1>2 DEF UserPipeLine

LEMMA UserPipeStep ==
    TypeInv /\ StepKind /\ UserPipesOnly /\ UserPipeLine(cur.line) => UserPipeLine(cur'.line)
<1> SUFFICES ASSUME TypeInv, StepKind, UserPipesOnly, UserPipeLine(cur.line)
             PROVE  UserPipeLine(cur'.line)
  OBVIOUS
<1>1. cur.line \in Seq(Commands)
  BY DEF TypeInv, CommandLines
<1>2. UserPipeLine(<<>>) /\ Idle.line = <<>>
  BY DEF UserPipeLine, Idle
<1>3. CASE UNCHANGED vars \/ Quiet \/ Login \/ Interrupted \/ \E f \in Fds : LogsOff(f)
  <2>1. cur' \in {cur, Idle}
    BY <1>3 DEF vars, Quiet, Login, Interrupted, LogsOff
  <2>. QED  BY <1>2, <2>1
<1>4. CASE Reading
  BY <1>4 DEF Reading, UserPipesOnly
<1>5. CASE ShellStep \/ Takes \/ Gives
  <2>1. \/ cur'.line = cur.line
        \/ cur'.line = Tail(cur.line) /\ cur.line # <<>>
        \/ cur'.line = <<>>
    BY <1>5 DEF ShellStep, Takes, Gives, Executing, Continues
  <2>. QED  BY <1>1, <1>2, <2>1, UserPipeTail
<1>. QED  BY <1>3, <1>4, <1>5 DEF StepKind

(* An empty table stays empty and has nothing to close. *)
LEMMA NoTable ==
    /\ <<>> \in Tables
    /\ pipes_update(<<>>) = <<>> /\ Erased(<<>>) = <<>> /\ DueEnds(<<>>) = {}
<1>1. <<>> \in Tables
  BY DEF Tables, Distinct
<1>2. \A t \in Tables : DOMAIN t = {} => t = <<>>
  BY DEF Tables
<1>3. DOMAIN pipes_update(<<>>) = {} /\ pipes_update(<<>>) \in Tables
  BY <1>1, UpdateKeepsTable
<1>4. DOMAIN Erased(<<>>) = {} /\ Erased(<<>>) \in Tables
  BY <1>1, EraseKeepsTable
<1>5. pipe_for_reading(<<>>) = 0
  <2>1. DOMAIN <<>> = {}
    OBVIOUS
  <2>. QED  BY <1>1, <2>1, SearchInTable DEF pipe_for_reading
<1>. QED  BY <1>1, <1>2, <1>3, <1>4, <1>5 DEF DueEnds

(* Nothing is opened, and nothing forgotten. *)
LEMMA NothingOpened ==
    ASSUME Accounted, \A u, v \in Users : slots'[u].sent_fd[v] = slots[u].sent_fd[v],
           \A f \in Fds : fdt'[f] # Closed => fdt[f] # Closed /\ (f \in afds => f \in afds'),
           cur.pc # "out" \/ cur' = cur
    PROVE  Accounted'
<1>1. cur' = cur => Cmd' = Cmd
  BY DEF Cmd
<1>. QED  BY <1>1 DEF Accounted

LEMMA ClosedOnly ==
    ASSUME NEW S PROVE \A f \in Fds : CloseAll(fdt, S)[f] # Closed => fdt[f] # Closed /\ f \notin S
BY DEF CloseAll

(* A command of the user's own shell. *)
LEMMA OwnTable ==
    ASSUME NoTables, ShellStep, slots'[Me].npipes = <<>>
    PROVE  /\ NoTables' /\ afds' = afds
           /\ \A u, v \in Users : slots'[u].sent_fd[v] = slots[u].sent_fd[v]
BY DEF NoTables, ShellStep, Executing, ShellOnly

LEMMA EmptyAtCommand ==
    ASSUME TypeInv, NoTables, cur.pc # "idle", cur.line # <<>>
    PROVE  /\ Me \in Users /\ Cmd \in Commands /\ Table = <<>> /\ Updated = <<>>
           /\ Erased(Table) = <<>> /\ Erased(Updated) = <<>>
           /\ DueEnds(Table) = {} /\ DueEnds(Updated) = {}
<1>1. Me \in Users /\ Cmd \in Commands
  BY CommandTyped
<1>2. Table = <<>>
  BY <1>1 DEF NoTables, Table
<1>. QED  BY <1>1, <1>2, NoTable DEF Updated

LEMMA BuiltinAccounts ==
    ASSUME TypeInv, NoTables, Accounted, CmdSetenv \/ CmdQuery \/ CmdName \/ CmdTell \/ CmdYell
    PROVE  NoTables' /\ Accounted'
<1>1. cur.pc = "cmd" /\ cur.line # <<>>
  BY DEF CmdSetenv, CmdQuery, CmdName, CmdTell, CmdYell, AtCommand
<1>2. /\ Me \in Users /\ Cmd \in Commands /\ Updated = <<>> /\ Erased(Updated) = <<>>
      /\ DueEnds(Updated) = {}
  BY <1>1, EmptyAtCommand
<1>3. <<>> \in Tables /\ slots \in [Users -> SlotRecords]
  BY NoTable DEF TypeInv
<1>4. CASE CmdSetenv
  <2>1. Cmd.var \in EnvVars /\ Cmd.val \in EnvValues
    BY <1>2 DEF Commands
  <2>2. slots' = WithEnv(Me, <<>>, Cmd.var, Cmd.val)
    BY <1>2, <1>4 DEF CmdSetenv, WithEnv
  <2>3. slots'[Me].npipes = <<>>
    BY <1>2, <1>3, <2>1, <2>2, SetTableAndEnv
  <2>4. fdt' = fdt
    BY <1>4 DEF CmdSetenv
  <2>. QED  BY <1>1, <1>4, <2>3, <2>4, SetenvStep, OwnTable, NothingOpened
<1>5. CASE CmdQuery
  <2>1. slots'[Me].npipes = <<>>
    BY <1>2, <1>3, <1>5, SetTable DEF CmdQuery
  <2>2. fdt' = fdt
    BY <1>5 DEF CmdQuery
  <2>. QED  BY <1>1, <1>5, <2>1, <2>2, QueryStep, OwnTable, NothingOpened
<1>6. CASE CmdName
  <2>1. Cmd.name \in Names \cup {""}
    BY <1>2 DEF Commands
  <2>2. slots'[Me].npipes = <<>>
    BY <1>2, <1>3, <1>6, <2>1, SetTable, SetTableAndName DEF CmdName
  <2>3. fdt' = fdt
    BY <1>6 DEF CmdName
  <2>. QED  BY <1>1, <1>6, <2>2, <2>3, NameStep, OwnTable, NothingOpened
<1>7. CASE CmdTell \/ CmdYell
  <2>1. PICK F : Say(F)
    BY <1>7 DEF CmdTell, CmdYell
  <2>2. slots'[Me].npipes = <<>>
    BY <1>2, <1>3, <2>1, SetTable DEF Say
  <2>3. fdt' = CloseAll(fdt, {})
    BY <1>2, <2>1 DEF Say
  <2>. QED  BY <1>1, <2>1, <2>2, <2>3, SayStep, ClosedOnly, OwnTable, NothingOpened
<1>. QED  BY <1>4, <1>5, <1>6, <1>7

LEMMA InputAccounts ==
    ASSUME TypeInv, NoTables, Accounted, NoUserPipeIn \/ UserPipeIn \/ UserPipeInError
    PROVE  NoTables' /\ Accounted'
<1>1. AtCommand /\ cur.pc = "cmd" /\ cur.line # <<>> /\ Cmd.prog = "run" /\ InBounds
  BY DEF NoUserPipeIn, UserPipeIn, UserPipeInError, AtCommand
<1>2. Me \in Users /\ Updated = <<>>
  BY <1>1, EmptyAtCommand
<1>3. <<>> \in Tables /\ slots \in [Users -> SlotRecords]
  BY NoTable DEF TypeInv
<1>4. CASE NoUserPipeIn
  <2>1. slots'[Me].npipes = <<>>
    BY <1>2, <1>3, <1>4, SetTable DEF NoUserPipeIn
  <2>2. fdt' = fdt
    BY <1>4 DEF NoUserPipeIn
  <2>. QED  BY <1>1, <1>4, <2>1, <2>2, PlainInputStep, OwnTable, NothingOpened
<1>5. CASE UserPipeInError
  <2>1. slots'[Me].npipes = <<>>
    BY <1>2, <1>3, <1>5, SetTable DEF UserPipeInError
  <2>2. /\ NoTables' /\ afds' = afds
        /\ \A u, v \in Users : slots'[u].sent_fd[v] = slots[u].sent_fd[v]
    BY <1>5, <2>1, NullInputStep, OwnTable
  <2>3. PICK f \in LowestFree(fdt) : fdt' = [fdt EXCEPT ![f] = Obj("null", 0, 0)] /\ ToOutput(f)
    BY <1>5 DEF UserPipeInError
  <2>4. fdt \in [Fds -> Objects] /\ f \in Fds
    BY FreshFds DEF TypeInv
  <2>5. cur'.readfd = f /\ Cmd' = Cmd /\ cur'.pc = "out" /\ Cmd.in # 0
    BY <1>1, <1>5, <2>3, <2>4, InputCommand, ToOutputTyped DEF UserPipeInError
  <2>6. \A g \in Fds : g # f => fdt'[g] = fdt[g]
    BY <2>3, <2>4
  <2>. QED  BY <1>1, <2>2, <2>5, <2>6 DEF Accounted
<1>6. CASE UserPipeIn
  <2>1. /\ slots[Me].sent_fd[Cmd.in] > 0 /\ ToOutput(slots[Me].sent_fd[Cmd.in])
        /\ Cmd.in \in Users /\ fdt' = fdt /\ afds' = afds /\ Cmd.in # 0
        /\ slots' = WithRecords(Cmd.in, Me, -1, -1, Me, <<>>)
    BY <1>1, <1>2, <1>6 DEF UserPipeIn, InBounds, user_pipe_exists, WithRecords
  <2>2. slots'[Me].npipes = <<>> /\ RecordsPipe(Cmd.in, Me, -1, -1, Me)
    <3>1. Me \in {Cmd.in, Me} /\ -1 \in {-1} \cup Fds
      OBVIOUS
    <3>. QED  BY Zenon, <1>2, <1>3, <2>1, <3>1, SetRecords
  <2> DEFINE f == slots[Me].sent_fd[Cmd.in]
  <2>3. f \in Fds
    BY <1>2, <2>1, SlotFields, PositiveIsFd
  <2>4. cur'.readfd = f /\ Cmd' = Cmd /\ cur'.pc = "out"
    BY <1>1, <2>1, <2>3, InputCommand, ToOutputTyped
  <2>5. \A u, v \in Users : u # Me \/ v # Cmd.in => slots'[u].sent_fd[v] = slots[u].sent_fd[v]
    <3>1. ASSUME NEW u \in Users PROVE slots[u].sent_fd \in Rows
      BY SlotFields
    <3>. QED  BY <1>2, <2>1, <2>2, <3>1 DEF RecordsPipe, Rows
  <2>6. NoTables'
    BY <2>2 DEF NoTables, RecordsPipe
  <2>. QED  BY <1>1, <2>1, <2>4, <2>5, <2>6 DEF Accounted
<1>. QED  BY <1>4, <1>5, <1>6

(* What a fork leaves open, when there is no table. *)
LEMMA ForkCloses ==
    ASSUME TypeInv, AtOutput, NEW t \in [Fds -> Objects], NEW w, NEW F,
           DueEnds(Table) = {}, AfterFork(Table, t, w, F)
    PROVE  \A f \in Fds : fdt'[f] # Closed =>
              /\ t[f] # Closed /\ (Cmd.in # 0 => f # cur.readfd) /\ (Cmd.out # 0 => f # w)
<1> DEFINE t1 == CloseAll(t, {})
           t2 == IF Cmd.in = 0 THEN t1 ELSE CloseAll(t1, {cur.readfd})
<1>1. fdt' = IF Cmd.out = 0 THEN t2 ELSE CloseAll(t2, {w})
  BY DEF AfterFork
<1>2. \A f \in Fds : t1[f] = t[f]
  BY DEF CloseAll
<1> HIDE DEF t1
<1>3. \A f \in Fds : t2[f] # Closed => t[f] # Closed /\ (Cmd.in # 0 => f # cur.readfd)
  BY <1>2 DEF CloseAll
<1> HIDE DEF t2
<1>. QED  BY <1>1, <1>3 DEF CloseAll

LEMMA OutputAccounts ==
    ASSUME TypeInv, UserPipeSymmetric, NoTables, Accounted, UserPipeLine(cur.line),
           \/ ToOldPipe \/ ToNewPipe \/ ToFile \/ OpenFails
           \/ UserPipeOut \/ UserPipeOutError \/ ToClient
    PROVE  NoTables' /\ Accounted'
<1>1. AtOutput /\ status = "up" /\ cur.pc = "out"
  BY DEF ToOldPipe, ToNewPipe, ToFile, OpenFails, UserPipeOut, UserPipeOutError, ToClient, AtOutput
<1>2. /\ cur.pc # "idle" /\ cur.line # <<>> /\ Me \in Users /\ Me \in Nat
      /\ fdt \in [Fds -> Objects] /\ Cmd.prog = "run" /\ InBounds /\ cur.line \in Seq(Commands)
  BY <1>1, OutputFacts DEF TypeInv, CommandLines
<1>3. Cmd.op = "none" /\ (Cmd.in = 0 \/ Cmd.out = 0)
  BY <1>2, UserPipeTail DEF Cmd
<1>4. Erased(Table) = <<>> /\ DueEnds(Table) = {}
  BY <1>2, EmptyAtCommand
<1>5. <<>> \in Tables /\ slots \in [Users -> SlotRecords]
  BY NoTable DEF TypeInv
<1>6. CASE ToClient
  <2>1. AfterFork(Table, fdt, 1, {}) /\ slots' = [slots EXCEPT ![Me].npipes = <<>>]
    BY <1>4, <1>6 DEF ToClient
  <2>2. slots'[Me].npipes = <<>>
    BY <1>2, <1>5, <2>1, SetTable
  <2>3. /\ NoTables' /\ afds' = afds
        /\ \A u, v \in Users : slots'[u].sent_fd[v] = slots[u].sent_fd[v]
    BY <1>6, <2>2, ClientStep, OwnTable
  <2>4. \A f \in Fds : fdt'[f] # Closed => fdt[f] # Closed /\ (Cmd.in # 0 => f # cur.readfd)
    BY <1>1, <1>2, <1>4, <2>1, ForkCloses
  <2>. QED  BY <2>3, <2>4 DEF Accounted
<1>7. CASE UserPipeOutError
  <2>1. Cmd.in = 0 /\ slots' = [slots EXCEPT ![Me].npipes = <<>>] /\ fdt' = CloseAll(fdt, {})
    BY <1>3, <1>4, <1>7 DEF UserPipeOutError
  <2>2. slots'[Me].npipes = <<>>
    BY <1>2, <1>5, <2>1, SetTable
  <2>3. /\ NoTables' /\ afds' = afds
        /\ \A u, v \in Users : slots'[u].sent_fd[v] = slots[u].sent_fd[v]
    BY <1>7, <2>2, GiveErrorStep, OwnTable
  <2>4. \A f \in Fds : fdt'[f] # Closed => fdt[f] # Closed
    BY <2>1, ClosedOnly
  <2>. QED  BY <2>1, <2>3, <2>4 DEF Accounted
<1>8. CASE UserPipeOut
  <2>0. Cmd.out # 0 /\ ~(slots[Me].send_fd[Cmd.out] > 0)
    BY <1>8 DEF UserPipeOut, user_pipe_exists
  <2>1. Cmd.out \in Users /\ Cmd.out \in Nat /\ Cmd.in = 0
    BY <1>2, <1>3, <2>0 DEF InBounds, Users
  <2>2. PICK p \in PipeFds(fdt) :
           /\ AfterFork(Table, [fdt EXCEPT ![p[1]] = Obj("ur", Me, Cmd.out),
                                          ![p[2]] = Obj("uw", Me, Cmd.out)], p[2], BroadcastFds)
           /\ slots' = WithRecords(Me, Cmd.out, p[1], p[2], Me, Erased(Table))
    BY <1>8 DEF UserPipeOut, WithRecords
  <2> DEFINE t == [fdt EXCEPT ![p[1]] = Obj("ur", Me, Cmd.out), ![p[2]] = Obj("uw", Me, Cmd.out)]
  <2>3. p[1] \in Fds /\ p[2] \in Fds
    BY <1>2, FreshFds
  <2>4. /\ t \in [Fds -> Objects] /\ \A f \in Fds : f \notin {p[1], p[2]} => t[f] = fdt[f]
    BY <1>2, <2>1, <2>3, OpenTyped DEF Kinds
  <2>5. AfterFork(Table, t, p[2], BroadcastFds)
    BY <2>2
  <2> HIDE DEF t
  <2>6. \A f \in Fds : fdt'[f] # Closed => f # p[2] /\ (f # p[1] => fdt[f] # Closed)
    BY <1>1, <1>4, <2>0, <2>4, <2>5, ForkCloses
  <2>7. RecordsPipe(Me, Cmd.out, p[1], p[2], Me) /\ slots'[Me].npipes = <<>>
    <3>1. /\ p[1] \in {-1} \cup Fds /\ p[2] \in {-1} \cup Fds /\ Me \in {Me, Cmd.out}
      BY <2>3
    <3>2. ASSUME NEW a \in {-1} \cup Fds, NEW b \in {-1} \cup Fds,
                 slots' = WithRecords(Me, Cmd.out, a, b, Me, Erased(Table))
          PROVE  slots'[Me].npipes = Erased(Table) /\ RecordsPipe(Me, Cmd.out, a, b, Me)
      <4>1. Erased(Table) \in Tables
        BY <1>4, <1>5
      <4>2. Me \in Users /\ Cmd.out \in Users /\ Me \in {Me, Cmd.out}
        BY <1>2, <2>1
      <4>3. slots \in [Users -> SlotRecords]
        BY <1>5
      <4>. QED  BY Zenon, <3>2, <4>1, <4>2, <4>3, SetRecords
    <3>. QED  BY <1>4, <2>2, <3>1, <3>2
  <2>8. NoTables'
    BY <2>7 DEF NoTables, RecordsPipe
  <2>9. ASSUME NEW u \in Users, NEW v \in Users
        PROVE  slots'[u].sent_fd[v] = IF u = Cmd.out /\ v = Me THEN p[1] ELSE slots[u].sent_fd[v]
    <3>1. slots[u].sent_fd \in Rows
      BY SlotFields
    <3>. QED  BY <1>2, <2>1, <2>7, <3>1 DEF RecordsPipe, Rows
  <2>10. slots[Cmd.out].sent_fd[Me] \notin Fds
    <3>1. ~(slots[Cmd.out].sent_fd[Me] > 0)
      BY <1>1, <1>2, <2>0, <2>1 DEF UserPipeSymmetric
    <3>2. slots[Cmd.out].sent_fd[Me] \in {-1} \cup Fds
      BY <1>2, <2>1, SlotFields
    <3>. QED  BY <3>1, <3>2, PositiveIsFd
  <2>11. afds' = afds
    BY <2>5 DEF AfterFork
  <2>12. ASSUME NEW f \in Fds, fdt'[f] # Closed
         PROVE  f \in afds' \/ \E u, v \in Users : slots'[u].sent_fd[v] = f
    <3>1. CASE f = p[1]
      BY <1>2, <2>1, <2>9, <3>1
    <3>2. CASE f # p[1]
      <4>1. fdt[f] # Closed
        BY <2>6, <2>12, <3>2
      <4>2. f \in afds \/ \E u, v \in Users : slots[u].sent_fd[v] = f
        BY <2>1, <4>1 DEF Accounted
      <4>3. ASSUME NEW u \in Users, NEW v \in Users, slots[u].sent_fd[v] = f
            PROVE  slots'[u].sent_fd[v] = f
        BY <2>9, <2>10, <4>3
      <4>. QED  BY <2>11, <4>2, <4>3
    <3>. QED  BY <3>1, <3>2
  <2>. QED  BY <2>8, <2>12 DEF Accounted
<1>9. CASE ToOldPipe \/ ToNewPipe \/ ToFile \/ OpenFails
  BY <1>3, <1>9 DEF ToOldPipe, ToNewPipe, ToFile, OpenFails
<1>. QED  BY <1>6, <1>7, <1>8, <1>9

(* A logout closes what is recorded of the user, by either record. *)
LEMMA LogoutAccounts ==
    ASSUME SlotInv, status = "up", NoTables, Accounted, NEW f \in Fds, Logout(f)
    PROVE  NoTables' /\ Accounted'
<1> DEFINE u == fd_uid_map[f]
<1>1. TypeInv /\ UserPipeSymmetric
  BY DEF SlotInv
<1>2. u \in Users /\ LogsOut(u) /\ cur = Idle /\ afds' = afds \ {f}
  BY <1>1, LogoutStep DEF LogsOff
<1>3. fdt' = CloseAll(fdt, {x[3] : x \in ToClose(u)} \cup {f})
  BY DEF Logout
<1> HIDE DEF u
<1>4. NoTables'
  BY <1>2, FreeSlotFields DEF LogsOut, NoTables
<1>5. \A v, w \in Users :
         slots'[v].sent_fd[w] = IF u \in {v, w} THEN -1 ELSE slots[v].sent_fd[w]
  BY <1>1, <1>2, LeftRecords
<1>6. ASSUME NEW v \in Users, NEW w \in Users, u \in {v, w}, slots[v].sent_fd[w] \in Fds
      PROVE  \E x \in ToClose(u) : x[3] = slots[v].sent_fd[w]
  <2>1. slots[v].sent_fd[w] > 0
    BY <1>1, <1>6, SlotFields, PositiveIsFd
  <2>2. CASE v = u
    <3>1. <<"receiver", w, slots[u].sent_fd[w]>> \in ToClose(u)
      BY <2>1, <2>2 DEF ToClose
    <3>. QED  BY <2>2, <3>1
  <2>3. CASE w = u
    <3>1. slots[u].send_fd[v] > 0
      BY <1>1, <2>1, <2>3 DEF UserPipeSymmetric
    <3>2. <<"sender", v, slots[v].sent_fd[u]>> \in ToClose(u)
      BY <3>1 DEF ToClose
    <3>. QED  BY <2>3, <3>2
  <2>. QED  BY <1>6, <2>2, <2>3
<1>7. ASSUME NEW g \in Fds, fdt'[g] # Closed
      PROVE  g \in afds' \/ \E v, w \in Users : slots'[v].sent_fd[w] = g
  <2>1. fdt[g] # Closed /\ g # f /\ \A x \in ToClose(u) : x[3] # g
    BY <1>3, <1>7, ClosedOnly
  <2>2. g \in afds \/ \E v, w \in Users : slots[v].sent_fd[w] = g
    BY <1>2, <2>1, IdleTyped DEF Accounted
  <2>3. ASSUME NEW v \in Users, NEW w \in Users, slots[v].sent_fd[w] = g
        PROVE  slots'[v].sent_fd[w] = g
    BY <1>5, <1>6, <2>1, <2>3
  <2>. QED  BY <1>2, <2>1, <2>2, <2>3
<1>. QED  BY <1>4, <1>7 DEF Accounted

LEMMA LoginAccounts ==
    ASSUME SlotInv, status = "up", NoTables, Accounted, Accept
    PROVE  NoTables' /\ Accounted'
<1>1. TypeInv /\ FreeSlotIsClean
  BY DEF SlotInv
<1>2. Login /\ cur = Idle /\ cur' = cur
  BY <1>1, LoginStep DEF Login
<1>3. PICK f \in Fds, u \in FirstFree :
          /\ fdt' = [fdt EXCEPT ![f] = Obj("sock", u, 0)]
          /\ LogsIn(u, f) /\ afds' = afds \cup {f}
  BY <1>2 DEF Login
<1>4. NoTables'
  BY <1>3 DEF LogsIn, NoTables
<1>5. ASSUME NEW v \in Users PROVE slots'[v].sent_fd = slots[v].sent_fd
  <2>1. CASE v = u
    <3>1. slots[v] = FreeSlot
      BY <1>1, <2>1, FirstIsFree DEF FreeSlotIsClean
    <3>. QED  BY <1>3, <2>1, <3>1, FreeSlotFields DEF LogsIn
  <2>2. CASE v # u
    BY <1>3, <2>2 DEF LogsIn
  <2>. QED  BY <2>1, <2>2
<1>6. \A g \in Fds : g # f => fdt'[g] = fdt[g]
  BY <1>1, <1>3 DEF TypeInv
<1>. QED  BY <1>2, <1>3, <1>4, <1>5, <1>6, IdleTyped DEF Accounted

LEMMA AccountsStep ==
    ASSUME SlotInv, status = "up", UserPipeLine(cur.line), NoTables, Accounted, Next, status' = "up"
    PROVE  NoTables' /\ Accounted'
<1>1. TypeInv /\ UserPipeSymmetric
  BY DEF SlotInv
<1>2. CASE Accept
  BY <1>2, LoginAccounts
<1>3. ASSUME NEW f \in Fds, Logout(f) PROVE NoTables' /\ Accounted'
  BY <1>3, LogoutAccounts
<1>4. ASSUME NEW f \in Fds, ReadLine(f) PROVE NoTables' /\ Accounted'
  <2>1. UNCHANGED <<slots, afds, fdt>> /\ cur.pc # "out"
    BY <1>4, IdleTyped DEF ReadLine, Selects
  <2>. QED  BY <2>1, NothingOpened DEF NoTables
<1>5. ASSUME NEW f \in Fds, PeerCloses(f) PROVE NoTables' /\ Accounted'
  <2>1. UNCHANGED <<slots, afds, cur>> /\ fdt[f].kind = "sock" /\ fdt' = [fdt EXCEPT ![f].kind = "dead"]
    BY <1>5 DEF PeerCloses
  <2>2. fdt[f] # Closed
    BY <2>1, ClosedKind
  <2>3. \A g \in Fds : fdt'[g] # Closed => fdt[g] # Closed
    BY <1>1, <2>1, <2>2 DEF TypeInv
  <2>. QED  BY <2>1, <2>3, NothingOpened DEF NoTables
<1>6. ASSUME NEW f \in Fds, EndOfInput(f) PROVE NoTables' /\ Accounted'
  <2>1. /\ slots' = slots /\ cur' = cur /\ afds' = afds \ {f} /\ fdt' = CloseAll(fdt, {f})
    BY <1>6 DEF EndOfInput
  <2>2. \A g \in Fds : fdt'[g] # Closed => fdt[g] # Closed /\ g # f
    BY <2>1, ClosedOnly
  <2>. QED  BY <2>1, <2>2, NothingOpened DEF NoTables
<1>7. CASE EndOfLine
  <2>1. UNCHANGED <<slots, afds, fdt>> /\ cur.pc = "cmd"
    BY <1>7 DEF EndOfLine
  <2>. QED  BY <2>1, NothingOpened DEF NoTables
<1>8. ~OutOfBounds /\ ~PipeFails /\ ~Interrupt /\ \A f \in Fds : ~LineWithoutSlot(f)
  BY DEF OutOfBounds, PipeFails, Interrupt, LineWithoutSlot
<1>9. CASE RunStep
  <2>1. CASE CmdSetenv \/ CmdQuery \/ CmdName \/ CmdTell \/ CmdYell
    BY <1>1, <2>1, BuiltinAccounts
  <2>2. CASE NoUserPipeIn \/ UserPipeIn \/ UserPipeInError
    BY <1>1, <2>2, InputAccounts
  <2>3. CASE \/ ToOldPipe \/ ToNewPipe \/ ToFile \/ OpenFails
             \/ UserPipeOut \/ UserPipeOutError \/ ToClient
    BY <1>1, <2>3, OutputAccounts
  <2>. QED  BY <1>7, <1>8, <1>9, <2>1, <2>2, <2>3 DEF RunStep
<1>. QED  BY <1>2, <1>3, <1>4, <1>5, <1>6, <1>8, <1>9 DEF Next

(***************************************************************************)
(* As long as users send only lines of pipes between users, no descriptor  *)
(* of np_single_proc stays open without a place that will close it.        *)
(***************************************************************************)
THEOREM NoneLeaked == UserPipesOnly => (Spec => []NoLeakedDescriptor)
<1> SUFFICES ASSUME UserPipesOnly PROVE Spec => []NoLeakedDescriptor
  OBVIOUS
<1>1. Init => LeakInv
  <2> SUFFICES ASSUME Init PROVE LeakInv
    OBVIOUS
  <2>1. SlotInv /\ UserPipeLine(cur.line)
    BY SlotInvInit DEF Init, Idle, UserPipeLine
  <2>2. \A u \in Users : slots[u].npipes = <<>>
    BY FreeSlotFields DEF Init
  <2>3. \A f \in Fds : fdt[f] = Closed
    BY DEF Init
  <2>. QED  BY <2>1, <2>2, <2>3 DEF LeakInv, NoTables, Accounted
<1>2. LeakInv /\ [Next]_vars => LeakInv'
  <2> SUFFICES ASSUME LeakInv, [Next]_vars PROVE LeakInv'
    OBVIOUS
  <2>1. SlotInv' /\ TypeInv' /\ StepKind
    BY SlotInvStep, StepKinds DEF LeakInv, SlotInv
  <2>2. UserPipeLine(cur'.line)
    BY <2>1, UserPipeStep DEF LeakInv, SlotInv
  <2>3. CASE UNCHANGED vars
    BY <2>1, <2>2, <2>3 DEF LeakInv, vars, NoTables, Accounted, Cmd
  <2>4. CASE Next /\ status = "up"
    BY <2>1, <2>2, <2>4, AccountsStep DEF LeakInv
  <2>. QED  BY <2>1, <2>3, <2>4 DEF StepKind
<1>3. LeakInv => NoLeakedDescriptor
  BY DEF LeakInv, NoTables, Accounted, NoLeakedDescriptor
<1>. QED  BY <1>1, <1>2, <1>3, PTL DEF Spec
=============================================================================
