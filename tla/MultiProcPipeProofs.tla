------------------------ MODULE MultiProcPipeProofs ------------------------
(***************************************************************************)
(* Theorems about the FIFOs between the users of np_multi_proc, for any    *)
(* number of users, slots and commands.                                    *)
(***************************************************************************)
EXTENDS MultiProcProofs

(***************************** User pipes **********************************)

(* The instructions of ">n" and of "<n": a command is in one of them at a  *)
(* time, but for the mkfifo and the open that set_sender prepares.         *)
Chain == {"out_exists", "out_fifo", "set_sender", "mkfifo",
          "in_exists", "in_fifo", "take_fd", "close_in", "unlink"}
Chain2 == {"out_exists", "out_fifo", "set_sender", "open_write",
           "in_exists", "in_fifo", "take_fd", "close_in", "unlink"}
PipeOps == Chain \cup Chain2

(* Those of a logout. *)
LeaveOps == {"user_pipe_clear", "read_fds", "mark_clear", "kill_alrm", "reset_sent",
             "clear_slot", "close"}

Special == PipeOps \cup LeaveOps \cup MasterOps \cup {"set_sent", "prompt", "exit"}

Ins(c) == {c[k] : k \in DOMAIN c}
Spc(c) == {x \in Ins(c) : x.do \in Special}

Once(c, K) == \A j, k \in DOMAIN c : c[j].do \in K /\ c[k].do \in K => j = k

(* The descriptors c is about to put down for FIFOs from i. *)
Lays(c, i) == {x \in Spc(c) : x.do = "set_sent" /\ x.from = i}
Single(c, i) ==
    \A j, k \in DOMAIN c :
        c[j].do = "set_sent" /\ c[k].do = "set_sent" /\ c[j].from = i /\ c[k].from = i => j = k

(* After mkfifo, wait and kill_usr2 comes the open of the same FIFO. *)
Prepared(c) ==
    \A k \in DOMAIN c : c[k].do = "mkfifo" =>
        k + 3 \in DOMAIN c /\ c[k+3].do = "open_write" /\ c[k+3].to = c[k].to

(* The master's own instructions come last. *)
Up(c) ==
    \A j, k \in DOMAIN c : j < k /\ c[j].do \in MasterOps => c[k].do \in MasterOps

LEMMA InsKinds ==
    ASSUME NEW c
    PROVE  /\ Kinds(c) = {x.do : x \in Ins(c)}
           /\ Kinds(c) \cap Special = {x.do : x \in Spc(c)}
BY DEF Kinds, Ins, Spc

LEMMA InsConcat ==
    ASSUME NEW s, NEW c, IsSeq(s), IsSeq(c)
    PROVE  Ins(s \o c) = Ins(s) \cup Ins(c) /\ Spc(s \o c) = Spc(s) \cup Spc(c)
<1>. DEFINE t == s \o c
            l == Len(s)
            m == Len(c)
<1>1. /\ l \in Nat /\ m \in Nat
      /\ DOMAIN s = 1..l /\ DOMAIN c = 1..m /\ DOMAIN t = 1..l+m
      /\ \A k \in 1..l : t[k] = s[k]
      /\ \A k \in 1..m : t[l+k] = c[k]
  BY Concat
<1>. HIDE DEF t, l, m
<1>2. ASSUME NEW k \in 1..l+m PROVE t[k] \in Ins(s) \cup Ins(c)
  <2>1. CASE k <= l
    <3>1. k \in 1..l
      BY <1>1, <2>1
    <3>. QED  BY <1>1, <3>1 DEF Ins
  <2>2. CASE ~(k <= l)
    <3>1. k - l \in 1..m /\ k = l + (k - l)
      BY <1>1, <2>2
    <3>2. t[k] = c[k-l]
      BY <1>1, <3>1
    <3>. QED  BY <1>1, <3>1, <3>2, Zenon DEF Ins
  <2>. QED  BY <2>1, <2>2
<1>3. \A k \in 1..l : k \in 1..l+m
  BY <1>1
<1>4. \A k \in 1..m : l+k \in 1..l+m
  BY <1>1
<1>5. Ins(t) \subseteq Ins(s) \cup Ins(c)
  BY <1>1, <1>2, Zenon DEF Ins
<1>6. ASSUME NEW k \in 1..l PROVE s[k] \in Ins(t)
  BY <1>1, <1>3, Zenon DEF Ins
<1>7. ASSUME NEW k \in 1..m PROVE c[k] \in Ins(t)
  BY <1>1, <1>4 DEF Ins
<1>8. Ins(s) \subseteq Ins(t) /\ Ins(c) \subseteq Ins(t)
  BY <1>1, <1>6, <1>7 DEF Ins
<1>9. Ins(t) = Ins(s) \cup Ins(c)
  BY <1>5, <1>8
<1>. QED  BY <1>9 DEF Spc, t

LEMMA InsTail ==
    ASSUME NEW c, IsSeq(c), c # <<>>
    PROVE  /\ Ins(c) = {c[1]} \cup Ins(Tail(c))
           /\ Spc(c) = {x \in {c[1]} : x.do \in Special} \cup Spc(Tail(c))
<1>1. IsSeq(Tail(c)) /\ c = <<c[1]>> \o Tail(c)
  BY HeadTail
<1>. DEFINE x == c[1]
            t == Tail(c)
            s == <<x>>
<1>2. IsSeq(s) /\ DOMAIN s = {1} /\ s[1] = x
  BY Singleton
<1>. HIDE DEF x, t, s
<1>3. Ins(s) = {x}
  BY <1>2 DEF Ins
<1>4. IsSeq(t) /\ c = s \o t
  BY <1>1 DEF x, t, s
<1>5. Ins(s \o t) = Ins(s) \cup Ins(t)
  BY <1>2, <1>4, InsConcat
<1>6. Ins(c) = {x} \cup Ins(t)
  BY <1>3, <1>4, <1>5
<1>. QED  BY <1>6 DEF Spc, x, t

(* What is kept when code is put before code. *)
LEMMA Joined ==
    ASSUME NEW s, NEW c, IsSeq(s), IsSeq(c)
    PROVE  /\ \A K : Once(s, K) /\ Once(c, K) /\ (Kinds(s) \cap K = {} \/ Kinds(c) \cap K = {})
                        => Once(s \o c, K)
           /\ \A i : Single(s, i) /\ Single(c, i) /\ (Lays(s, i) = {} \/ Lays(c, i) = {})
                        => Single(s \o c, i)
           /\ Prepared(s) /\ Prepared(c) => Prepared(s \o c)
           /\ Up(s) /\ Up(c) /\ (Kinds(s) \cap MasterOps = {} \/ Kinds(c) \subseteq MasterOps)
                        => Up(s \o c)
<1>. DEFINE t == s \o c
            l == Len(s)
            m == Len(c)
<1>1. /\ l \in Nat /\ m \in Nat
      /\ DOMAIN s = 1..l /\ DOMAIN c = 1..m /\ DOMAIN t = 1..l+m
      /\ \A k \in 1..l : t[k] = s[k]
      /\ \A k \in 1..m : t[l+k] = c[k]
  BY Concat
<1>. HIDE DEF t, l, m
<1>2. ASSUME NEW k \in 1..l+m
      PROVE  (k \in 1..l /\ t[k] = s[k]) \/ (k - l \in 1..m /\ t[k] = c[k-l] /\ k > l)
  <2>1. CASE k <= l
    <3>1. k \in 1..l
      BY <1>1, <2>1
    <3>. QED  BY <1>1, <3>1
  <2>2. CASE ~(k <= l)
    <3>1. k - l \in 1..m /\ k = l + (k - l) /\ k > l
      BY <1>1, <2>2
    <3>. QED  BY <1>1, <3>1
  <2>. QED  BY <2>1, <2>2
<1>3. ASSUME NEW K, Once(s, K), Once(c, K), Kinds(s) \cap K = {} \/ Kinds(c) \cap K = {}
      PROVE  Once(t, K)
  <2>. SUFFICES ASSUME NEW j \in 1..l+m, NEW k \in 1..l+m, t[j].do \in K, t[k].do \in K
                PROVE  j = k
    BY <1>1 DEF Once
  <2>0. \A n \in 1..l : s[n].do \in Kinds(s)
    BY <1>1, Zenon DEF Kinds
  <2>1. \A n \in 1..m : c[n].do \in Kinds(c)
    BY <1>1, Zenon DEF Kinds
  <2>2. CASE Kinds(s) \cap K = {}
    <3>1. j - l \in 1..m /\ t[j] = c[j-l] /\ k - l \in 1..m /\ t[k] = c[k-l]
      BY <1>2, <2>0, <2>2
    <3>2. j - l = k - l
      BY <1>1, <1>3, <3>1 DEF Once
    <3>. QED  BY <1>1, <3>2
  <2>3. CASE Kinds(c) \cap K = {}
    <3>1. j \in 1..l /\ t[j] = s[j] /\ k \in 1..l /\ t[k] = s[k]
      BY <1>2, <2>1, <2>3
    <3>. QED  BY <1>1, <1>3, <3>1 DEF Once
  <2>. QED  BY <1>3, <2>2, <2>3
<1>4. ASSUME NEW i, Single(s, i), Single(c, i), Lays(s, i) = {} \/ Lays(c, i) = {}
      PROVE  Single(t, i)
  <2>. SUFFICES ASSUME NEW j \in 1..l+m, NEW k \in 1..l+m,
                       t[j].do = "set_sent", t[k].do = "set_sent", t[j].from = i, t[k].from = i
                PROVE  j = k
    BY <1>1 DEF Single
  <2>0. \A n \in 1..l : s[n].do = "set_sent" /\ s[n].from = i => s[n] \in Lays(s, i)
    BY <1>1 DEF Lays, Spc, Ins, Special
  <2>1. \A n \in 1..m : c[n].do = "set_sent" /\ c[n].from = i => c[n] \in Lays(c, i)
    BY <1>1, Zenon DEF Lays, Spc, Ins, Special
  <2>2. CASE Lays(s, i) = {}
    <3>1. j - l \in 1..m /\ t[j] = c[j-l] /\ k - l \in 1..m /\ t[k] = c[k-l]
      BY <1>2, <2>0, <2>2
    <3>2. j - l = k - l
      BY <1>1, <1>4, <3>1, Zenon DEF Single
    <3>. QED  BY <1>1, <3>2
  <2>3. CASE Lays(c, i) = {}
    <3>1. j \in 1..l /\ t[j] = s[j] /\ k \in 1..l /\ t[k] = s[k]
      BY <1>2, <2>1, <2>3
    <3>. QED  BY <1>1, <1>4, <3>1 DEF Single
  <2>. QED  BY <1>4, <2>2, <2>3
<1>5. ASSUME Prepared(s), Prepared(c) PROVE Prepared(t)
  <2>. SUFFICES ASSUME NEW k \in 1..l+m, t[k].do = "mkfifo"
                PROVE  k + 3 \in 1..l+m /\ t[k+3].do = "open_write" /\ t[k+3].to = t[k].to
    BY <1>1 DEF Prepared
  <2>1. CASE k \in 1..l /\ t[k] = s[k]
    <3>1. k + 3 \in 1..l /\ s[k+3].do = "open_write" /\ s[k+3].to = s[k].to
      BY <1>1, <1>5, <2>1, Zenon DEF Prepared
    <3>2. k + 3 \in 1..l+m /\ t[k+3] = s[k+3]
      BY <1>1, <3>1
    <3>. QED  BY <2>1, <3>1, <3>2
  <2>2. CASE k - l \in 1..m /\ t[k] = c[k-l]
    <3>1. (k - l) + 3 \in 1..m /\ c[(k-l)+3].do = "open_write" /\ c[(k-l)+3].to = c[k-l].to
      BY <1>1, <1>5, <2>2, Zenon DEF Prepared
    <3>2. l + ((k - l) + 3) = k + 3 /\ k + 3 \in 1..l+m
      BY <1>1, <3>1
    <3>3. t[k+3] = c[(k-l)+3]
      BY <1>1, <3>1, <3>2
    <3>. QED  BY <2>2, <3>1, <3>2, <3>3
  <2>. QED  BY <1>2, <2>1, <2>2
<1>6. ASSUME Up(s), Up(c), Kinds(s) \cap MasterOps = {} \/ Kinds(c) \subseteq MasterOps PROVE Up(t)
  <2>. SUFFICES ASSUME NEW j \in 1..l+m, NEW k \in 1..l+m, j < k, t[j].do \in MasterOps
                PROVE  t[k].do \in MasterOps
    BY <1>1 DEF Up
  <2>0. \A n \in 1..l : s[n].do \in Kinds(s)
    BY <1>1 DEF Kinds
  <2>1. \A n \in 1..m : c[n].do \in Kinds(c)
    BY <1>1 DEF Kinds
  <2>2. CASE j \in 1..l /\ t[j] = s[j]
    <3>1. Kinds(c) \subseteq MasterOps
      BY <1>6, <2>0, <2>2
    <3>2. CASE k \in 1..l /\ t[k] = s[k]
      BY <1>1, <1>6, <2>2, <3>2, Zenon DEF Up
    <3>3. CASE k - l \in 1..m /\ t[k] = c[k-l]
      BY <2>1, <3>1, <3>3
    <3>. QED  BY <1>2, <3>2, <3>3
  <2>3. CASE j - l \in 1..m /\ t[j] = c[j-l] /\ j > l
    <3>1. k > l
      BY <1>1, <2>3
    <3>2. k - l \in 1..m /\ t[k] = c[k-l] /\ j - l < k - l
      BY <1>1, <1>2, <3>1
    <3>. QED  BY <1>1, <1>6, <2>3, <3>2, Zenon DEF Up
  <2>. QED  BY <1>2, <2>2, <2>3
<1>. QED  BY <1>3, <1>4, <1>5, <1>6 DEF t

(* What is kept when an instruction is done. *)
LEMMA Popped ==
    ASSUME NEW c, IsSeq(c), c # <<>>
    PROVE  /\ \A K : Once(c, K) => Once(Tail(c), K) /\ (c[1].do \in K => Kinds(Tail(c)) \cap K = {})
           /\ \A i : Single(c, i) => /\ Single(Tail(c), i)
                                     /\ c[1].do = "set_sent" /\ c[1].from = i => Lays(Tail(c), i) = {}
           /\ Prepared(c) => Prepared(Tail(c))
           /\ Prepared(c) /\ c[1].do = "mkfifo" =>
                 \E x \in Spc(Tail(c)) : x.do = "open_write" /\ x.to = c[1].to
           /\ Up(c) => Up(Tail(c)) /\ (c[1].do \in MasterOps => Kinds(Tail(c)) \subseteq MasterOps)
<1>. DEFINE t == Tail(c)
            l == Len(c)
<1>1. /\ l \in Nat \ {0} /\ DOMAIN c = 1..l /\ 1 \in DOMAIN c
      /\ DOMAIN t = 1..l-1 /\ \A k \in 1..l-1 : t[k] = c[k+1]
  BY HeadTail
<1>. HIDE DEF t, l
<1>2. \A k \in 1..l-1 : k + 1 \in 1..l /\ k + 1 # 1 /\ 1 < k + 1 /\ 1 \in 1..l
  BY <1>1
<1>3. ASSUME NEW j \in 1..l-1, NEW k \in 1..l-1
      PROVE  (j + 1 = k + 1 => j = k) /\ (j < k => j + 1 < k + 1)
  BY <1>1
<1>4. ASSUME NEW K, Once(c, K) PROVE Once(t, K) /\ (c[1].do \in K => Kinds(t) \cap K = {})
  <2>1. ASSUME NEW j \in 1..l-1, NEW k \in 1..l-1, t[j].do \in K, t[k].do \in K PROVE j = k
    <3>1. j + 1 \in 1..l /\ k + 1 \in 1..l /\ c[j+1].do \in K /\ c[k+1].do \in K
      BY <1>1, <1>2, <2>1
    <3>2. j + 1 = k + 1
      BY <1>1, <1>4, <3>1, Zenon DEF Once
    <3>. QED  BY <1>3, <3>2
  <2>2. ASSUME c[1].do \in K, NEW k \in 1..l-1 PROVE t[k].do \notin K
    BY <1>1, <1>2, <1>4, <2>2 DEF Once
  <2>. QED  BY <1>1, <2>1, <2>2 DEF Kinds, Once
<1>5. ASSUME NEW i, Single(c, i)
      PROVE  Single(t, i) /\ (c[1].do = "set_sent" /\ c[1].from = i => Lays(t, i) = {})
  <2>1. Single(t, i)
    BY <1>1, <1>2, <1>3, <1>5, SMTT(30) DEF Single
  <2>2. ASSUME c[1].do = "set_sent", c[1].from = i, NEW k \in 1..l-1
        PROVE  ~(t[k].do = "set_sent" /\ t[k].from = i)
    BY <1>1, <1>2, <1>5, <2>2, Zenon DEF Single
  <2>. QED  BY <1>1, <2>1, <2>2 DEF Lays, Spc, Ins
<1>6. ASSUME Prepared(c) PROVE Prepared(t)
  <2>. SUFFICES ASSUME NEW k \in 1..l-1, t[k].do = "mkfifo"
                PROVE  k + 3 \in 1..l-1 /\ t[k+3].do = "open_write" /\ t[k+3].to = t[k].to
    BY <1>1 DEF Prepared
  <2>1. (k + 1) + 3 \in 1..l /\ c[(k+1)+3].do = "open_write" /\ c[(k+1)+3].to = c[k+1].to
    BY <1>1, <1>2, <1>6, Zenon DEF Prepared
  <2>2. (k + 1) + 3 = (k + 3) + 1 /\ k + 3 \in 1..l-1
    BY <1>1, <2>1
  <2>. QED  BY <1>1, <2>1, <2>2
<1>7. ASSUME Prepared(c), c[1].do = "mkfifo"
      PROVE  \E x \in Spc(t) : x.do = "open_write" /\ x.to = c[1].to
  <2>1. 1 + 3 \in 1..l /\ c[1+3].do = "open_write" /\ c[1+3].to = c[1].to
    BY <1>1, <1>7 DEF Prepared
  <2>2. 3 \in 1..l-1 /\ 3 + 1 = 1 + 3
    BY <1>1, <2>1
  <2>3. t[3] \in Ins(t) /\ t[3] = c[1+3]
    BY <1>1, <2>2 DEF Ins
  <2>4. "open_write" \in Special
    BY DEF Special, PipeOps, Chain2
  <2>. QED  BY <2>1, <2>3, <2>4 DEF Spc
<1>8. ASSUME Up(c) PROVE Up(t) /\ (c[1].do \in MasterOps => Kinds(t) \subseteq MasterOps)
  <2>1. Up(t)
    BY <1>1, <1>2, <1>3, <1>8, SMTT(30) DEF Up
  <2>2. ASSUME c[1].do \in MasterOps, NEW k \in 1..l-1 PROVE t[k].do \in MasterOps
    BY <1>1, <1>2, <1>8, <2>2, Zenon DEF Up
  <2>. QED  BY <1>1, <2>1, <2>2 DEF Kinds
<1>. QED  BY <1>4, <1>5, <1>6, <1>7, <1>8 DEF t
(* What an instruction of p, the server of slot u, may be; out: p leaves. *)
Fits(p, u, x, out) ==
    /\ x.do \in LeaveOps \cup {"exit"} => p \in Conns /\ out
    /\ x.do \in PipeOps => p \in Conns
    /\ x.do \in {"out_exists", "out_fifo", "set_sender", "mkfifo", "open_write",
                 "in_exists", "in_fifo", "take_fd"} => x.to \in Slots
    /\ x.do = "unlink" => x.to = u \/ (x.from = u /\ out)
    /\ x.do = "set_sent" => x.fd \in Nat \ {0} /\ x.from \in Slots
    /\ x.do \in {"in_exists", "in_fifo", "take_fd"} /\ x.bad => "badfile" \in Menu

Lives(c) == Kinds(c) \cap {"prompt", "exit"} # {}

Good(p, u, c) ==
    /\ \A x \in Spc(c) : Fits(p, u, x, "exit" \in Kinds(c))
    /\ "exit" \in Kinds(c) \/ (Once(c, Chain) /\ Once(c, Chain2))
    /\ Prepared(c)
    /\ p \in Conns /\ c # <<>> => Lives(c)
    /\ p = Master => Up(c)

(* A piece of code with the special instructions X. *)
Part(s, X) ==
    /\ IsSeq(s) /\ Spc(s) = X
    /\ Once(s, Chain) /\ Once(s, Chain2) /\ Prepared(s)
    /\ Kinds(s) \cap (MasterOps \cup {"set_sent"}) = {}

(* d is c but for instructions that do not count. *)
Eased(d, c) ==
    /\ Spc(d) = Spc(c)
    /\ Once(c, Chain) => Once(d, Chain)
    /\ Once(c, Chain2) => Once(d, Chain2)
    /\ \A i : Single(c, i) => Single(d, i)
    /\ Prepared(c) => Prepared(d)
    /\ Up(c) => Up(d)

LEMMA SpecialOps ==
    /\ {"prompt", "exit", "set_sent"} \cup PipeOps \cup LeaveOps \cup MasterOps \subseteq Special
    /\ {"prompt", "exit", "set_sent"} \cap (PipeOps \cup LeaveOps \cup MasterOps) = {}
    /\ PipeOps \cap (LeaveOps \cup MasterOps) = {} /\ LeaveOps \cap MasterOps = {}
    /\ PipeOps = Chain \cup Chain2
    /\ "mkfifo" \notin Chain2 /\ "open_write" \notin Chain /\ "mkfifo" \in Chain /\ "open_write" \in Chain2
    /\ "wait" \notin Special
BY DEF Special, PipeOps, Chain, Chain2, LeaveOps, MasterOps

LEMMA PartKinds ==
    ASSUME NEW s, NEW X, Part(s, X)
    PROVE  /\ Kinds(s) \cap Special = {x.do : x \in X}
           /\ Up(s) /\ \A i : Single(s, i) /\ Lays(s, i) = {}
<1>1. Kinds(s) \cap Special = {x.do : x \in X}
  BY InsKinds DEF Part
<1>2. \A k \in DOMAIN s : s[k].do \notin MasterOps /\ s[k].do # "set_sent"
  BY DEF Part, Kinds
<1>3. Up(s) /\ \A i : Single(s, i)
  BY <1>2 DEF Up, Single
<1>4. \A i : Lays(s, i) = {}
  BY <1>2 DEF Lays, Spc, Ins
<1>. QED  BY <1>1, <1>3, <1>4

LEMMA PartNone == Part(<<>>, {})
<1>1. DOMAIN <<>> = {} /\ IsSeq(<<>>)
  BY Empty DEF Form
<1>. QED  BY <1>1 DEF Part, Spc, Ins, Once, Prepared, Kinds

LEMMA PartOne ==
    ASSUME NEW x, x.do \notin MasterOps \cup {"mkfifo", "set_sent"}
    PROVE  Part(<<x>>, {y \in {x} : y.do \in Special})
<1>. DEFINE s == <<x>>
<1>1. IsSeq(s) /\ DOMAIN s = {1} /\ s[1] = x
  BY Singleton
<1>. HIDE DEF s
<1>2. Ins(s) = {x} /\ Kinds(s) = {x.do}
  BY <1>1 DEF Ins, Kinds
<1>3. Once(s, Chain) /\ Once(s, Chain2) /\ Prepared(s)
  BY <1>1 DEF Once, Prepared
<1>. QED  BY <1>1, <1>2, <1>3 DEF Part, Spc, s

LEMMA PartPlain ==
    ASSUME NEW x, x.do \notin Special
    PROVE  Part(<<x>>, {})
<1>1. x.do \notin MasterOps \cup {"mkfifo", "set_sent"}
  BY SpecialOps
<1>2. {y \in {x} : y.do \in Special} = {}
  OBVIOUS
<1>. QED  BY <1>1, <1>2, PartOne

LEMMA PartSpecial ==
    ASSUME NEW x, x.do \in Special, x.do \notin MasterOps \cup {"mkfifo", "set_sent"}
    PROVE  Part(<<x>>, {x})
<1>1. {y \in {x} : y.do \in Special} = {x}
  OBVIOUS
<1>. QED  BY <1>1, PartOne

LEMMA PartBefore ==
    ASSUME NEW s, NEW t, NEW X, Part(s, {}), Part(t, X)
    PROVE  Part(s \o t, X) /\ Part(t \o s, X)
<1>1. IsSeq(s) /\ IsSeq(t) /\ Kinds(s) \cap Special = {}
  BY PartKinds DEF Part
<1>2. /\ Kinds(s) \cap Chain = {} /\ Kinds(s) \cap Chain2 = {}
      /\ Kinds(s) \cap (MasterOps \cup {"set_sent"}) = {}
  BY <1>1, SpecialOps
<1>3. /\ IsSeq(s \o t) /\ IsSeq(t \o s)
      /\ Kinds(s \o t) = Kinds(s) \cup Kinds(t) /\ Kinds(t \o s) = Kinds(t) \cup Kinds(s)
      /\ Spc(s \o t) = Spc(s) \cup Spc(t) /\ Spc(t \o s) = Spc(t) \cup Spc(s)
  BY <1>1, Concat, KindsConcat, InsConcat
<1>4. Once(s \o t, Chain) /\ Once(s \o t, Chain2) /\ Prepared(s \o t)
  BY <1>1, <1>2, Joined DEF Part
<1>5. Once(t \o s, Chain) /\ Once(t \o s, Chain2) /\ Prepared(t \o s)
  BY <1>1, <1>2, Joined DEF Part
<1>. QED  BY <1>2, <1>3, <1>4, <1>5 DEF Part

LEMMA PartSection ==
    ASSUME NEW y, NEW X, Part(<<y>>, X)
    PROVE  Part(Section(y), X)
<1>. DEFINE x == Do("wait")
            s == <<x>>
            t == <<y>>
<1>1. x.do \notin Special
  BY SpecialOps DEF Do
<1>. HIDE DEF x
<1>2. Part(s, {})
  BY <1>1, PartPlain
<1>3. Section(y) = s \o t
  BY DEF Section, x
<1>. HIDE DEF s, t
<1>4. Part(t, X)
  BY DEF t
<1>. QED  BY <1>2, <1>3, <1>4, PartBefore

LEMMA PartEach ==
    ASSUME NEW op, op \notin Special
    PROVE  Part([i \in Slots |-> On(op, i)], {})
<1>. DEFINE s == [i \in Slots |-> On(op, i)]
            S == {On(op, i) : i \in Slots}
<1>1. Slots = 1..MAX_CLIENTS /\ MAX_CLIENTS \in Nat
  BY MultiProcAssumption, Zenon DEF Slots
<1>2. s \in [1..MAX_CLIENTS -> S]
  BY <1>1
<1>3. s \in UNION {[1..n -> S] : n \in Nat}
  <2>. HIDE DEF s, S
  <2>. QED  BY <1>1, <1>2
<1>4. s \in Seq(S)
  <2>. HIDE DEF s, S
  <2>. QED  BY <1>3, SeqDef
<1>5. \A k \in DOMAIN s : s[k].do = op
  BY DEF On
<1>. HIDE DEF s, S
<1>6. IsSeq(s)
  BY <1>4, SeqIs
<1>7. \A k \in DOMAIN s : s[k].do \notin Special /\ s[k].do \notin Chain /\ s[k].do \notin Chain2
                          /\ s[k].do # "mkfifo" /\ s[k].do \notin MasterOps \cup {"set_sent"}
  BY <1>5, SpecialOps
<1>8. Spc(s) = {}
  BY <1>7 DEF Spc, Ins
<1>9. Kinds(s) \cap (MasterOps \cup {"set_sent"}) = {}
  BY <1>7 DEF Kinds
<1>10. Once(s, Chain) /\ Once(s, Chain2) /\ Prepared(s)
  BY <1>7 DEF Once, Prepared
<1>. QED  BY <1>6, <1>8, <1>9, <1>10 DEF Part, s

LEMMA PartPeek == Part(Peek, {})
<1>1. Do("peek").do \notin Special
  BY DEF Do, Special, PipeOps, Chain, Chain2, LeaveOps, MasterOps
<1>. QED  BY <1>1, PartPlain, PartSection, Zenon DEF Peek

LEMMA PartBroadcast == Part(broadcast, {})
<1>1. Do("bcast").do \notin Special /\ "killif" \notin Special
  BY DEF Do, Special, PipeOps, Chain, Chain2, LeaveOps, MasterOps
<1>2. Part(Section(Do("bcast")), {}) /\ Part([i \in Slots |-> On("killif", i)], {})
  BY <1>1, PartPlain, PartSection, PartEach, Zenon
<1>. QED  BY <1>2, PartBefore DEF broadcast

LEMMA PartHandler ==
    ASSUME NEW p \in Procs, NEW s \in Signals
    PROVE  Part(Handler(p, s), {})
<1>. DEFINE h == CASE s = "usr1" -> Section(Do("pass_message"))
                   [] s = "usr2" -> <<Do("user_pipe_handler")>>
                   [] s = "alrm" -> Section(Do("user_exit_clear"))
                   [] s = "chld" -> IF p = Master THEN Section(Do("close_unused_fd")) ELSE <<>>
            r == [do |-> "return", sig |-> s]
<1>1. /\ Do("pass_message").do \notin Special /\ Do("user_exit_clear").do \notin Special
      /\ Do("close_unused_fd").do \notin Special /\ Do("user_pipe_handler").do \notin Special
      /\ r.do \notin Special
  BY DEF Do, Special, PipeOps, Chain, Chain2, LeaveOps, MasterOps
<1>2. /\ Part(Section(Do("pass_message")), {}) /\ Part(Section(Do("user_exit_clear")), {})
      /\ Part(Section(Do("close_unused_fd")), {}) /\ Part(<<Do("user_pipe_handler")>>, {})
      /\ Part(<<r>>, {}) /\ Part(<<>>, {})
  BY <1>1, PartSection, PartPlain, PartNone, Zenon
<1>3. Part(h, {})
  <2>1. s = "usr1" \/ s = "usr2" \/ s = "alrm" \/ s = "chld"
    BY DEF Signals
  <2>. QED  BY <1>2, <2>1
<1>. HIDE DEF h
<1>4. Handler(p, s) = h \o <<r>>
  BY DEF Handler, h
<1>. QED  BY <1>2, <1>3, <1>4, PartBefore

LEMMA EasedPart ==
    ASSUME NEW s, Part(s, {}), NEW c, IsSeq(c)
    PROVE  Eased(s \o c, c) /\ IsSeq(s \o c)
<1>1. IsSeq(s) /\ Kinds(s) \cap Special = {} /\ Up(s) /\ \A i : Single(s, i) /\ Lays(s, i) = {}
  BY PartKinds DEF Part
<1>2. Kinds(s) \cap Chain = {} /\ Kinds(s) \cap Chain2 = {} /\ Kinds(s) \cap MasterOps = {}
  BY <1>1, SpecialOps
<1>3. Spc(s \o c) = Spc(c) /\ IsSeq(s \o c)
  <2>1. Spc(s \o c) = Spc(s) \cup Spc(c)
    BY <1>1, InsConcat
  <2>2. IsSeq(s \o c)
    BY <1>1, Concat
  <2>. QED  BY <2>1, <2>2 DEF Part
<1>4. /\ Once(c, Chain) => Once(s \o c, Chain)
      /\ Once(c, Chain2) => Once(s \o c, Chain2)
      /\ Prepared(c) => Prepared(s \o c)
  BY <1>1, <1>2, Joined DEF Part
<1>5. /\ \A i : Single(c, i) => Single(s \o c, i)
      /\ Up(c) => Up(s \o c)
  BY <1>1, <1>2, Joined
<1>. QED  BY <1>3, <1>4, <1>5 DEF Eased

LEMMA EasedTail ==
    ASSUME NEW c, IsSeq(c), c # <<>>, c[1].do \notin Special
    PROVE  Eased(Tail(c), c) /\ IsSeq(Tail(c))
<1>1. Spc(Tail(c)) = Spc(c)
  BY InsTail, Zenon
<1>2. /\ Once(c, Chain) => Once(Tail(c), Chain)
      /\ Once(c, Chain2) => Once(Tail(c), Chain2)
      /\ Prepared(c) => Prepared(Tail(c))
      /\ \A i : Single(c, i) => Single(Tail(c), i)
      /\ Up(c) => Up(Tail(c))
  BY Popped
<1>. QED  BY <1>1, <1>2, HeadTail, Zenon DEF Eased

LEMMA EasedStep ==
    ASSUME NEW s, Part(s, {}), NEW c, IsSeq(c), c # <<>>, c[1].do \notin Special
    PROVE  Eased(s \o Tail(c), c)
<1>1. Eased(Tail(c), c) /\ IsSeq(Tail(c))
  BY EasedTail
<1>2. Eased(s \o Tail(c), Tail(c))
  BY <1>1, EasedPart
<1>. QED  BY <1>1, <1>2 DEF Eased

LEMMA SpcKinds ==
    ASSUME NEW c, NEW op \in Special
    PROVE  op \in Kinds(c) <=> \E x \in Spc(c) : x.do = op
BY InsKinds

LEMMA FitsOn ==
    ASSUME NEW p, NEW u, NEW x, NEW a, NEW b, a => b, Fits(p, u, x, a)
    PROVE  Fits(p, u, x, b)
BY DEF Fits

LEMMA EasedKinds ==
    ASSUME NEW c, NEW d, Eased(d, c)
    PROVE  Kinds(d) \cap Special = Kinds(c) \cap Special
BY InsKinds DEF Eased

LEMMA GoodEased ==
    ASSUME NEW p, NEW u, NEW c, NEW d, Good(p, u, c), Eased(d, c), c # <<>>
    PROVE  Good(p, u, d)
<1>1. Kinds(d) \cap Special = Kinds(c) \cap Special /\ "exit" \in Special /\ "prompt" \in Special
  BY EasedKinds, SpecialOps
<1>2. ("exit" \in Kinds(d) <=> "exit" \in Kinds(c)) /\ (Lives(d) <=> Lives(c))
  BY <1>1 DEF Lives
<1>3. \A x \in Spc(d) : Fits(p, u, x, "exit" \in Kinds(d))
  <2>1. ASSUME NEW x \in Spc(d) PROVE Fits(p, u, x, "exit" \in Kinds(d))
    <3>1. Fits(p, u, x, "exit" \in Kinds(c))
      BY DEF Good, Eased
    <3>. QED  BY <1>2, <3>1, FitsOn
  <2>. QED  BY <2>1
<1>. QED  BY <1>2, <1>3 DEF Good, Eased

LEMMA GoodTail ==
    ASSUME NEW p, NEW u, NEW c, IsSeq(c), c # <<>>, Good(p, u, c), c[1].do \notin {"prompt", "exit"}
    PROVE  /\ Good(p, u, Tail(c)) /\ IsSeq(Tail(c))
           /\ "exit" \in Kinds(Tail(c)) <=> "exit" \in Kinds(c)
           /\ p \in Conns => Lives(Tail(c))
           /\ \/ "exit" \in Kinds(c)
              \/ /\ c[1].do \in Chain => Kinds(Tail(c)) \cap Chain = {}
                 /\ c[1].do \in Chain2 => Kinds(Tail(c)) \cap Chain2 = {}
           /\ Spc(c) = {x \in {c[1]} : x.do \in Special} \cup Spc(Tail(c))
<1>1. IsSeq(Tail(c)) /\ Kinds(c) = {c[1].do} \cup Kinds(Tail(c))
  BY HeadTail, KindsTail, Zenon
<1>2. ("exit" \in Kinds(Tail(c)) <=> "exit" \in Kinds(c)) /\ (Lives(Tail(c)) <=> Lives(c))
  BY <1>1 DEF Lives
<1>3. Spc(c) = {x \in {c[1]} : x.do \in Special} \cup Spc(Tail(c))
  BY InsTail
<1>4. \A x \in Spc(Tail(c)) : Fits(p, u, x, "exit" \in Kinds(Tail(c)))
  <2>1. ASSUME NEW x \in Spc(Tail(c)) PROVE Fits(p, u, x, "exit" \in Kinds(Tail(c)))
    <3>1. Fits(p, u, x, "exit" \in Kinds(c))
      BY <1>3 DEF Good
    <3>. QED  BY <1>2, <3>1, FitsOn
  <2>. QED  BY <2>1
<1>5. /\ Once(c, Chain) => Once(Tail(c), Chain) /\ (c[1].do \in Chain => Kinds(Tail(c)) \cap Chain = {})
      /\ Once(c, Chain2) => Once(Tail(c), Chain2) /\ (c[1].do \in Chain2 => Kinds(Tail(c)) \cap Chain2 = {})
      /\ Prepared(c) => Prepared(Tail(c))
      /\ Up(c) => Up(Tail(c))
  BY Popped
<1>6. p \in Conns => Lives(Tail(c))
  BY <1>2 DEF Good
<1>7. Good(p, u, Tail(c))
  BY <1>2, <1>4, <1>5, <1>6 DEF Good
<1>. QED  BY <1>1, <1>2, <1>3, <1>5, <1>6, <1>7 DEF Good

LEMMA GoodPush ==
    ASSUME NEW p, NEW u, NEW t, IsSeq(t), Good(p, u, t), NEW s, NEW X, Part(s, X),
           \A x \in X : Fits(p, u, x, "exit" \in Kinds(t)),
           \/ \A x \in X : x.do \notin PipeOps
           \/ Kinds(t) \cap PipeOps = {}
           \/ "exit" \in Kinds(t),
           p \in Conns => Lives(t)
    PROVE  /\ Good(p, u, s \o t) /\ IsSeq(s \o t)
           /\ Spc(s \o t) = X \cup Spc(t)
           /\ \A i : Single(t, i) => Single(s \o t, i)
           /\ Kinds(s \o t) = Kinds(s) \cup Kinds(t)
<1>1. IsSeq(s) /\ Kinds(s) \cap Special = {x.do : x \in X} /\ Up(s)
      /\ \A i : Single(s, i) /\ Lays(s, i) = {}
  BY PartKinds DEF Part
<1>2. Kinds(s \o t) = Kinds(s) \cup Kinds(t) /\ Spc(s \o t) = X \cup Spc(t) /\ IsSeq(s \o t)
  BY <1>1, KindsConcat, InsConcat, Concat DEF Part
<1>3. \A x \in Spc(s \o t) : Fits(p, u, x, "exit" \in Kinds(s \o t))
  <2>1. ASSUME NEW x \in Spc(s \o t) PROVE Fits(p, u, x, "exit" \in Kinds(s \o t))
    <3>1. Fits(p, u, x, "exit" \in Kinds(t))
      BY <1>2 DEF Good
    <3>. QED  BY <1>2, <3>1 DEF Fits
  <2>. QED  BY <2>1
<1>4. /\ Prepared(s \o t) /\ \A i : Single(t, i) => Single(s \o t, i)
  BY <1>1, Joined DEF Part, Good
<1>5. p = Master => Up(s \o t)
  BY <1>1, Joined DEF Part, Good
<1>6. p \in Conns => Lives(s \o t)
  BY <1>2 DEF Lives
<1>7. "exit" \in Kinds(s \o t) \/ (Once(s \o t, Chain) /\ Once(s \o t, Chain2))
  <2>. SUFFICES ASSUME "exit" \notin Kinds(s \o t) PROVE Once(s \o t, Chain) /\ Once(s \o t, Chain2)
    OBVIOUS
  <2>1. Once(t, Chain) /\ Once(t, Chain2)
    BY <1>2 DEF Good
  <2>2. \/ Kinds(s) \cap Chain = {} /\ Kinds(s) \cap Chain2 = {}
        \/ Kinds(t) \cap Chain = {} /\ Kinds(t) \cap Chain2 = {}
    <3>1. CASE \A x \in X : x.do \notin PipeOps
      <4>1. PipeOps \subseteq Special /\ Chain \subseteq PipeOps /\ Chain2 \subseteq PipeOps
        BY SpecialOps
      <4>2. Kinds(s) \cap PipeOps = {}
        BY <1>1, <3>1, <4>1
      <4>. QED  BY <4>1, <4>2
    <3>2. CASE Kinds(t) \cap PipeOps = {}
      BY <3>2, SpecialOps
    <3>3. "exit" \notin Kinds(t)
      BY <1>2
    <3>. QED  BY <3>1, <3>2, <3>3
  <2>. QED  BY <1>1, <2>1, <2>2, Joined DEF Part
<1>8. Good(p, u, s \o t)
  BY <1>3, <1>4, <1>5, <1>6, <1>7 DEF Good
<1>. QED  BY <1>2, <1>4, <1>8

LEMMA GoodNone ==
    ASSUME NEW p, NEW u
    PROVE  Good(p, u, <<>>) /\ Spc(<<>>) = {} /\ \A i : Single(<<>>, i)
<1>1. Part(<<>>, {}) /\ DOMAIN <<>> = {}
  BY PartNone
<1>. QED  BY <1>1, PartKinds DEF Good, Part
(* What c still has to do about a pipe, to j or from i: open it for        *)
(* writing, create its FIFO, take the descriptor that the receiver has of  *)
(* it, close it.                                                           *)
Outs(c, j) == {x \in Spc(c) : x.do \in {"open_write", "set_sender"} /\ x.to = j}
Early(c, j) == {x \in Spc(c) : x.do \in {"set_sender", "mkfifo"} /\ x.to = j}
Gets(c, i) == {x \in Spc(c) : x.do = "take_fd" /\ x.to = i}
Ends(c, i) ==
    {x \in Spc(c) : x.do \in {"close_in", "unlink"} /\ x.from = i /\ (x.do = "close_in" => x.fd # -1)}

Writing(p, i, j) == p \in Conns /\ me[p] = i /\ Outs(code[p], j) # {}
Starting(p, i, j) == p \in Conns /\ me[p] = i /\ Early(code[p], j) # {}
Laying(p, i, j) == me[p] = j /\ Lays(code[p], i) # {}
Taking(p, i, j) == p \in Conns /\ me[p] = j /\ Gets(code[p], i) # {}
Ending(p, i, j) == p \in Conns /\ me[p] = j /\ Ends(code[p], i) # {}
Filed(i, j) == all_clients[j].sent_fd[i] # -1

Calm(i, j) == \A c \in Conns : me[c] \in {i, j} => ~Left(c)

(***************************************************************************)
(* The pipe from i to j, between users that are there: its FIFO exists     *)
(* from mkfifo to the unlink of the receiver's command; what the receiver  *)
(* has of it, or will have, is in one place at a time: in the sender's     *)
(* open, the handler's set_sent, the table or the command that reads it.   *)
(***************************************************************************)
Pipe(i, j) ==
    /\ fifo[<<i, j>>] # 0 =>
          \/ \E p \in Procs : Writing(p, i, j) \/ Laying(p, i, j) \/ Ending(p, i, j)
          \/ Filed(i, j) \/ "badfile" \in Menu
    /\ Filed(i, j) => fifo[<<i, j>>] # 0
    /\ \A p \in Procs :
          /\ Starting(p, i, j) => fifo[<<i, j>>] = 0
          /\ Taking(p, i, j) \/ Laying(p, i, j) \/ Ending(p, i, j) => fifo[<<i, j>>] # 0
          /\ Writing(p, i, j) \/ Laying(p, i, j) \/ Ending(p, i, j) => ~Filed(i, j)
    /\ \A p, q \in Procs :
          /\ ~(Writing(p, i, j) /\ Laying(q, i, j))
          /\ ~(Writing(p, i, j) /\ Ending(q, i, j))
          /\ ~(Laying(p, i, j) /\ Ending(q, i, j))
          /\ Laying(p, i, j) /\ Laying(q, i, j) => p = q
    /\ \A p \in Procs : me[p] = j => Single(code[p], i)

Files ==
    /\ fifo \in [Slots \X Slots -> Nat] /\ opened \in Nat
    /\ ffds \in [Procs -> SUBSET Nat]

Table ==
    \A i \in Slots : "sent_fd" \in DOMAIN all_clients[i] /\ DOMAIN all_clients[i].sent_fd = Slots

Goods ==
    /\ \A p \in Procs : Good(p, me[p], code[p])
    /\ \A c \in Conns : code[c] # <<>> => me[c] \in Slots

Pipes == \A i, j \in Slots : Calm(i, j) => Pipe(i, j)

PipeInv == Files /\ Table /\ Goods /\ Pipes

(* p goes on with d. *)
Moves(p, d) ==
    /\ code[p] # <<>> /\ code' = [code EXCEPT ![p] = d] /\ me' = me
    /\ Good(p, me[p], d)
    /\ "exit" \in Kinds(code[p]) => "exit" \in Kinds(d) \/ d = <<>>

(* Nothing about the pipe from i to j changes for p. *)
Alike(p, i, j) ==
    /\ Writing(p, i, j)' <=> Writing(p, i, j)
    /\ Starting(p, i, j)' <=> Starting(p, i, j)
    /\ Laying(p, i, j)' <=> Laying(p, i, j)
    /\ Taking(p, i, j)' <=> Taking(p, i, j)
    /\ Ending(p, i, j)' <=> Ending(p, i, j)
    /\ (me[p] = j => Single(code[p], i)) => (me'[p] = j => Single(code'[p], i))

SameSent(i, j) == all_clients'[j].sent_fd[i] = all_clients[j].sent_fd[i]

LEMMA LeftIs ==
    ASSUME NEW c
    PROVE  Left(c) <=> (me[c] # -1 /\ code[c] = <<>>) \/ "exit" \in Kinds(code[c])
BY DEF Left, Gone, Alive, Leaving, Kinds

LEMMA MoveKeeps ==
    ASSUME MpInv, PipeInv, NEW p \in Procs, NEW d, Moves(p, d)
    PROVE  /\ Goods' /\ code'[p] = d
           /\ \A i, j \in Slots : /\ Calm(i, j)' => Calm(i, j)
                                  /\ \A r \in Procs \ {p} : Alike(r, i, j)
<1>1. /\ code'[p] = d /\ \A r \in Procs : r # p => code'[r] = code[r]
      /\ me' = me /\ Conns \subseteq Procs
  BY ProcsAre DEF MpInv, StructInv, Moves
<1>2. Goods'
  <2>1. \A r \in Procs : Good(r, me'[r], code'[r])
    BY <1>1 DEF PipeInv, Goods, Moves
  <2>2. \A c \in Conns : code'[c] # <<>> => me'[c] \in Slots
    BY <1>1 DEF PipeInv, Goods, Moves
  <2>. QED  BY <2>1, <2>2 DEF Goods
<1>3. ASSUME NEW i \in Slots, NEW j \in Slots, Calm(i, j)' PROVE Calm(i, j)
  <2>. SUFFICES ASSUME NEW c \in Conns, me[c] \in {i, j}, Left(c) PROVE FALSE
    BY DEF Calm
  <2>1. ~Left(c)' /\ me[c] # -1
    BY <1>1, <1>3, SlotIs DEF Calm
  <2>2. code'[c] # <<>> /\ "exit" \notin Kinds(code'[c])
    BY <1>1, <2>1 DEF Left, Gone, Alive, Leaving, Kinds
  <2>3. code[c] # <<>> => "exit" \in Kinds(code[c])
    BY LeftIs
  <2>. QED  BY <1>1, <2>2, <2>3 DEF Moves
<1>4. ASSUME NEW i \in Slots, NEW j \in Slots, NEW r \in Procs \ {p} PROVE Alike(r, i, j)
  BY <1>1 DEF Alike, Writing, Starting, Laying, Taking, Ending
<1>. QED  BY <1>1, <1>2, <1>3, <1>4

LEMMA PairStill ==
    ASSUME NEW i \in Slots, NEW j \in Slots, Pipe(i, j),
           fifo'[<<i, j>>] = fifo[<<i, j>>], SameSent(i, j), \A p \in Procs : Alike(p, i, j)
    PROVE  Pipe(i, j)'
<1>1. Filed(i, j)' <=> Filed(i, j)
  BY DEF Filed, SameSent
<1>2. \A p \in Procs : /\ Writing(p, i, j)' <=> Writing(p, i, j)
                       /\ Starting(p, i, j)' <=> Starting(p, i, j)
                       /\ Laying(p, i, j)' <=> Laying(p, i, j)
                       /\ Taking(p, i, j)' <=> Taking(p, i, j)
                       /\ Ending(p, i, j)' <=> Ending(p, i, j)
  BY DEF Alike
<1>3. \A p \in Procs : me'[p] = j => Single(code'[p], i)
  BY DEF Alike, Pipe
<1>4. fifo'[<<i, j>>] # 0 =>
          \/ \E p \in Procs : Writing(p, i, j)' \/ Laying(p, i, j)' \/ Ending(p, i, j)'
          \/ Filed(i, j)' \/ "badfile" \in Menu
  BY <1>1, <1>2 DEF Pipe
<1>5. Filed(i, j)' => fifo'[<<i, j>>] # 0
  BY <1>1 DEF Pipe
<1>6. \A p \in Procs :
          /\ Starting(p, i, j)' => fifo'[<<i, j>>] = 0
          /\ Taking(p, i, j)' \/ Laying(p, i, j)' \/ Ending(p, i, j)' => fifo'[<<i, j>>] # 0
          /\ Writing(p, i, j)' \/ Laying(p, i, j)' \/ Ending(p, i, j)' => ~Filed(i, j)'
  BY <1>1, <1>2 DEF Pipe
<1>7. \A p, q \in Procs :
          /\ ~(Writing(p, i, j)' /\ Laying(q, i, j)')
          /\ ~(Writing(p, i, j)' /\ Ending(q, i, j)')
          /\ ~(Laying(p, i, j)' /\ Ending(q, i, j)')
          /\ Laying(p, i, j)' /\ Laying(q, i, j)' => p = q
  BY <1>2 DEF Pipe
<1>. QED  BY <1>3, <1>4, <1>5, <1>6, <1>7 DEF Pipe

(* What it takes for that. *)
Tokens == {"open_write", "set_sender", "mkfifo", "take_fd", "close_in", "unlink", "set_sent"}
Toks(c) == {x \in Spc(c) : x.do \in Tokens}

LEMMA ToksAre ==
    ASSUME NEW c, NEW i
    PROVE  /\ Outs(c, i) = {x \in Toks(c) : x.do \in {"open_write", "set_sender"} /\ x.to = i}
           /\ Early(c, i) = {x \in Toks(c) : x.do \in {"set_sender", "mkfifo"} /\ x.to = i}
           /\ Lays(c, i) = {x \in Toks(c) : x.do = "set_sent" /\ x.from = i}
           /\ Gets(c, i) = {x \in Toks(c) : x.do = "take_fd" /\ x.to = i}
           /\ Ends(c, i) = {x \in Toks(c) : x.do \in {"close_in", "unlink"} /\ x.from = i
                                           /\ (x.do = "close_in" => x.fd # -1)}
BY DEF Outs, Early, Lays, Gets, Ends, Toks, Tokens

LEMMA ToksSame ==
    ASSUME NEW c, NEW d, Toks(d) = Toks(c), NEW k
    PROVE  /\ Outs(d, k) = Outs(c, k) /\ Early(d, k) = Early(c, k) /\ Lays(d, k) = Lays(c, k)
           /\ Gets(d, k) = Gets(c, k) /\ Ends(d, k) = Ends(c, k)
<1>. DEFINE S == Toks(c)
            A == {x \in S : x.do \in {"open_write", "set_sender"} /\ x.to = k}
            B == {x \in S : x.do \in {"set_sender", "mkfifo"} /\ x.to = k}
            C == {x \in S : x.do = "set_sent" /\ x.from = k}
            D == {x \in S : x.do = "take_fd" /\ x.to = k}
            E == {x \in S : x.do \in {"close_in", "unlink"} /\ x.from = k
                                           /\ (x.do = "close_in" => x.fd # -1)}
<1>1. Outs(c, k) = A /\ Early(c, k) = B /\ Lays(c, k) = C /\ Gets(c, k) = D /\ Ends(c, k) = E
  BY DEF Outs, Early, Lays, Gets, Ends, Toks, Tokens
<1>2. S = Toks(d)
  OBVIOUS
<1>. HIDE DEF S
<1>3. Outs(d, k) = A /\ Early(d, k) = B /\ Lays(d, k) = C /\ Gets(d, k) = D /\ Ends(d, k) = E
  BY <1>2 DEF Outs, Early, Lays, Gets, Ends, Toks, Tokens
<1>. HIDE DEF A, B, C, D, E
<1>. QED  BY <1>1, <1>3

LEMMA TokAlike ==
    ASSUME NEW p, NEW i, NEW j, Toks(code'[p]) = Toks(code[p]), me'[p] = me[p],
           Single(code[p], i) => Single(code'[p], i)
    PROVE  Alike(p, i, j)
<1>1. \A k : /\ Outs(code'[p], k) = Outs(code[p], k) /\ Early(code'[p], k) = Early(code[p], k)
             /\ Lays(code'[p], k) = Lays(code[p], k) /\ Gets(code'[p], k) = Gets(code[p], k)
             /\ Ends(code'[p], k) = Ends(code[p], k)
  BY ToksSame
<1>. QED  BY <1>1 DEF Alike, Writing, Starting, Laying, Taking, Ending

(* Code without any such instruction, before and after. *)
LEMMA NoneAlike ==
    ASSUME NEW p, NEW i, NEW j, Toks(code[p]) = {}, Toks(code'[p]) = {}, Single(code'[p], i)
    PROVE  Alike(p, i, j)
<1>1. \A k : /\ Outs(code[p], k) = {} /\ Early(code[p], k) = {} /\ Lays(code[p], k) = {}
             /\ Gets(code[p], k) = {} /\ Ends(code[p], k) = {}
  BY ToksAre
<1>2. \A k : /\ Outs(code'[p], k) = {} /\ Early(code'[p], k) = {} /\ Lays(code'[p], k) = {}
             /\ Gets(code'[p], k) = {} /\ Ends(code'[p], k) = {}
  BY ToksAre
<1>. QED  BY <1>1, <1>2 DEF Alike, Writing, Starting, Laying, Taking, Ending

(* A process that serves neither i nor j. *)
LEMMA OtherAlike ==
    ASSUME NEW p, NEW i, NEW j, me'[p] = me[p], me[p] \notin {i, j}
    PROVE  Alike(p, i, j)
BY DEF Alike, Writing, Starting, Laying, Taking, Ending

LEMMA TokMoves ==
    ASSUME MpInv, PipeInv, NEW p \in Procs, NEW d, Moves(p, d),
           Toks(d) = Toks(code[p]), \A i : Single(code[p], i) => Single(d, i),
           fifo' = fifo, \A i, j \in Slots : SameSent(i, j)
    PROVE  Goods' /\ Pipes'
<1>1. /\ Goods' /\ code'[p] = d
      /\ \A i, j \in Slots : /\ Calm(i, j)' => Calm(i, j)
                             /\ \A r \in Procs \ {p} : Alike(r, i, j)
  BY MoveKeeps
<1>2. ASSUME NEW i \in Slots, NEW j \in Slots, Calm(i, j)' PROVE Pipe(i, j)'
  <2>1. Pipe(i, j)
    BY <1>1, <1>2 DEF PipeInv, Pipes
  <2>2. me'[p] = me[p] /\ Toks(code'[p]) = Toks(code[p]) /\ (Single(code[p], i) => Single(code'[p], i))
    BY <1>1 DEF Moves
  <2>3. Alike(p, i, j)
    BY <2>2, TokAlike
  <2>4. \A r \in Procs : Alike(r, i, j)
    BY <1>1, <2>3
  <2>. QED  BY <2>1, <2>4, PairStill
<1>. QED  BY <1>1, <1>2 DEF Pipes

LEMMA EasyMoves ==
    ASSUME MpInv, PipeInv, NEW p \in Procs, NEW d, code[p] # <<>>, Eased(d, code[p]),
           code' = [code EXCEPT ![p] = d], me' = me, fifo' = fifo,
           \A i, j \in Slots : SameSent(i, j)
    PROVE  Goods' /\ Pipes'
<1>1. Good(p, me[p], d) /\ ("exit" \in Kinds(d) <=> "exit" \in Kinds(code[p]))
  <2>1. Good(p, me[p], d)
    BY GoodEased DEF PipeInv, Goods
  <2>2. Kinds(d) \cap Special = Kinds(code[p]) \cap Special /\ "exit" \in Special
    BY EasedKinds, SpecialOps
  <2>. QED  BY <2>1, <2>2
<1>2. Moves(p, d)
  BY <1>1 DEF Moves
<1>3. Toks(d) = Toks(code[p]) /\ \A i : Single(code[p], i) => Single(d, i)
  BY DEF Toks, Eased
<1>. QED  BY <1>2, <1>3, TokMoves

LEMMA LeftMoves ==
    ASSUME MpInv, PipeInv, NEW p \in Conns, NEW d, Moves(p, d), d = <<>> \/ "exit" \in Kinds(d),
           \A i, j \in Slots : me[p] \notin {i, j} =>
               fifo'[<<i, j>>] = fifo[<<i, j>>] /\ SameSent(i, j)
    PROVE  Goods' /\ Pipes'
<1>1. p \in Procs /\ me' = me /\ code[p] # <<>>
  BY ProcsAre DEF Moves
<1>2. /\ Goods' /\ code'[p] = d
      /\ \A i, j \in Slots : /\ Calm(i, j)' => Calm(i, j)
                             /\ \A r \in Procs \ {p} : Alike(r, i, j)
  BY <1>1, MoveKeeps
<1>3. me[p] \in Slots
  BY <1>1 DEF PipeInv, Goods
<1>4. ASSUME NEW i \in Slots, NEW j \in Slots, Calm(i, j)' PROVE Pipe(i, j)'
  <2>1. Pipe(i, j)
    BY <1>2, <1>4 DEF PipeInv, Pipes
  <2>2. Left(p)'
    <3>1. code'[p] = <<>> \/ "exit" \in Kinds(code'[p])
      BY <1>2
    <3>2. me'[p] # -1
      BY <1>1, <1>3, SlotIs
    <3>. QED  BY <3>1, <3>2 DEF Left, Gone, Alive, Leaving, Kinds
  <2>3. me[p] \notin {i, j}
    BY <1>1, <1>4, <2>2 DEF Calm
  <2>4. Alike(p, i, j)
    BY <1>1, <2>3, OtherAlike
  <2>5. \A r \in Procs : Alike(r, i, j)
    BY <1>2, <2>4
  <2>. QED  BY <2>1, <2>3, <2>5, PairStill, Zenon
<1>. QED  BY <1>2, <1>4 DEF Pipes

(* Who serves a user that is there. *)
LEMMA Owner ==
    ASSUME SlotInv, PipeInv, NEW p \in Conns, code[p] # <<>>, ~Left(p)
    PROVE  me[p] \in Slots /\ all_clients[me[p]].fd = p /\ "prompt" \in Kinds(code[p])
<1>1. "prompt" \in Kinds(code[p])
  BY LeftIs, ProcsAre DEF PipeInv, Goods, Good, Lives
<1>. QED  BY <1>1 DEF SlotInv, Users, Owners

LEMMA OneServer ==
    ASSUME SlotInv, PipeInv, NEW i \in Slots, NEW j \in Slots, Calm(i, j),
           NEW p \in Conns, NEW q \in Conns, me[p] \in {i, j}, me[q] = me[p]
    PROVE  p = q
<1>1. ~Left(p) /\ ~Left(q) /\ me[p] # -1
  BY SlotIs DEF Calm
<1>2. code[p] # <<>> /\ code[q] # <<>>
  BY <1>1 DEF Left, Gone, Alive
<1>. QED  BY <1>1, <1>2, Owner
TableKept ==
    \A j \in Slots : "sent_fd" \in DOMAIN all_clients'[j] /\ all_clients'[j].sent_fd = all_clients[j].sent_fd

LEMMA TableKeptIs ==
    ASSUME Table, TableKept
    PROVE  Table' /\ \A i, j \in Slots : SameSent(i, j)
BY DEF Table, TableKept, SameSent

LEMMA TableSame ==
    ASSUME Table, UNCHANGED all_clients
    PROVE  TableKept
BY DEF Table, TableKept

(* Writes to other fields of a slot. *)
LEMMA OtherWrites ==
    ASSUME SlotInv, Table, NEW p \in Procs,
           \/ client_login(p) \/ Bcast(p) \/ Tell(p) \/ pass_message(p) \/ Rename(p)
           \/ SetSender(p) \/ user_pipe_handler(p) \/ MarkClear(p) \/ user_exit_clear(p)
    PROVE  TableKept
<1>0. DOMAIN all_clients = Slots
  BY SlotFacts
<1>1. CASE client_login(p)
  <2>1. all_clients' = [all_clients EXCEPT ![me[p]].pid = p]
    BY <1>1 DEF client_login, Clients
  <2>. QED  BY <1>0, <2>1 DEF TableKept, Table
<1>2. CASE Bcast(p)
  <2>1. all_clients' = [i \in Slots |->
            IF all_clients[i].uid
            THEN [all_clients[i] EXCEPT !.message = all_clients[i].fd]
            ELSE all_clients[i]]
    BY <1>2 DEF Bcast, Clients
  <2>. QED  BY <1>0, <2>1 DEF TableKept, Table
<1>3. CASE Tell(p)
  <2>. DEFINE i == Now(p).to
  <2>1. \/ all_clients' = all_clients
        \/ all_clients' = [all_clients EXCEPT ![i].message = all_clients[i].fd]
    BY <1>3 DEF Tell, Clients
  <2>. HIDE DEF i
  <2>. QED  BY <1>0, <2>1 DEF TableKept, Table
<1>4. CASE pass_message(p)
  <2>1. all_clients' = [all_clients EXCEPT ![me[p]].message = 0]
    BY <1>4 DEF pass_message, Clients
  <2>. QED  BY <1>0, <2>1 DEF TableKept, Table
<1>5. CASE Rename(p)
  <2>. DEFINE n == Now(p).name
  <2>1. all_clients' = [all_clients EXCEPT ![me[p]].nickname = n]
    BY <1>5 DEF Rename, Clients
  <2>. HIDE DEF n
  <2>. QED  BY <1>0, <2>1 DEF TableKept, Table
<1>6. CASE SetSender(p)
  <2>. DEFINE i == Now(p).to
  <2>1. all_clients' = [all_clients EXCEPT ![i].sender_id = me[p]]
    BY <1>6 DEF SetSender, Clients
  <2>. HIDE DEF i
  <2>. QED  BY <1>0, <2>1 DEF TableKept, Table
<1>7. CASE user_pipe_handler(p)
  <2>1. all_clients' = [all_clients EXCEPT ![me[p]].sender_id = -1]
    BY <1>7 DEF user_pipe_handler, Clients
  <2>. QED  BY <1>0, <2>1 DEF TableKept, Table
<1>8. CASE MarkClear(p)
  <2>. DEFINE i == Now(p).to
  <2>1. all_clients' = [all_clients EXCEPT ![i].clear_id = me[p]]
    BY <1>8 DEF MarkClear, Clients
  <2>. HIDE DEF i
  <2>. QED  BY <1>0, <2>1 DEF TableKept, Table
<1>9. CASE user_exit_clear(p)
  <2>1. all_clients' = [all_clients EXCEPT ![me[p]].clear_id = -1]
    BY <1>9 DEF user_exit_clear, Clients
  <2>. QED  BY <1>0, <2>1 DEF TableKept, Table
<1>. QED  BY <1>1, <1>2, <1>3, <1>4, <1>5, <1>6, <1>7, <1>8, <1>9

(* A step of p that does nothing about pipes. *)
EasyGo(p) ==
    /\ Alive(p) /\ Now(p).do \notin Special /\ me' = me /\ fifo' = fifo
    /\ \E s : Part(s, {}) /\ Continue(p, s)

LEMMA CodeAt ==
    ASSUME MpInv, NEW p \in Procs, Alive(p)
    PROVE  /\ Now(p) = code[p][1] /\ IsSeq(code[p]) /\ code[p] # <<>> /\ DOMAIN code = Procs
           /\ 1 \in DOMAIN code[p]
BY HeadIs, HeadTail DEF MpInv, StructInv, Form

LEMMA EasyGoes ==
    ASSUME MpInv, PipeInv, NEW p \in Procs, EasyGo(p), TableKept
    PROVE  Goods' /\ Pipes' /\ Table'
<1>1. /\ Now(p) = code[p][1] /\ IsSeq(code[p]) /\ code[p] # <<>>
      /\ code[p][1].do \notin Special
  BY CodeAt DEF EasyGo
<1>2. PICK s : Part(s, {}) /\ code' = [code EXCEPT ![p] = s \o Tail(code[p])]
  BY Zenon DEF EasyGo, Continue
<1>. DEFINE d == s \o Tail(code[p])
<1>3. Eased(d, code[p])
  BY <1>1, <1>2, EasedStep
<1>4. code' = [code EXCEPT ![p] = d]
  BY <1>2
<1>. HIDE DEF d
<1>5. Table' /\ \A i, j \in Slots : SameSent(i, j)
  BY TableKeptIs DEF PipeInv
<1>. QED  BY <1>1, <1>3, <1>4, <1>5, EasyMoves, Zenon DEF EasyGo

LEMMA KillEasy ==
    ASSUME NEW p \in Procs, Alive(p), Now(p).do \notin Special,
           NEW pid, NEW s \in Signals, NEW g, Part(g, {}), Kill(p, pid, s, g)
    PROVE  EasyGo(p) /\ UNCHANGED <<all_clients, fifo, opened, ffds>>
<1>. DEFINE targets == IF pid = -1 THEN {q \in Procs \ {p} : Alive(q)}
                       ELSE {q \in {pid} : Alive(q)}
            h == IF p \in targets /\ s \notin mask[p] THEN Handler(p, s) ELSE <<>>
<1>1. Continue(p, h \o g) /\ UNCHANGED <<all_clients, me, fifo, opened, ffds>>
  BY DEF Kill, local, files
<1>2. Part(h, {})
  BY PartHandler, PartNone
<1>. HIDE DEF h
<1>3. Part(h \o g, {})
  BY <1>2, PartBefore
<1>. QED  BY <1>1, <1>3 DEF EasyGo

EasyOps ==
    {"wait", "flip", "return", "set_pid", "bcast", "tell", "killif", "killslot", "pass_message",
     "peek", "name_exists", "set_name", "kill_usr2", "signal", "job", "user_pipe_handler",
     "open_read", "user_exit_clear", "close_unused_fd", "close_other"}

LEMMA EasyOpsAre == EasyOps \cap Special = {}
BY DEF EasyOps, Special, PipeOps, Chain, Chain2, LeaveOps, MasterOps

LEMMA FilesSame ==
    ASSUME Files, UNCHANGED <<fifo, opened, ffds>>
    PROVE  Files'
BY DEF Files

LEMMA ShortEasy ==
    ASSUME NEW p \in Procs,
           \/ Wait(p) \/ Flip(p) \/ Return(p) \/ client_login(p) \/ Bcast(p) \/ Tell(p)
           \/ pass_message(p) \/ PeekBody(p) \/ SemSignal(p) \/ StartJob(p)
           \/ OpenReadFails(p) \/ user_exit_clear(p)
    PROVE  EasyGo(p)
<1>1. UNCHANGED <<me, fifo>>
  BY DEF Wait, Flip, Return, client_login, Bcast, Tell, pass_message, PeekBody, SemSignal,
         StartJob, OpenReadFails, user_exit_clear, shared, local, files
<1>2. Continue(p, <<>>)
  BY DEF Wait, Flip, Return, client_login, Bcast, Tell, pass_message, PeekBody, SemSignal,
         StartJob, OpenReadFails, user_exit_clear, Leave, Plain
<1>3. Alive(p) /\ Now(p).do \in EasyOps
  BY DEF Wait, Flip, Return, client_login, Bcast, Tell, pass_message, PeekBody, SemSignal,
         StartJob, OpenReadFails, user_exit_clear, At, Now, EasyOps
<1>. QED  BY <1>1, <1>2, <1>3, PartNone, EasyOpsAre DEF EasyGo

LEMMA LongEasy ==
    ASSUME NEW p \in Procs,
           \/ KillIf(p) \/ KillSlot(p) \/ name_exists(p) \/ Rename(p) \/ KillUsr2(p)
           \/ user_pipe_handler(p)
    PROVE  EasyGo(p) /\ UNCHANGED <<fifo, opened, ffds>>
<1>1. Alive(p) /\ Now(p).do \notin Special
  <2>1. Alive(p) /\ Now(p).do \in EasyOps
    BY DEF KillIf, KillSlot, name_exists, Rename, KillUsr2, user_pipe_handler, At, Now, EasyOps
  <2>. QED  BY <2>1, EasyOpsAre
<1>0. {"killslot", "set_name", "signal", "open_read"} \cap Special = {}
  BY DEF Special, PipeOps, Chain, Chain2, LeaveOps, MasterOps
<1>. DEFINE i == Now(p).to
<1>2. CASE KillIf(p)
  <2>. DEFINE s == IF all_clients[i].uid THEN <<On("killslot", i)>> ELSE <<>>
  <2>1. Continue(p, s) /\ UNCHANGED <<me, fifo, opened, ffds>>
    BY <1>2 DEF KillIf, Plain, shared
  <2>2. On("killslot", i).do \notin Special
    BY <1>0 DEF On
  <2>3. Part(s, {})
    BY <2>2, PartPlain, PartNone
  <2>. QED  BY <1>1, <2>1, <2>3 DEF EasyGo
<1>3. CASE KillSlot(p)
  <2>1. Kill(p, all_clients[i].pid, "usr1", <<>>) /\ "usr1" \in Signals
    BY <1>3 DEF KillSlot, Signals
  <2>. QED  BY <1>1, <2>1, PartNone, KillEasy
<1>4. CASE name_exists(p)
  <2>. DEFINE x == [do |-> "set_name", name |-> Now(p).name,
                    checked |-> [j \in Slots |-> all_clients[j].nickname]]
              s == IF \E j \in Slots : all_clients[j].nickname = Now(p).name THEN <<>> ELSE Section(x)
  <2>1. Continue(p, s) /\ UNCHANGED <<me, fifo, opened, ffds>>
    BY <1>4 DEF name_exists, Leave, shared
  <2>2. x.do \notin Special
    BY <1>0
  <2>. HIDE DEF x
  <2>3. Part(s, {})
    BY <2>2, PartPlain, PartSection, PartNone, Zenon
  <2>. QED  BY <1>1, <2>1, <2>3 DEF EasyGo
<1>5. CASE Rename(p)
  <2>1. Continue(p, Peek \o Peek \o broadcast) /\ UNCHANGED <<me, fifo, opened, ffds>>
    BY <1>5 DEF Rename, Leave, local, files
  <2>2. Part(Peek \o Peek \o broadcast, {})
    BY PartPeek, PartBroadcast, PartBefore
  <2>. QED  BY <1>1, <2>1, <2>2 DEF EasyGo
<1>6. CASE KillUsr2(p)
  <2>1. Kill(p, Now(p).pid, "usr2", <<Do("signal")>>) /\ "usr2" \in Signals
    BY <1>6 DEF KillUsr2, Signals
  <2>0. Do("signal").do \notin Special
    BY <1>0 DEF Do
  <2>2. Part(<<Do("signal")>>, {})
    BY <2>0, PartPlain
  <2>. QED  BY <1>1, <2>1, <2>2, KillEasy
<1>7. CASE user_pipe_handler(p)
  <2>. DEFINE x == On("open_read", all_clients[me[p]].sender_id)
  <2>1. Continue(p, <<x>>) /\ UNCHANGED <<me, fifo, opened, ffds>>
    BY <1>7 DEF user_pipe_handler, Plain, local, files
  <2>2. x.do \notin Special
    BY <1>0 DEF On
  <2>. HIDE DEF x
  <2>3. Part(<<x>>, {})
    BY <2>2, PartPlain
  <2>. QED  BY <1>1, <2>1, <2>3 DEF EasyGo
<1>. QED  BY <1>2, <1>3, <1>4, <1>5, <1>6, <1>7

LEMMA EasyKeeps ==
    ASSUME MpInv, SlotInv, PipeInv, NEW p \in Procs,
           \/ Wait(p) \/ Flip(p) \/ Return(p) \/ client_login(p) \/ Bcast(p) \/ Tell(p)
           \/ pass_message(p) \/ PeekBody(p) \/ SemSignal(p) \/ StartJob(p)
           \/ OpenReadFails(p) \/ user_exit_clear(p)
           \/ KillIf(p) \/ KillSlot(p) \/ name_exists(p) \/ Rename(p) \/ KillUsr2(p)
           \/ user_pipe_handler(p)
    PROVE  PipeInv'
<1>1. EasyGo(p)
  BY ShortEasy, LongEasy
<1>2. Files'
  <2>1. CASE user_exit_clear(p)
    <3>1. fifo' = fifo /\ opened' = opened
      BY <2>1 DEF user_exit_clear
    <3>2. \E X : ffds' = [ffds EXCEPT ![p] = X] /\ X \subseteq ffds[p]
      BY <2>1, Zenon DEF user_exit_clear
    <3>. QED  BY <3>1, <3>2 DEF PipeInv, Files
  <2>2. CASE ~user_exit_clear(p)
    <3>1. UNCHANGED <<fifo, opened, ffds>>
      BY <2>2, LongEasy DEF Wait, Flip, Return, client_login, Bcast, Tell, pass_message, PeekBody, SemSignal,
         StartJob, OpenReadFails, shared, local, files
    <3>. QED  BY <3>1, FilesSame DEF PipeInv
  <2>. QED  BY <2>1, <2>2
<1>3. TableKept
  <2>1. CASE \/ client_login(p) \/ Bcast(p) \/ Tell(p) \/ pass_message(p) \/ Rename(p)
             \/ user_pipe_handler(p) \/ user_exit_clear(p)
    BY <2>1, OtherWrites DEF PipeInv
  <2>2. CASE \/ Wait(p) \/ Flip(p) \/ Return(p) \/ PeekBody(p) \/ SemSignal(p)
             \/ StartJob(p) \/ OpenReadFails(p) \/ KillIf(p) \/ KillSlot(p)
             \/ name_exists(p) \/ KillUsr2(p)
    <3>1. UNCHANGED all_clients
      BY <2>2 DEF Wait, Flip, Return, PeekBody, SemSignal, StartJob, OpenReadFails,
                  KillIf, KillSlot, name_exists, KillUsr2, Kill, shared
    <3>. QED  BY <3>1, TableSame DEF PipeInv
  <2>. QED  BY <2>1, <2>2
<1>4. Goods' /\ Pipes' /\ Table'
  BY <1>1, <1>3, EasyGoes
<1>. QED  BY <1>2, <1>4 DEF PipeInv
LEMMA QuietPipes ==
    ASSUME PipeInv, UNCHANGED <<all_clients, code, me, fifo, opened, ffds>>
    PROVE  PipeInv'
<1>1. \A p : /\ Left(p)' <=> Left(p)
  BY DEF Left, Gone, Alive, Leaving
<1>2. \A i, j \in Slots : Calm(i, j)' <=> Calm(i, j)
  BY <1>1 DEF Calm
<1>3. \A i, j \in Slots : Pipe(i, j)' <=> Pipe(i, j)
  BY DEF Pipe, Writing, Starting, Laying, Taking, Ending, Filed
<1>. QED  BY <1>2, <1>3 DEF PipeInv, Files, Table, Goods, Pipes

(* A server that exits. *)
LEMMA ExitPipes ==
    ASSUME MpInv, PipeInv, NEW p \in Conns, Alive(p), Exit(p)
    PROVE  PipeInv'
<1>1. /\ code' = [code EXCEPT ![p] = <<>>] /\ UNCHANGED <<all_clients, me, fifo, opened>>
      /\ ffds' = [ffds EXCEPT ![p] = {}]
  BY DEF Exit
<1>2. Moves(p, <<>>)
  BY <1>1, GoodNone DEF Moves, Alive
<1>3. TableKept
  BY <1>1, TableSame DEF PipeInv
<1>4. Table' /\ \A i, j \in Slots : SameSent(i, j)
  BY <1>3, TableKeptIs DEF PipeInv
<1>5. Goods' /\ Pipes'
  BY <1>1, <1>2, <1>4, LeftMoves
<1>6. Files'
  BY <1>1, Zenon DEF PipeInv, Files
<1>. QED  BY <1>4, <1>5, <1>6 DEF PipeInv

LEMMA CloseOtherPipes ==
    ASSUME MpInv, SlotInv, PipeInv, NEW p \in Procs, close_other_client_fd(p)
    PROVE  PipeInv'
<1>1. Alive(p) /\ Now(p).do = "close_other"
  BY DEF close_other_client_fd, At, Now
<1>2. CASE Exit(p)
  <2>1. p \in Conns
    BY <1>1, ServerAt DEF ServerOps, Owners
  <2>. QED  BY <1>1, <1>2, <2>1, ExitPipes
<1>3. CASE ~Exit(p)
  <2>1. Continue(p, <<>>) /\ UNCHANGED <<all_clients, me, fifo, opened, ffds>>
    BY <1>3 DEF close_other_client_fd, Leave, files
  <2>2. Now(p).do \notin Special
    BY <1>1, EasyOpsAre DEF EasyOps
  <2>3. EasyGo(p)
    BY <1>1, <2>1, <2>2, PartNone DEF EasyGo
  <2>4. TableKept
    BY <2>1, TableSame DEF PipeInv
  <2>5. Goods' /\ Pipes' /\ Table'
    BY <2>3, <2>4, EasyGoes
  <2>. QED  BY <2>1, <2>5, FilesSame DEF PipeInv
<1>. QED  BY <1>2, <1>3

LEMMA CloseUnusedPipes ==
    ASSUME MpInv, SlotInv, PipeInv, close_unused_fd
    PROVE  PipeInv'
<1>1. Alive(Master) /\ Now(Master).do = "close_unused_fd" /\ Master \in Procs
  BY ProcsAre DEF close_unused_fd, At, Now
<1>2. Continue(Master, <<>>) /\ UNCHANGED <<all_clients, me, fifo, opened, ffds>>
  BY DEF close_unused_fd, Leave, files
<1>3. Now(Master).do \notin Special
  BY <1>1, EasyOpsAre DEF EasyOps
<1>4. EasyGo(Master)
  BY <1>1, <1>2, <1>3, PartNone DEF EasyGo
<1>5. TableKept
  BY <1>2, TableSame DEF PipeInv
<1>6. Goods' /\ Pipes' /\ Table'
  BY <1>1, <1>4, <1>5, EasyGoes
<1>. QED  BY <1>2, <1>6, FilesSame DEF PipeInv

(* A signal is delivered: nothing that counts changes. *)
LEMMA DeliverEased ==
    ASSUME MpInv, NEW p \in Procs, NEW s \in Signals, Deliver(p, s)
    PROVE  /\ Alive(p) /\ UNCHANGED <<all_clients, me, fifo, opened, ffds>>
           /\ \E d : Eased(d, code[p]) /\ code' = [code EXCEPT ![p] = d]
<1>. DEFINE c == code[p]
            h == Handler(p, s)
<1>1. Alive(p) /\ UNCHANGED <<all_clients, me, fifo, opened, ffds>>
  BY DEF Deliver, shared
<1>2. IsSeq(c) /\ c # <<>> /\ Now(p) = c[1]
  BY <1>1, CodeAt
<1>3. PICK r \in Resumptions(p, s) : code' = [code EXCEPT ![p] = Handler(p, s) \o r]
  BY Zenon DEF Deliver
<1>4. Part(h, {})
  BY PartHandler
<1>. DEFINE d == h \o r
<1>. HIDE DEF h
<1>5. \/ r = c
      \/ Now(p).do = "wait" /\ (r = <<Do("flip")>> \o Tail(c) \/ r = Tail(c))
  BY DEF Resumptions, At, Now
<1>6. Eased(r, c) /\ IsSeq(r)
  <2>1. "wait" \notin Special /\ Do("flip").do \notin Special
    BY EasyOpsAre DEF EasyOps, Do
  <2>2. Part(<<Do("flip")>>, {})
    BY <2>1, PartPlain
  <2>3. CASE r = c
    BY <1>2, <2>3 DEF Eased
  <2>4. CASE c[1].do = "wait" /\ r = Tail(c)
    BY <1>2, <2>1, <2>4, EasedTail
  <2>5. CASE c[1].do = "wait" /\ r = <<Do("flip")>> \o Tail(c)
    <3>1. Eased(r, c)
      BY <1>2, <2>1, <2>2, <2>5, EasedStep
    <3>2. IsSeq(r)
      BY <1>2, <2>2, <2>5, HeadTail, EasedPart, Zenon
    <3>. QED  BY <3>1, <3>2
  <2>. QED  BY <1>2, <1>5, <2>3, <2>4, <2>5
<1>7. Eased(d, r)
  BY <1>4, <1>6, EasedPart
<1>8. Eased(d, c)
  BY <1>6, <1>7 DEF Eased
<1>9. code' = [code EXCEPT ![p] = d]
  BY <1>3 DEF h
<1>. QED  BY <1>1, <1>8, <1>9, Zenon

LEMMA DeliverPipes ==
    ASSUME MpInv, PipeInv, NEW p \in Procs, NEW s \in Signals, Deliver(p, s)
    PROVE  PipeInv'
<1>1. Alive(p) /\ UNCHANGED <<all_clients, me, fifo, opened, ffds>>
  BY DeliverEased
<1>2. PICK d : Eased(d, code[p]) /\ code' = [code EXCEPT ![p] = d]
  BY DeliverEased
<1>3. TableKept
  BY <1>1, TableSame DEF PipeInv
<1>4. Table' /\ \A i, j \in Slots : SameSent(i, j)
  BY <1>3, TableKeptIs DEF PipeInv
<1>5. Goods' /\ Pipes'
  BY <1>1, <1>2, <1>4, EasyMoves, Zenon DEF Alive
<1>. QED  BY <1>1, <1>4, <1>5, FilesSame DEF PipeInv

(* Code of a server that leaves. *)
Slack(p, u, s) ==
    IsSeq(s) /\ \A x \in Ins(s) : x.do # "mkfifo" /\ x.do \notin MasterOps /\ Fits(p, u, x, TRUE)

LEMMA SlackConcat ==
    ASSUME NEW p, NEW u, NEW s, NEW t, Slack(p, u, s), Slack(p, u, t)
    PROVE  Slack(p, u, s \o t)
<1>1. IsSeq(s) /\ IsSeq(t)
  BY DEF Slack
<1>2. IsSeq(s \o t) /\ Ins(s \o t) = Ins(s) \cup Ins(t)
  BY <1>1, Concat, InsConcat
<1>. DEFINE r == s \o t
<1>3. IsSeq(r) /\ Ins(r) = Ins(s) \cup Ins(t)
  BY <1>2
<1>. HIDE DEF r
<1>4. Slack(p, u, r)
  BY <1>3, Zenon DEF Slack
<1>. QED  BY <1>4 DEF r

LEMMA SlackPart ==
    ASSUME NEW p, NEW u, NEW s, Part(s, {})
    PROVE  Slack(p, u, s)
<1>1. IsSeq(s) /\ \A x \in Ins(s) : x.do \notin Special
  BY DEF Part, Spc
<1>2. \A x \in Ins(s) : x.do # "mkfifo" /\ x.do \notin MasterOps /\ Fits(p, u, x, TRUE)
  BY <1>1 DEF Fits, Special, PipeOps, Chain, Chain2
<1>. QED  BY <1>1, <1>2, Zenon DEF Slack

LEMMA SlackOne ==
    ASSUME NEW p, NEW u, NEW x, x.do # "mkfifo", x.do \notin MasterOps, Fits(p, u, x, TRUE)
    PROVE  Slack(p, u, <<x>>)
<1>. DEFINE s == <<x>>
<1>1. IsSeq(s) /\ DOMAIN s = {1} /\ s[1] = x
  BY Singleton
<1>. HIDE DEF s
<1>2. Ins(s) = {x}
  BY <1>1 DEF Ins
<1>. QED  BY <1>1, <1>2, Zenon DEF Slack, s

LEMMA SlackSection ==
    ASSUME NEW p, NEW u, NEW x, Slack(p, u, <<x>>)
    PROVE  Slack(p, u, Section(x))
<1>. DEFINE w == Do("wait")
            t == <<x>>
            s == <<w>>
<1>1. w.do \notin Special
  BY SpecialOps DEF Do
<1>. HIDE DEF w
<1>2. Slack(p, u, s)
  BY <1>1, PartPlain, SlackPart
<1>3. Section(x) = s \o t
  BY DEF Section, w
<1>. HIDE DEF s
<1>4. Slack(p, u, t)
  OBVIOUS
<1>. HIDE DEF t
<1>. QED  BY <1>2, <1>3, <1>4, SlackConcat

LEMMA SlackEach ==
    ASSUME NEW p \in Conns, NEW u, NEW op \in LeaveOps
    PROVE  Slack(p, u, [i \in Slots |-> On(op, i)])
<1>. DEFINE s == [i \in Slots |-> On(op, i)]
            S == {On(op, i) : i \in Slots}
<1>1. Slots = 1..MAX_CLIENTS /\ MAX_CLIENTS \in Nat
  BY MultiProcAssumption, Zenon DEF Slots
<1>2. s \in [1..MAX_CLIENTS -> S]
  BY <1>1
<1>3. s \in UNION {[1..n -> S] : n \in Nat}
  <2>. HIDE DEF s, S
  <2>. QED  BY <1>1, <1>2
<1>4. s \in Seq(S)
  <2>. HIDE DEF s, S
  <2>. QED  BY <1>3, SeqDef
<1>5. \A k \in DOMAIN s : s[k].do = op
  BY DEF On
<1>. HIDE DEF s, S
<1>6. IsSeq(s)
  BY <1>4, SeqIs
<1>7. \A x \in Ins(s) : x.do \in LeaveOps
  BY <1>5 DEF Ins
<1>8. \A x \in Ins(s) : x.do # "mkfifo" /\ x.do \notin MasterOps /\ Fits(p, u, x, TRUE)
  BY <1>7 DEF Fits, LeaveOps, PipeOps, Chain, Chain2, MasterOps
<1>. QED  BY <1>6, <1>8, Zenon DEF Slack, s

LEMMA SlackKinds ==
    ASSUME NEW p \in Conns, NEW u, NEW s, Slack(p, u, s), "exit" \in Kinds(s)
    PROVE  Good(p, u, s)
<1>1. Prepared(s)
  <2>1. \A k \in DOMAIN s : s[k].do # "mkfifo"
    BY Zenon DEF Slack, Ins
  <2>. QED  BY <2>1 DEF Prepared
<1>2. \A x \in Spc(s) : Fits(p, u, x, TRUE)
  BY Zenon DEF Slack, Spc
<1>3. \A x \in Spc(s) : Fits(p, u, x, "exit" \in Kinds(s))
  BY <1>2 DEF Fits
<1>. QED  BY <1>1, <1>3, ProcsAre DEF Good, Lives

LEMMA SlackLogout ==
    ASSUME NEW p \in Conns, NEW u
    PROVE  Slack(p, u, client_logout) /\ "exit" \in Kinds(client_logout)
<1>. DEFINE a == (Peek \o broadcast) \o [i \in Slots |-> On("user_pipe_clear", i)]
            y == Do("clear_slot")
            v == Do("close")
            w == Do("exit")
            d == <<v, w>>
            r == Section(y) \o d
<1>1. v.do = "close" /\ w.do = "exit" /\ y.do = "clear_slot"
  BY DEF Do
<1>2. client_logout = (a \o Section(y)) \o d /\ d = <<v>> \o <<w>>
  BY DEF client_logout
<1>3. Slack(p, u, a)
  <2>1. Slack(p, u, Peek) /\ Slack(p, u, broadcast)
    BY PartPeek, PartBroadcast, SlackPart
  <2>2. "user_pipe_clear" \in LeaveOps
    BY DEF LeaveOps
  <2>3. Slack(p, u, [i \in Slots |-> On("user_pipe_clear", i)])
    BY <2>2, SlackEach
  <2>4. Slack(p, u, Peek \o broadcast)
    BY <2>1, SlackConcat
  <2>. QED  BY <2>3, <2>4, SlackConcat
<1>. HIDE DEF a, y, v, w
<1>4. Slack(p, u, <<y>>) /\ Slack(p, u, <<v>>) /\ Slack(p, u, <<w>>)
  <2>1. \A x \in {y, v, w} : x.do # "mkfifo" /\ x.do \notin MasterOps /\ Fits(p, u, x, TRUE)
    BY <1>1 DEF Fits, LeaveOps, PipeOps, Chain, Chain2, MasterOps
  <2>. QED  BY <2>1, SlackOne, Zenon
<1>5. Slack(p, u, Section(y))
  BY <1>4, SlackSection
<1>6. Slack(p, u, d)
  BY <1>2, <1>4, SlackConcat, Zenon
<1>7. Kinds(d) = {v.do, w.do}
  BY Pair
<1>. HIDE DEF d
<1>8. Slack(p, u, a \o Section(y))
  BY <1>3, <1>5, SlackConcat
<1>9. Slack(p, u, (a \o Section(y)) \o d)
  BY <1>6, <1>8, SlackConcat
<1>10. Kinds((a \o Section(y)) \o d) = Kinds(a \o Section(y)) \cup Kinds(d)
  BY <1>6, <1>8, KindsConcat DEF Slack
<1>. QED  BY <1>1, <1>2, <1>7, <1>9, <1>10, Zenon

LEMMA QuitPipes ==
    ASSUME MpInv, SlotInv, PipeInv, NEW p \in Procs, Quit(p)
    PROVE  PipeInv'
<1>. DEFINE d == client_logout
<1>1. /\ Alive(p) /\ Now(p).do = "prompt" /\ UNCHANGED <<all_clients, me, fifo, opened, ffds>>
      /\ code' = [code EXCEPT ![p] = d \o Tail(code[p])]
  BY DEF Quit, At, Now, Continue, files
<1>2. /\ IsSeq(code[p]) /\ code[p] # <<>> /\ Tidy(code[p]) /\ code[p][1].do = "prompt" /\ p \in Conns
  BY <1>1, ServerAt, HeadTail DEF ServerOps, Owners
<1>3. Tail(code[p]) = <<>>
  BY <1>2, TidyTail, Zenon DEF Lasts
<1>4. Slack(p, me[p], d) /\ "exit" \in Kinds(d)
  BY <1>2, SlackLogout
<1>. HIDE DEF d
<1>5. d \o <<>> = d
  BY <1>4 DEF Slack, IsSeq
<1>6. code' = [code EXCEPT ![p] = d]
  BY <1>1, <1>3, <1>5, Zenon
<1>7. Moves(p, d)
  BY <1>1, <1>2, <1>4, <1>6, SlackKinds, Zenon DEF Moves
<1>8. TableKept
  BY <1>1, TableSame DEF PipeInv
<1>9. Table' /\ \A i, j \in Slots : SameSent(i, j)
  BY <1>8, TableKeptIs DEF PipeInv
<1>10. Goods' /\ Pipes'
  BY <1>1, <1>2, <1>4, <1>7, <1>9, LeftMoves
<1>. QED  BY <1>1, <1>9, <1>10, FilesSame DEF PipeInv

(* A step of a server that leaves. *)
LEMMA LeaveGoes ==
    ASSUME MpInv, PipeInv, NEW p \in Procs, Alive(p), Now(p).do \in LeaveOps,
           NEW s, Slack(p, me[p], s), Continue(p, s), me' = me,
           \A i, j \in Slots : me[p] \notin {i, j} =>
               fifo'[<<i, j>>] = fifo[<<i, j>>] /\ SameSent(i, j)
    PROVE  Goods' /\ Pipes'
<1>. DEFINE c == code[p]
            u == me[p]
            t == Tail(c)
            d == s \o t
<1>1. Now(p) = c[1] /\ IsSeq(c) /\ c # <<>> /\ 1 \in DOMAIN c
  BY CodeAt
<1>2. p \in Conns /\ "exit" \in Kinds(c)
  <2>1. c[1].do \in Special /\ c[1] \in Spc(c)
    BY <1>1, SpecialOps DEF Spc, Ins
  <2>2. Fits(p, u, c[1], "exit" \in Kinds(c))
    BY <2>1 DEF PipeInv, Goods, Good
  <2>. QED  BY <1>1, <2>2 DEF Fits
<1>3. Good(p, u, t) /\ IsSeq(t) /\ "exit" \in Kinds(t) /\ Lives(t)
  <2>1. Good(p, u, c) /\ c[1].do \notin {"prompt", "exit"}
    BY <1>1, SpecialOps DEF PipeInv, Goods
  <2>2. Good(p, u, t) /\ IsSeq(t) /\ "exit" \in Kinds(t)
    BY <1>1, <1>2, <2>1, GoodTail, Zenon
  <2>. QED  BY <2>2 DEF Lives
<1>4. code' = [code EXCEPT ![p] = d]
  BY DEF Continue
<1>. HIDE DEF t
<1>5. IsSeq(s) /\ Kinds(d) = Kinds(s) \cup Kinds(t) /\ Spc(d) = Spc(s) \cup Spc(t)
  <2>1. IsSeq(s)
    BY DEF Slack
  <2>. QED  BY <1>3, <2>1, KindsConcat, InsConcat
<1>6. Prepared(d)
  <2>1. \A k \in DOMAIN s : s[k].do # "mkfifo"
    BY Zenon DEF Slack, Ins
  <2>2. Prepared(s) /\ Prepared(t)
    BY <1>3, <2>1 DEF Prepared, Good
  <2>. QED  BY <1>3, <1>5, <2>2, Joined
<1>. HIDE DEF d
<1>7. \A x \in Spc(d) : Fits(p, u, x, "exit" \in Kinds(d))
  <2>1. \A x \in Spc(s) : Fits(p, u, x, TRUE)
    BY Zenon DEF Slack, Spc
  <2>2. \A x \in Spc(t) : Fits(p, u, x, "exit" \in Kinds(t))
    BY <1>3 DEF Good
  <2>. QED  BY <1>3, <1>5, <2>1, <2>2 DEF Fits
<1>8. Good(p, u, d) /\ "exit" \in Kinds(d)
  BY <1>2, <1>3, <1>5, <1>6, <1>7, ProcsAre DEF Good, Lives
<1>9. Moves(p, d)
  BY <1>1, <1>4, <1>8 DEF Moves
<1>. QED  BY <1>2, <1>8, <1>9, LeftMoves

LEMMA Leaver ==
    ASSUME MpInv, PipeInv, NEW p \in Procs, Alive(p), Now(p).do \in LeaveOps \cup PipeOps
    PROVE  /\ p \in Conns /\ me[p] \in Slots
           /\ Now(p).do \in LeaveOps => "exit" \in Kinds(code[p])
           /\ Now(p) \in Spc(code[p]) /\ Fits(p, me[p], Now(p), "exit" \in Kinds(code[p]))
<1>1. Now(p) = code[p][1] /\ code[p] # <<>> /\ 1 \in DOMAIN code[p]
  BY CodeAt
<1>2. Now(p).do \in Special /\ Now(p) \in Spc(code[p])
  BY <1>1, SpecialOps DEF Spc, Ins
<1>3. Fits(p, me[p], Now(p), "exit" \in Kinds(code[p]))
  BY <1>2 DEF PipeInv, Goods, Good
<1>. QED  BY <1>1, <1>2, <1>3 DEF Fits, PipeInv, Goods

LEMMA LeaveKept ==
    ASSUME MpInv, PipeInv, NEW p \in Procs, Alive(p), Now(p).do \in LeaveOps,
           NEW s, Slack(p, me[p], s), Continue(p, s), TableKept,
           UNCHANGED <<me, fifo, opened, ffds>>
    PROVE  PipeInv'
<1>1. Table' /\ \A i, j \in Slots : SameSent(i, j)
  BY TableKeptIs DEF PipeInv
<1>2. Goods' /\ Pipes'
  BY <1>1, LeaveGoes
<1>. QED  BY <1>1, <1>2, FilesSame DEF PipeInv

LEMMA SlackOp ==
    ASSUME NEW p \in Conns, NEW u, NEW x, x.do \in LeaveOps
    PROVE  Slack(p, u, <<x>>) /\ Slack(p, u, Section(x))
<1>1. x.do # "mkfifo" /\ x.do \notin MasterOps /\ Fits(p, u, x, TRUE)
  BY DEF Fits, LeaveOps, PipeOps, Chain, Chain2, MasterOps
<1>. QED  BY <1>1, SlackOne, SlackSection, Zenon

LEMMA SlackUnlink ==
    ASSUME NEW p \in Conns, NEW u, NEW i
    PROVE  Slack(p, u, <<Unlink(i, u)>>) /\ Slack(p, u, <<Unlink(u, i)>>)
<1>1. \A x \in {Unlink(i, u), Unlink(u, i)} :
          x.do # "mkfifo" /\ x.do \notin MasterOps /\ Fits(p, u, x, TRUE)
  BY DEF Unlink, Fits, LeaveOps, PipeOps, Chain, Chain2, MasterOps
<1>. QED  BY <1>1, SlackOne, Zenon

LEMMA LeavePipes ==
    ASSUME MpInv, SlotInv, PipeInv, NEW p \in Procs,
           \/ user_pipe_clear(p) \/ ReadFds(p) \/ MarkClear(p) \/ KillAlrm(p)
           \/ ResetSent(p) \/ ClearSlot(p) \/ CloseSock(p)
    PROVE  PipeInv'
<1>. DEFINE u == me[p]
            i == Now(p).to
<1>1. Alive(p) /\ Now(p).do \in LeaveOps
  BY Zenon DEF user_pipe_clear, ReadFds, MarkClear, KillAlrm, ResetSent, ClearSlot, CloseSock,
               At, Now, LeaveOps
<1>2. p \in Conns /\ u \in Slots
  BY <1>1, Leaver
<1>0. Slack(p, u, <<>>)
  BY PartNone, SlackPart
<1>00. {"read_fds", "mark_clear", "kill_alrm", "reset_sent"} \subseteq LeaveOps
  BY DEF LeaveOps
<1>3. CASE user_pipe_clear(p)
  <2>. DEFINE x == On("read_fds", i)
  <2>1. Continue(p, Section(x)) /\ UNCHANGED <<all_clients, me, fifo, opened, ffds>>
    BY <1>3 DEF user_pipe_clear, Plain, shared
  <2>2. x.do \in LeaveOps
    BY <1>00 DEF On
  <2>. HIDE DEF x
  <2>3. Slack(p, u, Section(x)) /\ TableKept
    BY <1>2, <2>1, <2>2, SlackOp, TableSame, Zenon DEF PipeInv
  <2>. QED  BY <1>1, <2>1, <2>3, LeaveKept
<1>4. CASE ReadFds(p)
  <2>. DEFINE a == IF all_clients[u].sent_fd[i] > 0 THEN <<Unlink(i, u)>> ELSE <<>>
              x == On("mark_clear", i)
              b == IF all_clients[i].sent_fd[u] > 0 THEN Section(x) ELSE <<>>
  <2>1. Continue(p, a \o b) /\ UNCHANGED <<all_clients, me, fifo, opened, ffds>>
    BY <1>4 DEF ReadFds, Leave, shared
  <2>2. x.do \in LeaveOps
    BY <1>00 DEF On
  <2>. HIDE DEF x
  <2>3. Slack(p, u, a) /\ Slack(p, u, b) /\ TableKept
    <3>1. Slack(p, u, Section(x))
      BY <1>2, <2>2, SlackOp, Zenon
    <3>2. Slack(p, u, <<Unlink(i, u)>>)
      BY <1>2, SlackUnlink, Zenon
    <3>3. TableKept
      BY <2>1, TableSame DEF PipeInv
    <3>. QED  BY <1>0, <3>1, <3>2, <3>3
  <2>. HIDE DEF a, b
  <2>4. Slack(p, u, a \o b)
    BY <2>3, SlackConcat
  <2>. QED  BY <1>1, <2>1, <2>3, <2>4, LeaveKept
<1>5. CASE MarkClear(p)
  <2>. DEFINE k == [do |-> "kill_alrm", pid |-> all_clients[i].pid]
              x == On("reset_sent", i)
              a == <<k>>
              b == Section(x)
              c == <<Unlink(u, i)>>
  <2>1. Continue(p, (a \o b) \o c) /\ UNCHANGED <<me, fifo, opened, ffds>>
    BY <1>5 DEF MarkClear, Leave, local, files
  <2>2. x.do \in LeaveOps /\ k.do \in LeaveOps
    BY <1>00 DEF On
  <2>. HIDE DEF x, k
  <2>3. Slack(p, u, a) /\ Slack(p, u, b) /\ Slack(p, u, c)
    BY <1>2, <2>2, SlackOp, SlackUnlink, Zenon
  <2>4. TableKept
    BY <1>5, OtherWrites DEF PipeInv
  <2>. HIDE DEF a, b, c
  <2>5. Slack(p, u, (a \o b) \o c)
    BY <2>3, SlackConcat
  <2>. QED  BY <1>1, <2>1, <2>4, <2>5, LeaveKept
<1>6. CASE KillAlrm(p)
  <2>. DEFINE pid == Now(p).pid
              targets == IF pid = -1 THEN {q \in Procs \ {p} : Alive(q)}
                         ELSE {q \in {pid} : Alive(q)}
              h == IF p \in targets /\ "alrm" \notin mask[p] THEN Handler(p, "alrm") ELSE <<>>
  <2>1. Continue(p, h \o <<>>) /\ UNCHANGED <<all_clients, me, fifo, opened, ffds>>
    BY <1>6 DEF KillAlrm, Kill, local, files
  <2>2. "alrm" \in Signals
    BY DEF Signals
  <2>3. Slack(p, u, h)
    BY <1>0, <2>2, PartHandler, SlackPart
  <2>. HIDE DEF h
  <2>4. Slack(p, u, h \o <<>>)
    BY <1>0, <2>3, SlackConcat
  <2>5. TableKept
    BY <2>1, TableSame DEF PipeInv
  <2>. QED  BY <1>1, <2>1, <2>4, <2>5, LeaveKept
<1>7. CASE ResetSent(p)
  <2>1. /\ all_clients' = [all_clients EXCEPT ![i].sent_fd[u] = -1] /\ Continue(p, <<>>)
        /\ UNCHANGED <<me, fifo, opened, ffds>>
    BY <1>7 DEF ResetSent, Clients, Leave, local, files
  <2>2. DOMAIN all_clients = Slots
    BY SlotFacts
  <2>. HIDE DEF i, u
  <2>3. Table'
    BY <2>1, <2>2 DEF PipeInv, Table
  <2>4. \A j, k \in Slots : u \notin {j, k} => SameSent(j, k)
    BY <2>1, <2>2 DEF PipeInv, Table, SameSent
  <2>5. Goods' /\ Pipes'
    BY <1>0, <1>1, <2>1, <2>4, LeaveGoes DEF u
  <2>. QED  BY <2>1, <2>3, <2>5, FilesSame DEF PipeInv
<1>8. CASE ClearSlot(p)
  <2>. DEFINE x == [FreeSlot EXCEPT !.message = all_clients[u].message]
  <2>1. /\ all_clients' = [all_clients EXCEPT ![u] = x] /\ Continue(p, <<>>)
        /\ UNCHANGED <<me, fifo, opened, ffds>>
    BY <1>8 DEF ClearSlot, Clients, Leave, local, files
  <2>2. DOMAIN all_clients = Slots
    BY SlotFacts
  <2>3. "sent_fd" \in DOMAIN x /\ DOMAIN x.sent_fd = Slots
    BY DEF FreeSlot
  <2>. HIDE DEF i, u, x
  <2>4. Table'
    BY <2>1, <2>2, <2>3 DEF PipeInv, Table
  <2>5. \A j, k \in Slots : u \notin {j, k} => SameSent(j, k)
    BY <2>1, <2>2 DEF PipeInv, Table, SameSent
  <2>6. Goods' /\ Pipes'
    BY <1>0, <1>1, <2>1, <2>5, LeaveGoes DEF u
  <2>. QED  BY <2>1, <2>4, <2>6, FilesSame DEF PipeInv
<1>9. CASE CloseSock(p)
  <2>1. Continue(p, <<>>) /\ UNCHANGED <<all_clients, me, fifo, opened, ffds>>
    BY <1>9 DEF CloseSock, Plain, files
  <2>2. TableKept
    BY <2>1, TableSame DEF PipeInv
  <2>. QED  BY <1>0, <1>1, <2>1, <2>2, LeaveKept
<1>. QED  BY <1>3, <1>4, <1>5, <1>6, <1>7, <1>8, <1>9

LEMMA ExitProcessPipes ==
    ASSUME MpInv, SlotInv, PipeInv, NEW p \in Procs, ExitProcess(p)
    PROVE  PipeInv'
<1>1. Alive(p) /\ Now(p).do = "exit" /\ Exit(p)
  BY DEF ExitProcess, At, Now
<1>2. p \in Conns
  BY <1>1, ServerAt DEF ServerOps
<1>. QED  BY <1>1, <1>2, ExitPipes

(* The prompt of a server has no command before it. *)
LEMMA PromptLast ==
    ASSUME MpInv, SlotInv, NEW p \in Procs, Alive(p), Now(p).do = "prompt"
    PROVE  p \in Conns /\ IsSeq(code[p]) /\ Spc(code[p]) = {Now(p)} /\ Kinds(code[p]) = {"prompt"}
<1>1. /\ IsSeq(code[p]) /\ code[p] # <<>> /\ Tidy(code[p]) /\ code[p][1].do = "prompt" /\ p \in Conns
      /\ Now(p) = code[p][1] /\ Kinds(code[p]) = {"prompt"} \cup Kinds(Tail(code[p]))
  BY ServerAt, HeadTail DEF ServerOps, Owners
<1>2. Tail(code[p]) = <<>>
  BY <1>1, TidyTail, Zenon DEF Lasts
<1>3. Spc(code[p]) = {x \in {code[p][1]} : x.do \in Special} \cup Spc(Tail(code[p]))
  BY <1>1, InsTail
<1>4. Spc(<<>>) = {} /\ Kinds(<<>>) = {}
  BY GoodNone, NoKinds
<1>. QED  BY <1>1, <1>2, <1>3, <1>4, SpecialOps, Zenon

(* What a typed command has to do with pipes. *)
LEMMA PartCommand ==
    ASSUME NEW c \in Commands
    PROVE  \E X : /\ Part(Command(c), X)
                  /\ \A x \in X : /\ x.do \in {"out_exists", "in_exists"} /\ x.to \in Slots
                                  /\ x.do = "in_exists" /\ x.bad => "badfile" \in Menu
<1>0. SUFFICES ASSUME ~Part(Command(c), {})
               PROVE  \E X : /\ Part(Command(c), X)
                             /\ \A x \in X : /\ x.do \in {"out_exists", "in_exists"} /\ x.to \in Slots
                                             /\ x.do = "in_exists" /\ x.bad => "badfile" \in Menu
  OBVIOUS
<1>1. \/ c.cmd \in {"who", "yell"}
      \/ c.cmd \in {"tell", "out"} /\ c.to \in Slots
      \/ c.cmd = "name"
      \/ c.cmd = "in" /\ c.to \in Slots /\ c.bad \in {"badfile" \in Menu, FALSE}
  BY Zenon DEF Commands
<1>2. CASE c.cmd = "who"
  <2>1. Command(c) = Peek
    BY <1>2 DEF Command
  <2>. QED  BY <1>0, <2>1, PartPeek
<1>3. CASE c.cmd = "yell"
  <2>1. Command(c) = Peek \o broadcast
    BY <1>3 DEF Command
  <2>. QED  BY <1>0, <2>1, PartPeek, PartBroadcast, PartBefore
<1>4. CASE c.cmd = "tell"
  <2>. DEFINE x == On("tell", c.to)
              y == On("killif", c.to)
              s == <<y>>
  <2>1. Command(c) = Section(x) \o s
    BY <1>4 DEF Command
  <2>2. x.do \notin Special /\ y.do \notin Special
    BY DEF On, Special, PipeOps, Chain, Chain2, LeaveOps, MasterOps
  <2>. HIDE DEF x, y
  <2>3. Part(Section(x), {}) /\ Part(s, {})
    BY <2>2, PartPlain, PartSection, Zenon
  <2>. HIDE DEF s
  <2>. QED  BY <1>0, <2>1, <2>3, PartBefore
<1>5. CASE c.cmd = "name"
  <2>. DEFINE x == [do |-> "name_exists", name |-> c.name]
  <2>1. Command(c) = Section(x)
    BY <1>5 DEF Command
  <2>2. x.do \notin Special
    BY DEF Special, PipeOps, Chain, Chain2, LeaveOps, MasterOps
  <2>. HIDE DEF x
  <2>. QED  BY <1>0, <2>1, <2>2, PartPlain, PartSection, Zenon
<1>6. CASE c.cmd = "out" /\ c.to \in Slots
  <2>. DEFINE x == On("out_exists", c.to)
  <2>1. Command(c) = Section(x)
    BY <1>6 DEF Command
  <2>2. x.do = "out_exists" /\ x.to \in Slots
    BY <1>6 DEF On
  <2>3. x.do \in Special /\ x.do \notin MasterOps \cup {"mkfifo", "set_sent"}
    BY DEF On, Special, PipeOps, Chain, Chain2, LeaveOps, MasterOps
  <2>. HIDE DEF x
  <2>4. Part(Section(x), {x})
    BY <2>3, PartSpecial, PartSection, Zenon
  <2>. QED  BY <2>1, <2>2, <2>4
<1>7. CASE c.cmd = "in" /\ c.to \in Slots /\ c.bad \in {"badfile" \in Menu, FALSE}
  <2>. DEFINE x == [do |-> "in_exists", to |-> c.to, bad |-> c.bad]
  <2>1. Command(c) = Section(x)
    BY <1>7 DEF Command
  <2>2. x.do = "in_exists" /\ x.to \in Slots /\ (x.bad => "badfile" \in Menu)
    BY <1>7, Zenon
  <2>3. x.do \in Special /\ x.do \notin MasterOps \cup {"mkfifo", "set_sent"}
    BY DEF Special, PipeOps, Chain, Chain2, LeaveOps, MasterOps
  <2>. HIDE DEF x
  <2>4. Part(Section(x), {x})
    BY <2>3, PartSpecial, PartSection, Zenon
  <2>. QED  BY <2>1, <2>2, <2>4
<1>. QED  BY <1>1, <1>2, <1>3, <1>4, <1>5, <1>6, <1>7, Zenon

LEMMA TypePipes ==
    ASSUME MpInv, SlotInv, PipeInv, NEW p \in Procs, Type(p)
    PROVE  PipeInv'
<1>1. /\ Alive(p) /\ Now(p).do = "prompt" /\ UNCHANGED <<all_clients, me, fifo, opened, ffds>>
      /\ \E c \in Commands : code' = [code EXCEPT ![p] = Command(c) \o code[p]]
  BY Zenon DEF Type, At, Now, files
<1>2. PICK c \in Commands : code' = [code EXCEPT ![p] = Command(c) \o code[p]]
  BY <1>1, Zenon
<1>. DEFINE s == Command(c)
            t == code[p]
            d == s \o t
<1>3. p \in Conns /\ IsSeq(t) /\ Spc(t) = {Now(p)} /\ Kinds(t) = {"prompt"} /\ t # <<>>
      /\ Good(p, me[p], t)
  BY <1>1, PromptLast DEF Alive, PipeInv, Goods
<1>4. PICK X : /\ Part(s, X)
               /\ \A x \in X : /\ x.do \in {"out_exists", "in_exists"} /\ x.to \in Slots
                               /\ x.do = "in_exists" /\ x.bad => "badfile" \in Menu
  BY PartCommand
<1>. HIDE DEF s, t
<1>5. Good(p, me[p], d) /\ IsSeq(d) /\ Spc(d) = X \cup Spc(t)
      /\ (\A i : Single(t, i) => Single(d, i)) /\ "exit" \notin Kinds(t)
  <2>1. \A x \in X : Fits(p, me[p], x, "exit" \in Kinds(t))
    BY <1>3, <1>4 DEF Fits, LeaveOps
  <2>2. Kinds(t) \cap PipeOps = {} /\ Lives(t) /\ "exit" \notin Kinds(t)
    BY <1>3, SpecialOps DEF Lives
  <2>. QED  BY <1>3, <1>4, <2>1, <2>2, GoodPush
<1>6. Toks(d) = Toks(t)
  <2>1. \A x \in X : x.do \notin Tokens
    BY <1>4 DEF Tokens
  <2>. QED  BY <1>5, <2>1 DEF Toks
<1>7. code' = [code EXCEPT ![p] = d] /\ code[p] = t
  BY <1>2 DEF s, t
<1>. HIDE DEF d
<1>8. Moves(p, d)
  BY <1>1, <1>3, <1>5, <1>7, Zenon DEF Moves
<1>9. TableKept
  BY <1>1, TableSame DEF PipeInv
<1>10. Table' /\ \A i, j \in Slots : SameSent(i, j)
  BY <1>9, TableKeptIs DEF PipeInv
<1>11. Goods' /\ Pipes'
  BY <1>1, <1>5, <1>6, <1>7, <1>8, <1>10, TokMoves
<1>. QED  BY <1>1, <1>10, <1>11, FilesSame DEF PipeInv
(* The master has nothing to do with pipes. *)
LEMMA MasterGood ==
    ASSUME NEW u, NEW d, IsSeq(d), Up(d), Kinds(d) \subseteq MasterOps \cup {"wait"}
    PROVE  Good(Master, u, d) /\ Toks(d) = {} /\ \A i : Single(d, i)
<1>1. \A k \in DOMAIN d : d[k].do \in MasterOps \cup {"wait"}
  BY DEF Kinds
<1>2. \A x \in Ins(d) : x.do \in MasterOps \cup {"wait"}
  BY <1>1 DEF Ins
<1>3. (MasterOps \cup {"wait"}) \cap ({"exit", "prompt", "set_sent"} \cup PipeOps \cup LeaveOps) = {}
  BY DEF MasterOps, PipeOps, Chain, Chain2, LeaveOps
<1>4. \A x \in Spc(d) : Fits(Master, u, x, "exit" \in Kinds(d))
  BY <1>2, <1>3 DEF Spc, Fits, PipeOps, Chain, Chain2
<1>5. Toks(d) = {}
  BY <1>2 DEF Toks, Spc, Tokens, MasterOps
<1>6. Once(d, Chain) /\ Once(d, Chain2) /\ Prepared(d) /\ \A i : Single(d, i)
  BY <1>1, <1>3 DEF Once, Prepared, Single, PipeOps, Chain, Chain2
<1>. QED  BY <1>4, <1>5, <1>6, ProcsAre DEF Good

LEMMA MasterMoves ==
    ASSUME MpInv, PipeInv, NEW d, IsSeq(d), Up(d), Kinds(d) \subseteq MasterOps \cup {"wait"},
           Kinds(code[Master]) \subseteq MasterOps, code[Master] # <<>>,
           code' = [code EXCEPT ![Master] = d], UNCHANGED <<me, fifo>>,
           \A i, j \in Slots : SameSent(i, j)
    PROVE  Goods' /\ Pipes'
<1>1. Good(Master, me[Master], d) /\ Toks(d) = {} /\ \A i : Single(d, i)
  BY MasterGood
<1>2. Toks(code[Master]) = {}
  <2>1. MasterOps \cap Tokens = {}
    BY DEF MasterOps, Tokens
  <2>. QED  BY <2>1 DEF Toks, Spc, Ins, Kinds
<1>3. "exit" \notin Kinds(code[Master])
  BY DEF MasterOps
<1>4. Master \in Procs /\ Moves(Master, d)
  BY <1>1, <1>3, ProcsAre DEF Moves
<1>. QED  BY <1>1, <1>2, <1>4, TokMoves, Zenon

(* What it is about to do when it is at one of its own instructions. *)
LEMMA MasterAt ==
    ASSUME MpInv, PipeInv, Alive(Master), Now(Master).do \in MasterOps
    PROVE  LET t == Tail(code[Master])
           IN  /\ IsSeq(t) /\ Up(t) /\ Kinds(t) \subseteq MasterOps
               /\ Kinds(code[Master]) \subseteq MasterOps /\ code[Master] # <<>> /\ <<>> \o t = t
<1>. DEFINE c == code[Master]
            t == Tail(c)
<1>1. Now(Master) = c[1] /\ IsSeq(c) /\ c # <<>>
  BY CodeAt, ProcsAre
<1>2. IsSeq(t) /\ Kinds(c) = {c[1].do} \cup Kinds(t)
  BY <1>1, HeadTail, KindsTail, Zenon
<1>3. Up(c)
  BY ProcsAre DEF PipeInv, Goods, Good
<1>4. Up(t) /\ Kinds(t) \subseteq MasterOps
  BY <1>1, <1>3, Popped
<1>5. <<>> \o t = t
  <2>. HIDE DEF t
  <2>. QED  BY <1>2 DEF IsSeq
<1>. QED  BY <1>1, <1>2, <1>4, <1>5

LEMMA AcceptPipes ==
    ASSUME MpInv, SlotInv, PipeInv, Accept
    PROVE  PipeInv'
<1>. DEFINE c == code[Master]
            y == Do("client_init")
            s == Section(y)
            d == s \o c
<1>1. /\ Alive(Master) /\ Now(Master).do = "accept" /\ code' = [code EXCEPT ![Master] = d]
      /\ UNCHANGED <<all_clients, me, fifo, opened, ffds>>
  BY DEF Accept, At, Now, files
<1>2. Kinds(c) \subseteq MasterOps /\ c # <<>> /\ IsSeq(c)
  <2>1. Now(Master).do \in MasterOps
    BY <1>1 DEF MasterOps
  <2>. QED  BY <1>1, <2>1, MasterAt, CodeAt, ProcsAre
<1>3. Up(c)
  BY ProcsAre DEF PipeInv, Goods, Good
<1>4. IsSeq(s) /\ Up(s) /\ Kinds(s) = {"wait", "client_init"}
  <2>. DEFINE x == Do("wait")
  <2>1. x.do = "wait" /\ y.do = "client_init" /\ s = <<x, y>>
    BY DEF Do, Section
  <2>. HIDE DEF x, y, s
  <2>2. IsSeq(s) /\ DOMAIN s = {1, 2} /\ s[1] = x /\ s[2] = y /\ Kinds(s) = {x.do, y.do}
    BY <2>1, Pair
  <2>3. Up(s)
    <3>1. "wait" \notin MasterOps
      BY DEF MasterOps
    <3>2. \A j, k \in {1, 2} : j < k => j = 1
      OBVIOUS
    <3>. QED  BY <2>1, <2>2, <3>1, <3>2 DEF Up
  <2>. QED  BY <2>1, <2>2, <2>3
<1>. HIDE DEF c, s
<1>5. IsSeq(d) /\ Up(d) /\ Kinds(d) = Kinds(s) \cup Kinds(c)
  BY <1>2, <1>3, <1>4, Concat, KindsConcat, Joined
<1>. HIDE DEF d
<1>6. Kinds(d) \subseteq MasterOps \cup {"wait"}
  BY <1>2, <1>4, <1>5 DEF MasterOps
<1>7. TableKept
  BY <1>1, TableSame DEF PipeInv
<1>8. Table' /\ \A i, j \in Slots : SameSent(i, j)
  BY <1>7, TableKeptIs DEF PipeInv
<1>9. Goods' /\ Pipes'
  BY <1>1, <1>2, <1>5, <1>6, <1>8, MasterMoves, Zenon DEF c
<1>. QED  BY <1>1, <1>8, <1>9, FilesSame DEF PipeInv

LEMMA ClientInitPipes ==
    ASSUME MpInv, SlotInv, PipeInv, client_init
    PROVE  PipeInv'
<1>. DEFINE i == CHOOSE j \in Slots :
                    /\ ~all_clients[j].uid
                    /\ \A k \in 1..j-1 : all_clients[k].uid
            x == On("register", i)
            y == Do("fork")
            s == <<x, y>>
            t == Tail(code[Master])
            d == s \o t
            n == sock[Master]
<1>1. /\ Alive(Master) /\ Now(Master).do = "client_init" /\ code' = [code EXCEPT ![Master] = d]
      /\ UNCHANGED <<me, fifo, opened, ffds>>
      /\ all_clients' = [all_clients EXCEPT ![i].uid = TRUE,
                  ![i].nickname = "(no name)", ![i].fd = n,
                  ![i].sender_id = -1, ![i].clear_id = -1]
  BY Zenon DEF client_init, At, Now, files, local, Leave, Continue, Clients
<1>2. /\ IsSeq(t) /\ Kinds(t) \subseteq MasterOps /\ Kinds(code[Master]) \subseteq MasterOps
      /\ code[Master] # <<>>
  <2>1. Now(Master).do \in MasterOps
    BY <1>1, Zenon DEF MasterOps
  <2>. QED  BY <1>1, <2>1, MasterAt, Zenon
<1>3. x.do = "register" /\ y.do = "fork"
  BY DEF On, Do
<1>. HIDE DEF i, x, y
<1>4. IsSeq(s) /\ Kinds(s) = {"register", "fork"}
  BY <1>3, Pair
<1>. HIDE DEF s, t
<1>5. IsSeq(d) /\ Kinds(d) = Kinds(s) \cup Kinds(t)
  BY <1>2, <1>4, Concat, KindsConcat
<1>. HIDE DEF d
<1>6. Kinds(d) \subseteq MasterOps
  BY <1>2, <1>4, <1>5 DEF MasterOps
<1>7. Up(d)
  BY <1>6 DEF Kinds, Up
<1>. HIDE DEF n
<1>8. TableKept
  <2>1. DOMAIN all_clients = Slots
    BY SlotFacts
  <2>. QED  BY <1>1, <2>1, Zenon DEF TableKept, Table, PipeInv
<1>9. Table' /\ \A k, j \in Slots : SameSent(k, j)
  BY <1>8, TableKeptIs DEF PipeInv
<1>10. Goods' /\ Pipes'
  BY <1>1, <1>2, <1>5, <1>6, <1>7, <1>9, MasterMoves, Zenon
<1>. QED  BY <1>1, <1>9, <1>10, FilesSame, Zenon DEF PipeInv

LEMMA RegisterPipes ==
    ASSUME MpInv, SlotInv, PipeInv, Register
    PROVE  PipeInv'
<1>. DEFINE d == Tail(code[Master])
<1>1. /\ Alive(Master) /\ Now(Master).do = "register" /\ code' = [code EXCEPT ![Master] = <<>> \o d]
      /\ UNCHANGED <<all_clients, fifo, opened, ffds>>
      /\ me' = [me EXCEPT ![Master] = Now(Master).to]
  BY DEF Register, At, Now, files, Plain, Continue
<1>2. /\ IsSeq(d) /\ Up(d) /\ Kinds(d) \subseteq MasterOps /\ Kinds(code[Master]) \subseteq MasterOps
      /\ code[Master] # <<>> /\ <<>> \o d = d
  <2>1. Now(Master).do \in MasterOps
    BY <1>1 DEF MasterOps
  <2>. QED  BY <1>1, <2>1, MasterAt
<1>. HIDE DEF d
<1>3. /\ Master \in Procs /\ Conns \subseteq Procs /\ Master \notin Conns
      /\ code'[Master] = d /\ \A c \in Conns : code'[c] = code[c] /\ me'[c] = me[c]
  BY <1>1, <1>2, ProcsAre DEF MpInv, StructInv
<1>4. Good(Master, me'[Master], d) /\ Toks(d) = {} /\ \A i : Single(d, i)
  BY <1>2, MasterGood, Zenon
<1>5. Toks(code[Master]) = {}
  <2>1. MasterOps \cap Tokens = {}
    BY DEF MasterOps, Tokens
  <2>. QED  BY <1>2, <2>1 DEF Toks, Spc, Ins, Kinds
<1>6. Goods'
  BY <1>3, <1>4 DEF PipeInv, Goods, Procs
<1>7. TableKept
  BY <1>1, TableSame DEF PipeInv
<1>8. Table' /\ \A k, j \in Slots : SameSent(k, j)
  BY <1>7, TableKeptIs DEF PipeInv
<1>9. ASSUME NEW i \in Slots, NEW j \in Slots, Calm(i, j)' PROVE Pipe(i, j)'
  <2>1. \A c \in Conns : Left(c)' <=> Left(c)
    BY <1>3 DEF Left, Gone, Alive, Leaving
  <2>2. Calm(i, j)
    BY <1>3, <1>9, <2>1 DEF Calm
  <2>3. Pipe(i, j)
    BY <2>2 DEF PipeInv, Pipes
  <2>4. Alike(Master, i, j)
    BY <1>3, <1>4, <1>5, NoneAlike
  <2>5. \A c \in Conns : Alike(c, i, j)
    BY <1>3 DEF Alike, Writing, Starting, Laying, Taking, Ending
  <2>6. \A r \in Procs : Alike(r, i, j)
    BY <2>4, <2>5 DEF Procs
  <2>. QED  BY <1>1, <1>8, <2>3, <2>6, PairStill
<1>10. Pipes'
  BY <1>9 DEF Pipes
<1>. QED  BY <1>1, <1>6, <1>8, <1>10, FilesSame DEF PipeInv

LEMMA PartChild == \E X : Part(Child, X) /\ \A x \in X : x.do = "prompt"
<1>. DEFINE y == Do("close_other")
            z == Do("set_pid")
            x == Do("prompt")
            a == Section(y)
            b == Section(z)
            e == <<x>>
<1>1. /\ y.do \notin Special /\ z.do \notin Special /\ x.do = "prompt" /\ x.do \in Special
      /\ x.do \notin MasterOps \cup {"mkfifo", "set_sent"}
  BY DEF Do, Special, PipeOps, Chain, Chain2, LeaveOps, MasterOps
<1>2. Child = ((a \o b) \o broadcast) \o e
  BY DEF Child
<1>. HIDE DEF x, y, z
<1>3. Part(a, {}) /\ Part(b, {}) /\ Part(e, {x}) /\ Part(broadcast, {})
  BY <1>1, PartPlain, PartSection, PartSpecial, PartBroadcast, Zenon
<1>. HIDE DEF a, b, e
<1>4. Part(a \o b, {})
  BY <1>3, PartBefore
<1>5. Part((a \o b) \o broadcast, {})
  BY <1>3, <1>4, PartBefore
<1>6. Part(((a \o b) \o broadcast) \o e, {x})
  BY <1>3, <1>5, PartBefore
<1>. QED  BY <1>1, <1>2, <1>6

(* The slot and the process of a fork. *)
LEMMA ForkAt ==
    ASSUME MpInv, SlotInv, Alive(Master), Now(Master).do = "fork"
    PROVE  /\ sock[Master] \in Conns /\ code[sock[Master]] = <<>> /\ me[sock[Master]] = -1
           /\ me[Master] \in Slots
<1>. DEFINE c == code[Master]
            d == Tail(c)
<1>1. /\ IsSeq(c) /\ c # <<>> /\ Tidy(c) /\ c[1].do = "fork"
      /\ Kinds(c) = {"fork"} \cup Kinds(d) /\ Registered(d) = Registered(c)
  BY ServerAt, KindsTail, ProcsAre
<1>2. Registered(d) = {}
  BY <1>1, TidyTail, Zenon DEF Onces
<1>3. "fork" \in Kinds(c)
  BY <1>1
<1>. QED  BY <1>1, <1>2, <1>3, Latest, Zenon DEF SlotInv, Opening

LEMMA ForkPipes ==
    ASSUME MpInv, SlotInv, PipeInv, Fork
    PROVE  PipeInv'
<1>. DEFINE c == code[Master]
            n == sock[Master]
            i == me[Master]
            d == Tail(c)
<1>1. /\ Alive(Master) /\ Now(Master).do = "fork"
      /\ code' = [code EXCEPT ![Master] = d, ![n] = Child]
      /\ me' = [me EXCEPT ![n] = i]
      /\ ffds' = [ffds EXCEPT ![n] = ffds[Master]]
      /\ UNCHANGED <<all_clients, fifo, opened>>
  BY DEF Fork, At, Now
<1>2. /\ DOMAIN code = Procs /\ Master \in Procs /\ Conns \subseteq Procs /\ Master \notin Conns
      /\ DOMAIN me = Procs
  BY ProcsAre DEF MpInv, StructInv, SlotInv, Accounts
<1>3. /\ IsSeq(d) /\ Up(d) /\ Kinds(d) \subseteq MasterOps /\ Kinds(c) \subseteq MasterOps
      /\ c # <<>>
  <2>1. Now(Master).do \in MasterOps
    BY <1>1 DEF MasterOps
  <2>. QED  BY <1>1, <2>1, MasterAt
<1>5. n \in Conns /\ code[n] = <<>> /\ me[n] = -1 /\ n # Master /\ i \in Slots
  BY <1>1, <1>2, ForkAt
<1>4. Toks(c) = {}
  <2>1. MasterOps \cap Tokens = {}
    BY DEF MasterOps, Tokens
  <2>. QED  BY <1>3, <2>1 DEF Toks, Spc, Ins, Kinds
<1>. HIDE DEF c, n, i, d
<1>6. /\ code'[Master] = d /\ code'[n] = Child /\ me'[Master] = me[Master] /\ me'[n] = i
      /\ \A q \in Conns : q # n => code'[q] = code[q] /\ me'[q] = me[q]
  BY <1>1, <1>2, <1>5
<1>7. Good(n, i, Child) /\ Toks(Child) = {} /\ \A k : Single(Child, k)
  <2>1. PICK X : Part(Child, X) /\ \A x \in X : x.do = "prompt"
    BY PartChild
  <2>2. Kinds(Child) \cap Special = {x.do : x \in X} /\ \A k : Single(Child, k)
    BY <2>1, PartKinds
  <2>3. \A x \in X : Fits(n, i, x, "exit" \in Kinds(Child)) /\ x.do \notin Tokens
    BY <2>1 DEF Fits, LeaveOps, PipeOps, Chain, Chain2, Tokens
  <2>4. "prompt" \in Kinds(Child)
    <3>1. Kinds(Child) \cap Main(n) = {"close_other", "prompt"}
      BY TidyChild
    <3>. QED  BY <3>1
  <2>5. Good(n, i, Child)
    BY <1>5, <2>1, <2>3, <2>4 DEF Good, Lives, Part
  <2>6. Toks(Child) = {}
    BY <2>1, <2>3 DEF Toks, Part
  <2>. QED  BY <2>2, <2>5, <2>6
<1>8. Good(Master, me[Master], d) /\ Toks(d) = {} /\ \A k : Single(d, k)
  BY <1>3, MasterGood, Zenon
<1>9. Goods'
  <2>1. ASSUME NEW q \in Procs PROVE Good(q, me'[q], code'[q])
    <3>1. CASE q = Master
      BY <1>6, <1>8, <3>1
    <3>2. CASE q = n
      BY <1>6, <1>7, <3>2
    <3>3. CASE q # Master /\ q # n
      BY <1>6, <3>3 DEF PipeInv, Goods, Procs
    <3>. QED  BY <3>1, <3>2, <3>3
  <2>2. ASSUME NEW q \in Conns, code'[q] # <<>> PROVE me'[q] \in Slots
    BY <1>5, <1>6, <2>2 DEF PipeInv, Goods
  <2>. QED  BY <2>1, <2>2 DEF Goods
<1>10. TableKept
  BY <1>1, TableSame DEF PipeInv
<1>11. Table' /\ \A k, j \in Slots : SameSent(k, j)
  BY <1>10, TableKeptIs DEF PipeInv
<1>12. ASSUME NEW k \in Slots, NEW j \in Slots, Calm(k, j)' PROVE Pipe(k, j)'
  <2>1. ASSUME NEW q \in Conns, me[q] \in {k, j} PROVE ~Left(q)
    <3>1. q # n
      BY <1>5, <2>1, SlotIs
    <3>2. code'[q] = code[q] /\ me'[q] = me[q]
      BY <1>6, <3>1
    <3>3. ~Left(q)'
      BY <1>12, <2>1, <3>2 DEF Calm
    <3>. QED  BY <3>2, <3>3 DEF Left, Gone, Alive, Leaving
  <2>2. Pipe(k, j)
    BY <2>1 DEF PipeInv, Pipes, Calm
  <2>3. Alike(Master, k, j)
    BY <1>4, <1>6, <1>8, NoneAlike DEF c
  <2>4. Alike(n, k, j)
    <3>1. Toks(<<>>) = {}
      BY GoodNone DEF Toks
    <3>. QED  BY <1>5, <1>6, <1>7, <3>1, NoneAlike
  <2>5. ASSUME NEW q \in Conns, q # n PROVE Alike(q, k, j)
    BY <1>6, <2>5 DEF Alike, Writing, Starting, Laying, Taking, Ending
  <2>6. \A r \in Procs : Alike(r, k, j)
    BY <2>3, <2>4, <2>5 DEF Procs
  <2>. QED  BY <1>1, <1>11, <2>2, <2>6, PairStill
<1>13. Pipes'
  BY <1>12 DEF Pipes
<1>14. Files'
  BY <1>1, <1>2, Zenon DEF PipeInv, Files
<1>. QED  BY <1>9, <1>11, <1>13, <1>14 DEF PipeInv
(* The pipe from i to j when only p changes: what is to be shown. *)
LEMMA PairBy ==
    ASSUME NEW i \in Slots, NEW j \in Slots, Pipe(i, j), NEW p \in Procs,
           \A r \in Procs \ {p} : Alike(r, i, j),
           me'[p] = j => Single(code'[p], i),
           fifo'[<<i, j>>] # 0 =>
              \/ \E r \in Procs \ {p} : Writing(r, i, j) \/ Laying(r, i, j) \/ Ending(r, i, j)
              \/ Writing(p, i, j)' \/ Laying(p, i, j)' \/ Ending(p, i, j)'
              \/ Filed(i, j)' \/ "badfile" \in Menu,
           Filed(i, j)' => fifo'[<<i, j>>] # 0,
           Starting(p, i, j)' => fifo'[<<i, j>>] = 0,
           Taking(p, i, j)' \/ Laying(p, i, j)' \/ Ending(p, i, j)' => fifo'[<<i, j>>] # 0,
           Writing(p, i, j)' \/ Laying(p, i, j)' \/ Ending(p, i, j)' => ~Filed(i, j)',
           \A r \in Procs \ {p} :
              /\ Starting(r, i, j) => fifo'[<<i, j>>] = 0
              /\ Taking(r, i, j) \/ Laying(r, i, j) \/ Ending(r, i, j) => fifo'[<<i, j>>] # 0
              /\ Writing(r, i, j) \/ Laying(r, i, j) \/ Ending(r, i, j) => ~Filed(i, j)'
              /\ Writing(p, i, j)' => ~Laying(r, i, j) /\ ~Ending(r, i, j)
              /\ Laying(p, i, j)' => ~Writing(r, i, j) /\ ~Ending(r, i, j) /\ ~Laying(r, i, j)
              /\ Ending(p, i, j)' => ~Writing(r, i, j) /\ ~Laying(r, i, j),
           Writing(p, i, j)' => ~Laying(p, i, j)' /\ ~Ending(p, i, j)',
           ~(Laying(p, i, j)' /\ Ending(p, i, j)')
    PROVE  Pipe(i, j)'
<1>2. \A r \in Procs \ {p} :
                       /\ Writing(r, i, j)' <=> Writing(r, i, j)
                       /\ Starting(r, i, j)' <=> Starting(r, i, j)
                       /\ Laying(r, i, j)' <=> Laying(r, i, j)
                       /\ Taking(r, i, j)' <=> Taking(r, i, j)
                       /\ Ending(r, i, j)' <=> Ending(r, i, j)
  BY DEF Alike
<1>3. \A r \in Procs : me'[r] = j => Single(code'[r], i)
  <2>1. \A r \in Procs \ {p} : me'[r] = j => Single(code'[r], i)
    BY DEF Alike, Pipe
  <2>. QED  BY <2>1
<1>4. fifo'[<<i, j>>] # 0 =>
          \/ \E r \in Procs : Writing(r, i, j)' \/ Laying(r, i, j)' \/ Ending(r, i, j)'
          \/ Filed(i, j)' \/ "badfile" \in Menu
  BY <1>2
<1>6. \A r \in Procs :
          /\ Starting(r, i, j)' => fifo'[<<i, j>>] = 0
          /\ Taking(r, i, j)' \/ Laying(r, i, j)' \/ Ending(r, i, j)' => fifo'[<<i, j>>] # 0
          /\ Writing(r, i, j)' \/ Laying(r, i, j)' \/ Ending(r, i, j)' => ~Filed(i, j)'
  BY <1>2
<1>7. \A r, q \in Procs :
          /\ ~(Writing(r, i, j)' /\ Laying(q, i, j)')
          /\ ~(Writing(r, i, j)' /\ Ending(q, i, j)')
          /\ ~(Laying(r, i, j)' /\ Ending(q, i, j)')
          /\ Laying(r, i, j)' /\ Laying(q, i, j)' => r = q
  <2>. SUFFICES ASSUME NEW r \in Procs, NEW q \in Procs
                PROVE  /\ ~(Writing(r, i, j)' /\ Laying(q, i, j)')
                       /\ ~(Writing(r, i, j)' /\ Ending(q, i, j)')
                       /\ ~(Laying(r, i, j)' /\ Ending(q, i, j)')
                       /\ Laying(r, i, j)' /\ Laying(q, i, j)' => r = q
    OBVIOUS
  <2>1. CASE r = p /\ q = p
    BY <2>1
  <2>2. CASE r = p /\ q # p
    BY <1>2, <2>2
  <2>3. CASE r # p /\ q = p
    BY <1>2, <2>3
  <2>4. CASE r # p /\ q # p
    <3>1. /\ ~(Writing(r, i, j) /\ Laying(q, i, j))
          /\ ~(Writing(r, i, j) /\ Ending(q, i, j))
          /\ ~(Laying(r, i, j) /\ Ending(q, i, j))
          /\ Laying(r, i, j) /\ Laying(q, i, j) => r = q
      BY DEF Pipe
    <3>. QED  BY <1>2, <2>4, <3>1
  <2>. QED  BY <2>1, <2>2, <2>3, <2>4
<1>. QED  BY <1>3, <1>4, <1>6, <1>7 DEF Pipe

(* A step of a server at one of the instructions of Chain. *)
LEMMA TokGoes ==
    ASSUME MpInv, PipeInv, NEW p \in Procs, Alive(p), Now(p).do \in PipeOps,
           NEW s, NEW X, Part(s, X), Continue(p, s), me' = me,
           \A x \in X : Fits(p, me[p], x, "exit" \in Kinds(code[p])),
           X = {} \/ Now(p).do \in Chain \cap Chain2
    PROVE  /\ p \in Conns /\ me[p] \in Slots
           /\ \E t, d : /\ t = Tail(code[p]) /\ code'[p] = d /\ Moves(p, d)
                        /\ Toks(code[p]) = {x \in {Now(p)} : x.do \in Tokens} \cup Toks(t)
                        /\ Toks(d) = {x \in X : x.do \in Tokens} \cup Toks(t)
                        /\ \A i : Single(code[p], i) => Single(d, i)
                        /\ "exit" \in Kinds(code[p]) => "exit" \in Kinds(d)
                        /\ \/ "exit" \in Kinds(code[p])
                           \/ /\ Now(p).do \in Chain => Kinds(t) \cap Chain = {}
                              /\ Now(p).do \in Chain2 => Kinds(t) \cap Chain2 = {}
<1>. DEFINE c == code[p]
            u == me[p]
            t == Tail(c)
            d == s \o t
<1>1. p \in Conns /\ u \in Slots /\ Now(p) = c[1] /\ IsSeq(c) /\ c # <<>> /\ Good(p, u, c)
  BY Leaver, CodeAt DEF PipeInv, Goods
<1>2. code' = [code EXCEPT ![p] = d] /\ DOMAIN code = Procs
  BY CodeAt DEF Continue
<1>3. c[1].do \notin {"prompt", "exit"}
  BY <1>1, SpecialOps
<1>4. /\ Good(p, u, t) /\ IsSeq(t)
      /\ "exit" \in Kinds(t) <=> "exit" \in Kinds(c)
      /\ Lives(t)
      /\ \/ "exit" \in Kinds(c)
         \/ /\ c[1].do \in Chain => Kinds(t) \cap Chain = {}
            /\ c[1].do \in Chain2 => Kinds(t) \cap Chain2 = {}
      /\ Spc(c) = {x \in {c[1]} : x.do \in Special} \cup Spc(t)
  BY <1>1, <1>3, GoodTail, Zenon
<1>5. \A i : Single(c, i) => Single(t, i)
  BY <1>1, Popped
<1>. HIDE DEF t
<1>6. /\ Good(p, u, d) /\ Spc(d) = X \cup Spc(t)
      /\ \A i : Single(t, i) => Single(d, i)
      /\ Kinds(d) = Kinds(s) \cup Kinds(t)
  <2>1. \A x \in X : Fits(p, u, x, "exit" \in Kinds(t))
    BY <1>4, FitsOn
  <2>2. \/ \A x \in X : x.do \notin PipeOps
        \/ Kinds(t) \cap PipeOps = {}
        \/ "exit" \in Kinds(t)
    BY <1>1, <1>4, SpecialOps
  <2>. QED  BY <1>1, <1>4, <2>1, <2>2, GoodPush
<1>. HIDE DEF d
<1>7. Moves(p, d)
  BY <1>1, <1>2, <1>4, <1>6 DEF Moves
<1>8. Tokens \subseteq Special
  BY DEF Tokens, Special, PipeOps, Chain, Chain2
<1>9. Toks(c) = {x \in {Now(p)} : x.do \in Tokens} \cup Toks(t)
  BY <1>1, <1>4, <1>8 DEF Toks
<1>10. Toks(d) = {x \in X : x.do \in Tokens} \cup Toks(t)
  BY <1>6 DEF Toks
<1>. HIDE DEF c, u
<1>11. code'[p] = d /\ t = Tail(code[p]) /\ c = code[p]
  BY <1>2 DEF t, c
<1>12. \A i : Single(c, i) => Single(d, i)
  BY <1>5, <1>6
<1>13. "exit" \in Kinds(c) => "exit" \in Kinds(d)
  BY <1>4, <1>6
<1>14. \/ "exit" \in Kinds(c)
       \/ /\ Now(p).do \in Chain => Kinds(t) \cap Chain = {}
          /\ Now(p).do \in Chain2 => Kinds(t) \cap Chain2 = {}
  BY <1>1, <1>4
<1>. QED  BY <1>1, <1>7, <1>9, <1>10, <1>11, <1>12, <1>13, <1>14, Zenon DEF u

LEMMA ToksSplit ==
    ASSUME NEW c, NEW t, NEW X, Toks(c) = {x \in X : x.do \in Tokens} \cup Toks(t), NEW i
    PROVE  /\ Outs(c, i) = {x \in X : x.do \in {"open_write", "set_sender"} /\ x.to = i} \cup Outs(t, i)
           /\ Early(c, i) = {x \in X : x.do \in {"set_sender", "mkfifo"} /\ x.to = i} \cup Early(t, i)
           /\ Lays(c, i) = {x \in X : x.do = "set_sent" /\ x.from = i} \cup Lays(t, i)
           /\ Gets(c, i) = {x \in X : x.do = "take_fd" /\ x.to = i} \cup Gets(t, i)
           /\ Ends(c, i) = {x \in X : x.do \in {"close_in", "unlink"} /\ x.from = i
                                           /\ (x.do = "close_in" => x.fd # -1)} \cup Ends(t, i)
<1>. DEFINE S == {x \in X : x.do \in Tokens}
            A(T) == {x \in T : x.do \in {"open_write", "set_sender"} /\ x.to = i}
            B(T) == {x \in T : x.do \in {"set_sender", "mkfifo"} /\ x.to = i}
            C(T) == {x \in T : x.do = "set_sent" /\ x.from = i}
            D(T) == {x \in T : x.do = "take_fd" /\ x.to = i}
            E(T) == {x \in T : x.do \in {"close_in", "unlink"} /\ x.from = i
                                           /\ (x.do = "close_in" => x.fd # -1)}
<1>1. /\ Outs(c, i) = A(Toks(c)) /\ Early(c, i) = B(Toks(c)) /\ Lays(c, i) = C(Toks(c))
      /\ Gets(c, i) = D(Toks(c)) /\ Ends(c, i) = E(Toks(c))
  BY ToksAre
<1>2. /\ Outs(t, i) = A(Toks(t)) /\ Early(t, i) = B(Toks(t)) /\ Lays(t, i) = C(Toks(t))
      /\ Gets(t, i) = D(Toks(t)) /\ Ends(t, i) = E(Toks(t))
  BY ToksAre
<1>3. A(S) = A(X) /\ B(S) = B(X) /\ C(S) = C(X) /\ D(S) = D(X) /\ E(S) = E(X)
  BY DEF Tokens
<1>4. Toks(c) = S \cup Toks(t)
  OBVIOUS
<1>. DEFINE U == Toks(t)
<1>. HIDE DEF S, U
<1>5. A(S \cup U) = A(S) \cup A(U) /\ B(S \cup U) = B(S) \cup B(U) /\ C(S \cup U) = C(S) \cup C(U)
      /\ D(S \cup U) = D(S) \cup D(U) /\ E(S \cup U) = E(S) \cup E(U)
  OBVIOUS
<1>6. Toks(c) = S \cup U /\ Toks(t) = U
  BY <1>4 DEF U
<1>. HIDE DEF A, B, C, D, E
<1>7. /\ Outs(c, i) = A(X) \cup Outs(t, i) /\ Early(c, i) = B(X) \cup Early(t, i)
      /\ Lays(c, i) = C(X) \cup Lays(t, i) /\ Gets(c, i) = D(X) \cup Gets(t, i)
      /\ Ends(c, i) = E(X) \cup Ends(t, i)
  BY <1>1, <1>2, <1>3, <1>5, <1>6, Zenon
<1>. QED  BY <1>7 DEF A, B, C, D, E

LEMMA NoChain ==
    ASSUME NEW t, NEW i
    PROVE  /\ Kinds(t) \cap Chain = {} => Early(t, i) = {} /\ Gets(t, i) = {} /\ Ends(t, i) = {}
           /\ Kinds(t) \cap Chain2 = {} => Outs(t, i) = {}
<1>1. \A x \in Spc(t) : x.do \in Kinds(t)
  BY InsKinds DEF Spc
<1>. QED  BY <1>1 DEF Early, Gets, Ends, Outs, Chain, Chain2

(* Only the pipes of users that do not leave count. *)
LEMMA ByPairs ==
    ASSUME MpInv, PipeInv, NEW p \in Conns, NEW d, Moves(p, d),
           "exit" \in Kinds(code[p]) => "exit" \in Kinds(d),
           \A i, j \in Slots : me[p] \notin {i, j} =>
               fifo'[<<i, j>>] = fifo[<<i, j>>] /\ SameSent(i, j),
           "exit" \notin Kinds(code[p]) =>
               \A i, j \in Slots : me[p] \in {i, j} /\ Calm(i, j) /\ Pipe(i, j)
                                       /\ (\A r \in Procs \ {p} : Alike(r, i, j)) => Pipe(i, j)'
    PROVE  Goods' /\ Pipes'
<1>1. p \in Procs
  BY ProcsAre
<1>2. CASE "exit" \in Kinds(code[p])
  BY <1>2, LeftMoves
<1>3. CASE "exit" \notin Kinds(code[p])
  <2>1. /\ Goods' /\ code'[p] = d /\ me' = me
        /\ \A i, j \in Slots : /\ Calm(i, j)' => Calm(i, j)
                               /\ \A r \in Procs \ {p} : Alike(r, i, j)
    BY <1>1, MoveKeeps, Zenon DEF Moves
  <2>2. ASSUME NEW i \in Slots, NEW j \in Slots, Calm(i, j)' PROVE Pipe(i, j)'
    <3>1. Calm(i, j) /\ Pipe(i, j) /\ \A r \in Procs \ {p} : Alike(r, i, j)
      BY <2>1, <2>2 DEF PipeInv, Pipes
    <3>2. CASE me[p] \in {i, j}
      BY <1>3, <3>1, <3>2
    <3>3. CASE me[p] \notin {i, j}
      <4>1. Alike(p, i, j)
        BY <2>1, <3>3, OtherAlike
      <4>2. \A r \in Procs : Alike(r, i, j)
        BY <3>1, <4>1
      <4>. QED  BY <3>1, <3>3, <4>2, PairStill, Zenon
    <3>. QED  BY <3>2, <3>3
  <2>. QED  BY <2>1, <2>2 DEF Pipes
<1>. QED  BY <1>2, <1>3
(* What one instruction still has to do about the pipe to, or from, k. *)
OutOf(x, k) == x.do \in {"open_write", "set_sender"} /\ x.to = k
EarlyOf(x, k) == x.do \in {"set_sender", "mkfifo"} /\ x.to = k
LayOf(x, k) == x.do = "set_sent" /\ x.from = k
GetOf(x, k) == x.do = "take_fd" /\ x.to = k
EndOf(x, k) == x.do \in {"close_in", "unlink"} /\ x.from = k /\ (x.do = "close_in" => x.fd # -1)

(* p did x, and has X and then t to do. *)
Turn(p, x, X, t) ==
    /\ \A k : /\ Outs(code[p], k) # {} <=> OutOf(x, k) \/ Outs(t, k) # {}
              /\ Early(code[p], k) # {} <=> EarlyOf(x, k) \/ Early(t, k) # {}
              /\ Lays(code[p], k) # {} <=> LayOf(x, k) \/ Lays(t, k) # {}
              /\ Gets(code[p], k) # {} <=> GetOf(x, k) \/ Gets(t, k) # {}
              /\ Ends(code[p], k) # {} <=> EndOf(x, k) \/ Ends(t, k) # {}
    /\ \A k : /\ Outs(code'[p], k) # {} <=> (\E y \in X : OutOf(y, k)) \/ Outs(t, k) # {}
              /\ Early(code'[p], k) # {} <=> (\E y \in X : EarlyOf(y, k)) \/ Early(t, k) # {}
              /\ Lays(code'[p], k) # {} <=> (\E y \in X : LayOf(y, k)) \/ Lays(t, k) # {}
              /\ Gets(code'[p], k) # {} <=> (\E y \in X : GetOf(y, k)) \/ Gets(t, k) # {}
              /\ Ends(code'[p], k) # {} <=> (\E y \in X : EndOf(y, k)) \/ Ends(t, k) # {}
    /\ \A k : Single(code[p], k) => Single(code'[p], k)
    /\ "exit" \in Kinds(code[p]) => "exit" \in Kinds(code'[p])
    /\ "exit" \notin Kinds(code[p]) /\ x.do \in Chain =>
          \A k : Early(t, k) = {} /\ Gets(t, k) = {} /\ Ends(t, k) = {}
    /\ "exit" \notin Kinds(code[p]) /\ x.do \in Chain2 => \A k : Outs(t, k) = {}

Splits(c, X, t) == Toks(c) = {x \in X : x.do \in Tokens} \cup Toks(t)

LEMMA SplitSome ==
    ASSUME NEW c, NEW t, NEW X, Splits(c, X, t), NEW k
    PROVE  /\ Outs(c, k) # {} <=> (\E y \in X : OutOf(y, k)) \/ Outs(t, k) # {}
           /\ Early(c, k) # {} <=> (\E y \in X : EarlyOf(y, k)) \/ Early(t, k) # {}
           /\ Lays(c, k) # {} <=> (\E y \in X : LayOf(y, k)) \/ Lays(t, k) # {}
           /\ Gets(c, k) # {} <=> (\E y \in X : GetOf(y, k)) \/ Gets(t, k) # {}
           /\ Ends(c, k) # {} <=> (\E y \in X : EndOf(y, k)) \/ Ends(t, k) # {}
<1>1. /\ Outs(c, k) = {x \in X : OutOf(x, k)} \cup Outs(t, k)
      /\ Early(c, k) = {x \in X : EarlyOf(x, k)} \cup Early(t, k)
      /\ Lays(c, k) = {x \in X : LayOf(x, k)} \cup Lays(t, k)
      /\ Gets(c, k) = {x \in X : GetOf(x, k)} \cup Gets(t, k)
      /\ Ends(c, k) = {x \in X : EndOf(x, k)} \cup Ends(t, k)
  BY ToksSplit DEF Splits, OutOf, EarlyOf, LayOf, GetOf, EndOf
<1>. QED  BY <1>1

LEMMA TokTurn ==
    ASSUME MpInv, PipeInv, NEW p \in Procs, Alive(p), Now(p).do \in PipeOps,
           NEW s, NEW X, Part(s, X), Continue(p, s), me' = me,
           \A x \in X : Fits(p, me[p], x, "exit" \in Kinds(code[p])),
           X = {} \/ Now(p).do \in Chain \cap Chain2
    PROVE  /\ p \in Conns /\ me[p] \in Slots /\ Moves(p, code'[p])
           /\ \E t : Turn(p, Now(p), X, t)
<1>. DEFINE n == Now(p)
            P(t, d) == /\ t = Tail(code[p]) /\ code'[p] = d /\ Moves(p, d)
                       /\ Toks(code[p]) = {x \in {Now(p)} : x.do \in Tokens} \cup Toks(t)
                       /\ Toks(d) = {x \in X : x.do \in Tokens} \cup Toks(t)
                       /\ \A i : Single(code[p], i) => Single(d, i)
                       /\ "exit" \in Kinds(code[p]) => "exit" \in Kinds(d)
                       /\ \/ "exit" \in Kinds(code[p])
                          \/ /\ Now(p).do \in Chain => Kinds(t) \cap Chain = {}
                             /\ Now(p).do \in Chain2 => Kinds(t) \cap Chain2 = {}
<1>1. p \in Conns /\ me[p] \in Slots /\ \E t, d : P(t, d)
  BY TokGoes, Zenon
<1>2. PICK t, d : P(t, d)
  BY <1>1, Zenon
<1>3. /\ code'[p] = d /\ Moves(p, d)
      /\ Toks(code[p]) = {x \in {n} : x.do \in Tokens} \cup Toks(t)
      /\ Toks(d) = {x \in X : x.do \in Tokens} \cup Toks(t)
  BY <1>2
<1>4. \A i : Single(code[p], i) => Single(d, i)
  BY <1>2
<1>5. "exit" \in Kinds(code[p]) => "exit" \in Kinds(d)
  BY <1>2
<1>6. "exit" \notin Kinds(code[p]) =>
          /\ n.do \in Chain => Kinds(t) \cap Chain = {}
          /\ n.do \in Chain2 => Kinds(t) \cap Chain2 = {}
  BY <1>2
<1>. HIDE DEF P, n
<1>7. ASSUME NEW k
      PROVE  /\ Outs(code[p], k) # {} <=> OutOf(n, k) \/ Outs(t, k) # {}
             /\ Early(code[p], k) # {} <=> EarlyOf(n, k) \/ Early(t, k) # {}
             /\ Lays(code[p], k) # {} <=> LayOf(n, k) \/ Lays(t, k) # {}
             /\ Gets(code[p], k) # {} <=> GetOf(n, k) \/ Gets(t, k) # {}
             /\ Ends(code[p], k) # {} <=> EndOf(n, k) \/ Ends(t, k) # {}
  <2>. DEFINE N == {n}
              c == code[p]
  <2>1. Splits(c, N, t)
    BY <1>3 DEF Splits
  <2>. HIDE DEF N, c
  <2>2. /\ Outs(c, k) # {} <=> (\E y \in N : OutOf(y, k)) \/ Outs(t, k) # {}
        /\ Early(c, k) # {} <=> (\E y \in N : EarlyOf(y, k)) \/ Early(t, k) # {}
        /\ Lays(c, k) # {} <=> (\E y \in N : LayOf(y, k)) \/ Lays(t, k) # {}
        /\ Gets(c, k) # {} <=> (\E y \in N : GetOf(y, k)) \/ Gets(t, k) # {}
        /\ Ends(c, k) # {} <=> (\E y \in N : EndOf(y, k)) \/ Ends(t, k) # {}
    BY <2>1, SplitSome
  <2>. QED  BY <2>2 DEF N, c
<1>8. ASSUME NEW k
      PROVE  /\ Outs(d, k) # {} <=> (\E y \in X : OutOf(y, k)) \/ Outs(t, k) # {}
             /\ Early(d, k) # {} <=> (\E y \in X : EarlyOf(y, k)) \/ Early(t, k) # {}
             /\ Lays(d, k) # {} <=> (\E y \in X : LayOf(y, k)) \/ Lays(t, k) # {}
             /\ Gets(d, k) # {} <=> (\E y \in X : GetOf(y, k)) \/ Gets(t, k) # {}
             /\ Ends(d, k) # {} <=> (\E y \in X : EndOf(y, k)) \/ Ends(t, k) # {}
  <2>1. Splits(d, X, t)
    BY <1>3 DEF Splits
  <2>. QED  BY <2>1, SplitSome
<1>9. ASSUME "exit" \notin Kinds(code[p]), n.do \in Chain
      PROVE  \A k : Early(t, k) = {} /\ Gets(t, k) = {} /\ Ends(t, k) = {}
  <2>1. Kinds(t) \cap Chain = {}
    BY <1>6, <1>9
  <2>. QED  BY <2>1, NoChain
<1>10. ASSUME "exit" \notin Kinds(code[p]), n.do \in Chain2 PROVE \A k : Outs(t, k) = {}
  <2>1. Kinds(t) \cap Chain2 = {}
    BY <1>6, <1>10
  <2>. QED  BY <2>1, NoChain
<1>11. Turn(p, n, X, t)
  BY <1>3, <1>4, <1>5, <1>7, <1>8, <1>9, <1>10 DEF Turn
<1>. QED  BY <1>1, <1>3, <1>11 DEF n

(* A turn that leaves the pipes as they are. *)
LEMMA TurnAlike ==
    ASSUME NEW p, NEW x, NEW X, NEW t, Turn(p, x, X, t), me' = me, NEW i, NEW j,
           me[p] = i => (\E y \in X : OutOf(y, j)) \/ Outs(t, j) # {} <=> OutOf(x, j) \/ Outs(t, j) # {},
           me[p] = i => (\E y \in X : EarlyOf(y, j)) \/ Early(t, j) # {}
                            <=> EarlyOf(x, j) \/ Early(t, j) # {},
           me[p] = j => (\E y \in X : LayOf(y, i)) \/ Lays(t, i) # {} <=> LayOf(x, i) \/ Lays(t, i) # {},
           me[p] = j => (\E y \in X : GetOf(y, i)) \/ Gets(t, i) # {} <=> GetOf(x, i) \/ Gets(t, i) # {},
           me[p] = j => (\E y \in X : EndOf(y, i)) \/ Ends(t, i) # {} <=> EndOf(x, i) \/ Ends(t, i) # {}
    PROVE  Alike(p, i, j)
<1>1. me'[p] = me[p] /\ (Single(code[p], i) => Single(code'[p], i))
  BY DEF Turn
<1>2. /\ Writing(p, i, j)' <=> Writing(p, i, j)
      /\ Starting(p, i, j)' <=> Starting(p, i, j)
  BY <1>1 DEF Writing, Starting, Turn
<1>3. /\ Laying(p, i, j)' <=> Laying(p, i, j)
      /\ Taking(p, i, j)' <=> Taking(p, i, j)
      /\ Ending(p, i, j)' <=> Ending(p, i, j)
  BY <1>1 DEF Laying, Taking, Ending, Turn
<1>. QED  BY <1>1, <1>2, <1>3 DEF Alike
(* The pipes after a turn that touches at most those of its user. *)
LEMMA TurnPairs ==
    ASSUME MpInv, PipeInv, NEW p \in Conns, Moves(p, code'[p]), NEW x, NEW X, NEW t, Turn(p, x, X, t),
           \A i, j \in Slots : me[p] \notin {i, j} =>
               fifo'[<<i, j>>] = fifo[<<i, j>>] /\ SameSent(i, j),
           \A i, j \in Slots :
               "exit" \notin Kinds(code[p]) /\ me[p] \in {i, j} /\ Calm(i, j) /\ Pipe(i, j)
               /\ (\A r \in Procs \ {p} : Alike(r, i, j)) => Pipe(i, j)'
    PROVE  Goods' /\ Pipes'
<1>. DEFINE d == code'[p]
<1>1. Moves(p, d)
  OBVIOUS
<1>2. "exit" \in Kinds(code[p]) => "exit" \in Kinds(d)
  BY DEF Turn
<1>3. "exit" \notin Kinds(code[p]) =>
               \A i, j \in Slots : me[p] \in {i, j} /\ Calm(i, j) /\ Pipe(i, j)
                                       /\ (\A r \in Procs \ {p} : Alike(r, i, j)) => Pipe(i, j)'
  OBVIOUS
<1>. HIDE DEF d
<1>. QED  BY <1>1, <1>2, <1>3, ByPairs

LEMMA TurnEnds ==
    ASSUME MpInv, PipeInv, NEW p \in Conns, Moves(p, code'[p]), NEW x, NEW X, NEW t, Turn(p, x, X, t),
           fifo' = fifo, opened' = opened, ffds' = ffds,
           Table', \A i, j \in Slots : SameSent(i, j),
           \A i, j \in Slots :
               "exit" \notin Kinds(code[p]) /\ me[p] \in {i, j} /\ Calm(i, j) /\ Pipe(i, j)
               /\ (\A r \in Procs \ {p} : Alike(r, i, j)) => Pipe(i, j)'
    PROVE  PipeInv'
<1>1. Goods' /\ Pipes'
  BY TurnPairs
<1>. QED  BY <1>1, FilesSame DEF PipeInv

(* ">n" and "<n" before they touch anything. *)
LEMMA ExistsPipes ==
    ASSUME MpInv, SlotInv, PipeInv, NEW p \in Procs, out_exists(p) \/ in_exists(p)
    PROVE  PipeInv'
<1>. DEFINE i == Now(p).to
            e == "exit" \in Kinds(code[p])
<1>1. /\ Alive(p) /\ Now(p).do \in {"out_exists", "in_exists"}
      /\ UNCHANGED <<all_clients, me, fifo, opened, ffds>>
  BY DEF out_exists, in_exists, At, Now, shared
<1>2. Now(p).do \in PipeOps /\ Now(p).do \in Chain \cap Chain2
  BY <1>1 DEF PipeOps, Chain, Chain2
<1>3. p \in Conns /\ i \in Slots /\ Fits(p, me[p], Now(p), e)
  <2>1. p \in Conns /\ Fits(p, me[p], Now(p), e)
    BY <1>1, <1>2, Leaver
  <2>. QED  BY <1>1, <2>1 DEF Fits
<1>4. \E s, X : /\ Part(s, X) /\ Continue(p, s)
                /\ \A x \in X : Fits(p, me[p], x, e) /\ x.do \notin Tokens
  <2>1. Part(<<>>, {})
    BY PartNone
  <2>2. CASE out_exists(p)
    <3>. DEFINE x == On("out_fifo", i)
    <3>1. Continue(p, IF all_clients[i].uid THEN <<x>> ELSE <<>>)
      BY <2>2 DEF out_exists, Leave
    <3>2. x.do = "out_fifo" /\ x.to = i
      BY DEF On
    <3>. HIDE DEF x, i
    <3>3. /\ x.do \in Special /\ x.do \notin MasterOps \cup {"mkfifo", "set_sent"} /\ x.do \notin Tokens
      BY <3>2 DEF Special, PipeOps, Chain, Chain2, MasterOps, Tokens
    <3>4. Fits(p, me[p], x, e)
      BY <1>3, <3>2 DEF Fits, LeaveOps
    <3>5. Part(<<x>>, {x})
      BY <3>3, PartSpecial
    <3>. HIDE DEF e
    <3>6. CASE all_clients[i].uid
      <4>1. Continue(p, <<x>>)
        BY <3>1, <3>6
      <4>. QED  BY <3>3, <3>4, <3>5, <4>1
    <3>7. CASE ~all_clients[i].uid
      <4>1. Continue(p, <<>>)
        BY <3>1, <3>7
      <4>. QED  BY <2>1, <4>1
    <3>. QED  BY <3>6, <3>7
  <2>3. CASE in_exists(p)
    <3>. DEFINE x == [do |-> "in_fifo", to |-> i, bad |-> Now(p).bad]
    <3>1. Continue(p, IF all_clients[i].uid THEN <<x>> ELSE <<>>) /\ Now(p).do = "in_exists"
      BY <2>3 DEF in_exists, Leave, At, Now
    <3>2. x.do = "in_fifo" /\ x.to = i /\ x.bad = Now(p).bad
      OBVIOUS
    <3>0. x.bad => "badfile" \in Menu
      BY <1>3, <3>1, <3>2 DEF Fits
    <3>. HIDE DEF x, i
    <3>3. /\ x.do \in Special /\ x.do \notin MasterOps \cup {"mkfifo", "set_sent"} /\ x.do \notin Tokens
      BY <3>2 DEF Special, PipeOps, Chain, Chain2, MasterOps, Tokens
    <3>4. Fits(p, me[p], x, e)
      BY <1>3, <3>0, <3>2 DEF Fits, LeaveOps
    <3>5. Part(<<x>>, {x})
      BY <3>3, PartSpecial
    <3>. HIDE DEF e
    <3>6. CASE all_clients[i].uid
      <4>1. Continue(p, <<x>>)
        BY <3>1, <3>6
      <4>. QED  BY <3>3, <3>4, <3>5, <4>1
    <3>7. CASE ~all_clients[i].uid
      <4>1. Continue(p, <<>>)
        BY <3>1, <3>7
      <4>. QED  BY <2>1, <4>1
    <3>. QED  BY <3>6, <3>7
  <2>. QED  BY <2>2, <2>3
<1>5. PICK s, X : /\ Part(s, X) /\ Continue(p, s)
                  /\ \A x \in X : Fits(p, me[p], x, e) /\ x.do \notin Tokens
  BY <1>4
<1>6. (\A x \in X : Fits(p, me[p], x, "exit" \in Kinds(code[p]))) /\ me' = me
  BY <1>1, <1>5
<1>. HIDE DEF i, e
<1>7. Moves(p, code'[p]) /\ \E t : Turn(p, Now(p), X, t)
  BY <1>1, <1>2, <1>5, <1>6, TokTurn
<1>8. PICK t : Turn(p, Now(p), X, t)
  BY <1>7
<1>9. TableKept
  BY <1>1, TableSame DEF PipeInv
<1>10. Table' /\ \A k, j \in Slots : SameSent(k, j)
  BY <1>9, TableKeptIs DEF PipeInv
<1>11. ASSUME "exit" \notin Kinds(code[p]), NEW k \in Slots, NEW j \in Slots,
              me[p] \in {k, j}, Calm(k, j), Pipe(k, j), \A r \in Procs \ {p} : Alike(r, k, j)
       PROVE  Pipe(k, j)'
  <2>1. \A h : ~OutOf(Now(p), h) /\ ~EarlyOf(Now(p), h) /\ ~LayOf(Now(p), h)
               /\ ~GetOf(Now(p), h) /\ ~EndOf(Now(p), h)
    BY <1>1 DEF OutOf, EarlyOf, LayOf, GetOf, EndOf
  <2>2. \A y \in X : \A h : ~OutOf(y, h) /\ ~EarlyOf(y, h) /\ ~LayOf(y, h) /\ ~GetOf(y, h) /\ ~EndOf(y, h)
    BY <1>5 DEF OutOf, EarlyOf, LayOf, GetOf, EndOf, Tokens
  <2>3. Alike(p, k, j)
    BY <1>1, <1>8, <2>1, <2>2, TurnAlike
  <2>4. \A r \in Procs : Alike(r, k, j)
    BY <1>11, <2>3
  <2>. QED  BY <1>1, <1>10, <1>11, <2>4, PairStill
<1>. QED  BY <1>1, <1>3, <1>7, <1>8, <1>10, <1>11, TurnEnds

LEMMA OutFifoPipes ==
    ASSUME MpInv, SlotInv, PipeInv, NEW p \in Procs, OutFifo(p)
    PROVE  PipeInv'
<1>. DEFINE v == Now(p).to
            u == me[p]
            y == On("set_sender", v)
            e == "exit" \in Kinds(code[p])
<1>1. /\ Alive(p) /\ Now(p).do = "out_fifo"
      /\ UNCHANGED <<all_clients, me, fifo, opened, ffds>>
  BY DEF OutFifo, At, Now, shared
<1>2. Now(p).do \in PipeOps /\ Now(p).do \in Chain \cap Chain2
  BY <1>1 DEF PipeOps, Chain, Chain2
<1>3. p \in Conns /\ v \in Slots /\ u \in Slots
  <2>1. p \in Conns /\ Fits(p, me[p], Now(p), e) /\ u \in Slots
    BY <1>1, <1>2, Leaver
  <2>. QED  BY <1>1, <2>1 DEF Fits
<1>4. y.do = "set_sender" /\ y.to = v
  BY DEF On
<1>5. Continue(p, IF fifo[<<u, v>>] # 0 THEN <<>> ELSE Peek \o Peek \o Section(y))
  BY DEF OutFifo, Plain
<1>. HIDE DEF y, v, u, e
<1>6. y.do \in Special /\ y.do \notin MasterOps \cup {"mkfifo", "set_sent"}
  BY <1>4 DEF Special, PipeOps, Chain, Chain2, MasterOps
<1>7. Part(<<>>, {}) /\ Part(Peek \o Peek \o Section(y), {y})
  <2>1. Part(<<y>>, {y})
    BY <1>6, PartSpecial
  <2>2. Part(Section(y), {y}) /\ Part(Peek \o Peek, {})
    BY <2>1, PartSection, PartPeek, PartBefore
  <2>. QED  BY <2>2, PartBefore, PartNone
<1>8. PICK s, X : /\ Part(s, X) /\ Continue(p, s)
                  /\ X = {} \/ (X = {y} /\ fifo[<<u, v>>] = 0)
  BY <1>5, <1>7
<1>9. \A x \in X : Fits(p, me[p], x, "exit" \in Kinds(code[p]))
  BY <1>3, <1>4, <1>8 DEF Fits, LeaveOps
<1>10. Moves(p, code'[p]) /\ \E t : Turn(p, Now(p), X, t)
  BY <1>1, <1>2, <1>8, <1>9, TokTurn
<1>11. PICK t : Turn(p, Now(p), X, t)
  BY <1>10
<1>12. TableKept
  BY <1>1, TableSame DEF PipeInv
<1>13. Table' /\ \A k, j \in Slots : SameSent(k, j)
  BY <1>12, TableKeptIs DEF PipeInv
<1>14. ASSUME "exit" \notin Kinds(code[p]), NEW i \in Slots, NEW j \in Slots,
              me[p] \in {i, j}, Calm(i, j), Pipe(i, j), \A r \in Procs \ {p} : Alike(r, i, j)
       PROVE  Pipe(i, j)'
  <2>1. \A h : ~OutOf(Now(p), h) /\ ~EarlyOf(Now(p), h) /\ ~LayOf(Now(p), h)
               /\ ~GetOf(Now(p), h) /\ ~EndOf(Now(p), h)
    BY <1>1 DEF OutOf, EarlyOf, LayOf, GetOf, EndOf
  <2>2. \A x \in X : \A h : /\ ~LayOf(x, h) /\ ~GetOf(x, h) /\ ~EndOf(x, h)
                            /\ h # v => ~OutOf(x, h) /\ ~EarlyOf(x, h)
    BY <1>4, <1>8 DEF OutOf, EarlyOf, LayOf, GetOf, EndOf
  <2>3. CASE X = {} \/ u # i \/ v # j
    <3>1. me[p] = i => \A x \in X : ~OutOf(x, j) /\ ~EarlyOf(x, j)
      BY <2>2, <2>3 DEF u
    <3>2. Alike(p, i, j)
      BY <1>1, <1>11, <2>1, <2>2, <3>1, TurnAlike
    <3>3. \A r \in Procs : Alike(r, i, j)
      BY <1>14, <3>2
    <3>. QED  BY <1>1, <1>13, <1>14, <3>3, PairStill
  <2>4. CASE X # {} /\ u = i /\ v = j
    <3>1. fifo[<<i, j>>] = 0 /\ fifo'[<<i, j>>] = 0
      BY <1>1, <1>8, <2>4
    <3>2. ~Filed(i, j) /\ ~Filed(i, j)'
      BY <1>13, <1>14, <3>1 DEF Pipe, Filed, SameSent
    <3>3. \A r \in Procs : ~Taking(r, i, j) /\ ~Laying(r, i, j) /\ ~Ending(r, i, j)
      BY <1>14, <3>1 DEF Pipe
    <3>4. me'[p] = j => Single(code'[p], i)
      BY <1>1, <1>11, <1>14 DEF Pipe, Turn
    <3>5. ~Taking(p, i, j)' /\ ~Laying(p, i, j)' /\ ~Ending(p, i, j)'
      <4>1. ~(\E x \in X : LayOf(x, i)) /\ ~(\E x \in X : GetOf(x, i)) /\ ~(\E x \in X : EndOf(x, i))
        BY <2>2
      <4>. QED  BY <1>1, <1>11, <2>1, <3>3, <4>1 DEF Turn, Taking, Laying, Ending
    <3>. QED  BY <1>14, <3>1, <3>2, <3>3, <3>4, <3>5, PairBy
  <2>. QED  BY <2>3, <2>4
<1>. QED  BY <1>1, <1>3, <1>10, <1>11, <1>13, <1>14, TurnEnds
LEMMA OneLen ==
    ASSUME NEW n \in Nat, NEW k \in Nat, 1..n = 1..k
    PROVE  n = k
<1>1. n > 0 => n \in 1..k
  OBVIOUS
<1>2. k > 0 => k \in 1..n
  OBVIOUS
<1>. QED  BY <1>1, <1>2

LEMMA PartSetUp ==
    ASSUME NEW i, NEW k, NEW o, k.do = "kill_usr2", o.do = "open_write", o.to = i
    PROVE  \E X : /\ Part(<<On("mkfifo", i)>> \o Section(k) \o <<o>> \o broadcast \o <<Do("job")>>, X)
                  /\ X = {On("mkfifo", i), o}
<1>. DEFINE a == On("mkfifo", i)
            w == Do("wait")
            s == <<a>> \o Section(k) \o <<o>>
<1>1. a.do = "mkfifo" /\ a.to = i /\ w.do = "wait"
  BY DEF On, Do
<1>2. /\ k.do \notin Special /\ w.do \notin Special
      /\ a.do \in Special /\ o.do \in Special /\ o.do \notin MasterOps \cup {"mkfifo", "set_sent"}
      /\ a.do \notin MasterOps /\ Do("job").do \notin Special
  BY <1>1 DEF Do, Special, PipeOps, Chain, Chain2, LeaveOps, MasterOps
<1>3. Section(k) = <<w, k>>
  BY DEF Section
<1>. HIDE DEF a, w
<1>. DEFINE l == <<a>>
            m == <<w, k>>
            n == <<o>>
<1>4. /\ IsSeq(l) /\ DOMAIN l = 1..1 /\ l[1] = a
      /\ IsSeq(m) /\ DOMAIN m = 1..2 /\ m[1] = w /\ m[2] = k
      /\ IsSeq(n) /\ DOMAIN n = 1..1 /\ n[1] = o
  <2>1. l \in Seq({a}) /\ DOMAIN l = 1..1 /\ l[1] = a
    OBVIOUS
  <2>2. m \in Seq({w, k}) /\ DOMAIN m = 1..2 /\ m[1] = w /\ m[2] = k
    OBVIOUS
  <2>3. n \in Seq({o}) /\ DOMAIN n = 1..1 /\ n[1] = o
    OBVIOUS
  <2>. HIDE DEF l, m, n
  <2>. QED  BY <2>1, <2>2, <2>3, SeqIs
<1>5. s = (l \o m) \o n
  BY <1>3
<1>. HIDE DEF l, m, n, s
<1>20. /\ IsSeq(l \o m) /\ DOMAIN (l \o m) = 1..3
       /\ (l \o m)[1] = a /\ (l \o m)[2] = w /\ (l \o m)[3] = k
  <2>0. IsSeq(l) /\ IsSeq(m)
    BY <1>4
  <2>1. /\ IsSeq(l \o m)
        /\ Len(l) \in Nat /\ Len(m) \in Nat
        /\ DOMAIN l = 1..Len(l) /\ DOMAIN m = 1..Len(m)
        /\ DOMAIN (l \o m) = 1..Len(l)+Len(m)
        /\ \A j \in 1..Len(l) : (l \o m)[j] = l[j]
        /\ \A j \in 1..Len(m) : (l \o m)[Len(l)+j] = m[j]
    BY <2>0, Concat
  <2>2. Len(l) = 1 /\ Len(m) = 2
    <3>. DEFINE x == Len(l)
                y == Len(m)
    <3>1. 1..x = 1..1 /\ 1..y = 1..2 /\ x \in Nat /\ y \in Nat
      BY <1>4, <2>1
    <3>. HIDE DEF x, y
    <3>2. x = 1 /\ y = 2
      BY <3>1, OneLen
    <3>. QED  BY <3>2 DEF x, y
  <2>3. 1 \in 1..1 /\ 1 \in 1..2 /\ 2 \in 1..2 /\ 1 + 1 = 2 /\ 1 + 2 = 3
    OBVIOUS
  <2>. QED  BY <1>4, <2>1, <2>2, <2>3
<1>6. IsSeq(s) /\ DOMAIN s = 1..4 /\ s[1] = a /\ s[2] = w /\ s[3] = k /\ s[4] = o
  <2>. DEFINE r == l \o m
  <2>0. IsSeq(r) /\ DOMAIN r = 1..3 /\ r[1] = a /\ r[2] = w /\ r[3] = k /\ s = r \o n
    BY <1>5, <1>20
  <2>. HIDE DEF r
  <2>5. IsSeq(r) /\ IsSeq(n)
    BY <1>4, <2>0
  <2>1. /\ IsSeq(r \o n)
        /\ Len(r) \in Nat /\ Len(n) \in Nat
        /\ DOMAIN r = 1..Len(r) /\ DOMAIN n = 1..Len(n)
        /\ DOMAIN (r \o n) = 1..Len(r)+Len(n)
        /\ \A j \in 1..Len(r) : (r \o n)[j] = r[j]
        /\ \A j \in 1..Len(n) : (r \o n)[Len(r)+j] = n[j]
    BY <2>5, Concat
  <2>2. Len(r) = 3 /\ Len(n) = 1
    <3>. DEFINE x == Len(r)
                y == Len(n)
    <3>1. 1..x = 1..3 /\ 1..y = 1..1 /\ x \in Nat /\ y \in Nat
      BY <1>4, <2>0, <2>1
    <3>. HIDE DEF x, y
    <3>2. x = 3 /\ y = 1
      BY <3>1, OneLen
    <3>. QED  BY <3>2 DEF x, y
  <2>3. /\ 1 \in 1..3 /\ 2 \in 1..3 /\ 3 \in 1..3 /\ 1 \in 1..1 /\ 3 + 1 = 4
    OBVIOUS
  <2>. QED  BY <1>4, <2>0, <2>1, <2>2, <2>3
<1>7. 1..4 = {1, 2, 3, 4}
  OBVIOUS
<1>8. Ins(s) = {a, w, k, o} /\ Kinds(s) = {a.do, w.do, k.do, o.do}
  BY <1>6, <1>7 DEF Ins, Kinds
<1>9. Spc(s) = {a, o}
  BY <1>2, <1>8 DEF Spc
<1>10. a.do \notin Chain2 /\ o.do \notin Chain /\ w.do \notin PipeOps /\ k.do \notin PipeOps
  BY <1>1, <1>2, SpecialOps
<1>11. Once(s, Chain)
  <2>1. \A j \in 1..4 : s[j].do \in Chain => j = 1
    BY <1>6, <1>7, <1>10, SpecialOps
  <2>. QED  BY <1>6, <2>1 DEF Once
<1>12. Once(s, Chain2)
  <2>1. \A j \in 1..4 : s[j].do \in Chain2 => j = 4
    BY <1>6, <1>7, <1>10, SpecialOps
  <2>. QED  BY <1>6, <2>1 DEF Once
<1>13. Prepared(s)
  <2>1. \A j \in 1..4 : s[j].do = "mkfifo" => j = 1
    BY <1>1, <1>6, <1>7
  <2>2. 1 + 3 = 4 /\ 4 \in 1..4
    OBVIOUS
  <2>. QED  BY <1>1, <1>6, <2>1, <2>2 DEF Prepared
<1>14. Kinds(s) \cap (MasterOps \cup {"set_sent"}) = {}
  BY <1>1, <1>2, <1>8, SpecialOps
<1>15. Part(s, {a, o})
  BY <1>6, <1>9, <1>11, <1>12, <1>13, <1>14 DEF Part
<1>16. Part(broadcast, {}) /\ Part(<<Do("job")>>, {})
  BY <1>2, PartBroadcast, PartPlain
<1>17. Part(s \o broadcast, {a, o})
  BY <1>15, <1>16, PartBefore
<1>18. Part(s \o broadcast \o <<Do("job")>>, {a, o})
  BY <1>16, <1>17, PartBefore
<1>. QED  BY <1>5, <1>3, <1>18 DEF l, m, n, s, a

LEMMA SetSenderPipes ==
    ASSUME MpInv, SlotInv, PipeInv, NEW p \in Procs, SetSender(p)
    PROVE  PipeInv'
<1>. DEFINE v == Now(p).to
            k == [do |-> "kill_usr2", pid |-> all_clients[v].pid]
            o == [do |-> "open_write", to |-> v, pid |-> all_clients[v].pid]
            a == On("mkfifo", v)
            e == "exit" \in Kinds(code[p])
<1>1. /\ Alive(p) /\ Now(p).do = "set_sender"
      /\ UNCHANGED <<me, fifo, opened, ffds>>
  BY DEF SetSender, At, Now, local
<1>2. Now(p).do \in PipeOps /\ Now(p).do \in Chain \cap Chain2
  BY <1>1 DEF PipeOps, Chain, Chain2
<1>3. p \in Conns /\ v \in Slots
  <2>1. p \in Conns /\ Fits(p, me[p], Now(p), e)
    BY <1>1, <1>2, Leaver
  <2>. QED  BY <1>1, <2>1 DEF Fits
<1>4. Continue(p, <<a>> \o Section(k) \o <<o>> \o broadcast \o <<Do("job")>>)
  BY DEF SetSender, Leave
<1>5. k.do = "kill_usr2" /\ o.do = "open_write" /\ o.to = v /\ a.do = "mkfifo" /\ a.to = v
  BY DEF On
<1>. HIDE DEF k, o, e
<1>6. \E X : /\ Part(<<a>> \o Section(k) \o <<o>> \o broadcast \o <<Do("job")>>, X)
             /\ X = {a, o}
  BY <1>5, PartSetUp
<1>. HIDE DEF a, v
<1>7. PICK s, X : Part(s, X) /\ Continue(p, s) /\ X = {a, o}
  BY <1>4, <1>6
<1>8. \A x \in X : Fits(p, me[p], x, "exit" \in Kinds(code[p]))
  BY <1>3, <1>5, <1>7 DEF Fits, LeaveOps
<1>9. Moves(p, code'[p]) /\ \E t : Turn(p, Now(p), X, t)
  BY <1>1, <1>2, <1>7, <1>8, TokTurn
<1>10. PICK t : Turn(p, Now(p), X, t)
  BY <1>9
<1>11. TableKept
  BY OtherWrites DEF PipeInv
<1>12. Table' /\ \A h, j \in Slots : SameSent(h, j)
  BY <1>11, TableKeptIs DEF PipeInv
<1>13. \A h : /\ OutOf(Now(p), h) <=> h = v
              /\ EarlyOf(Now(p), h) <=> h = v
              /\ ~LayOf(Now(p), h) /\ ~GetOf(Now(p), h) /\ ~EndOf(Now(p), h)
  BY <1>1 DEF OutOf, EarlyOf, LayOf, GetOf, EndOf, v
<1>14. \A h : /\ (\E x \in X : OutOf(x, h)) <=> h = v
              /\ (\E x \in X : EarlyOf(x, h)) <=> h = v
              /\ ~(\E x \in X : LayOf(x, h)) /\ ~(\E x \in X : GetOf(x, h)) /\ ~(\E x \in X : EndOf(x, h))
  BY <1>5, <1>7 DEF OutOf, EarlyOf, LayOf, GetOf, EndOf
<1>15. ASSUME "exit" \notin Kinds(code[p]), NEW i \in Slots, NEW j \in Slots,
              me[p] \in {i, j}, Calm(i, j), Pipe(i, j), \A r \in Procs \ {p} : Alike(r, i, j)
       PROVE  Pipe(i, j)'
  <2>1. Alike(p, i, j)
    BY <1>1, <1>10, <1>13, <1>14, TurnAlike
  <2>2. \A r \in Procs : Alike(r, i, j)
    BY <1>15, <2>1
  <2>. QED  BY <1>1, <1>12, <1>15, <2>2, PairStill
<1>. QED  BY <1>1, <1>3, <1>9, <1>10, <1>12, <1>15, TurnEnds

LEMMA MkFifoPipes ==
    ASSUME MpInv, SlotInv, PipeInv, NEW p \in Procs, MkFifo(p)
    PROVE  PipeInv'
<1>. DEFINE u == me[p]
            v == Now(p).to
            e == "exit" \in Kinds(code[p])
<1>1. /\ Alive(p) /\ Now(p).do = "mkfifo" /\ Continue(p, <<>>)
      /\ UNCHANGED <<all_clients, me, ffds>>
  BY DEF MkFifo, At, Now, local, Plain
<1>2. Now(p).do \in PipeOps /\ Now(p).do \in Chain
  BY <1>1 DEF PipeOps, Chain
<1>3. p \in Conns /\ u \in Slots /\ v \in Slots
  <2>1. p \in Conns /\ Fits(p, me[p], Now(p), e) /\ u \in Slots
    BY <1>1, <1>2, Leaver
  <2>. QED  BY <1>1, <2>1 DEF Fits
<1>4. \/ fifo[<<u, v>>] # 0 /\ fifo' = fifo /\ opened' = opened
      \/ fifo[<<u, v>>] = 0 /\ opened' = opened + 1 /\ fifo' = [fifo EXCEPT ![<<u, v>>] = opened + 1]
  BY DEF MkFifo
<1>. HIDE DEF u, v, e
<1>5. /\ opened \in Nat /\ opened + 1 \in Nat /\ opened + 1 # 0
      /\ fifo \in [Slots \X Slots -> Nat] /\ <<u, v>> \in Slots \X Slots
  BY <1>3 DEF PipeInv, Files
<1>6. /\ opened' \in Nat /\ fifo' \in [Slots \X Slots -> Nat]
      /\ \A i, j \in Slots : u # i \/ v # j => fifo'[<<i, j>>] = fifo[<<i, j>>]
      /\ fifo'[<<u, v>>] # 0
  <2>1. CASE fifo' = fifo /\ opened' = opened /\ fifo[<<u, v>>] # 0
    BY <1>5, <2>1
  <2>2. CASE opened' = opened + 1 /\ fifo' = [fifo EXCEPT ![<<u, v>>] = opened + 1]
    <3>. DEFINE n == opened + 1
    <3>1. n \in Nat /\ n # 0 /\ opened' = n /\ fifo' = [fifo EXCEPT ![<<u, v>>] = n]
      BY <1>5, <2>2
    <3>. HIDE DEF n
    <3>2. \A i, j \in Slots : u # i \/ v # j => <<i, j>> # <<u, v>> /\ <<i, j>> \in Slots \X Slots
      OBVIOUS
    <3>. QED  BY <1>5, <3>1, <3>2
  <2>. QED  BY <1>4, <2>1, <2>2
<1>7. Files'
  BY <1>1, <1>6 DEF PipeInv, Files
<1>8. Part(<<>>, {}) /\ \A x \in {} : Fits(p, me[p], x, "exit" \in Kinds(code[p]))
  BY PartNone
<1>9. Moves(p, code'[p]) /\ \E t : Turn(p, Now(p), {}, t)
  BY <1>1, <1>2, <1>8, TokTurn
<1>10. PICK t : Turn(p, Now(p), {}, t)
  BY <1>9
<1>11. TableKept
  BY <1>1, TableSame DEF PipeInv
<1>12. Table' /\ \A h, j \in Slots : SameSent(h, j)
  BY <1>11, TableKeptIs DEF PipeInv
<1>13. \A h : /\ EarlyOf(Now(p), h) <=> h = v
              /\ ~OutOf(Now(p), h) /\ ~LayOf(Now(p), h) /\ ~GetOf(Now(p), h) /\ ~EndOf(Now(p), h)
  BY <1>1 DEF OutOf, EarlyOf, LayOf, GetOf, EndOf, v
<1>14. Outs(code'[p], v) # {}
  <2>1. /\ IsSeq(code[p]) /\ code[p] # <<>> /\ DOMAIN code = Procs /\ Now(p) = code[p][1]
        /\ Prepared(code[p])
    BY <1>1, CodeAt DEF PipeInv, Goods, Good
  <2>2. \E x \in Spc(Tail(code[p])) : x.do = "open_write" /\ x.to = v
    BY <1>1, <2>1, Popped DEF v
  <2>. DEFINE d == Tail(code[p])
  <2>3. IsSeq(d) /\ code'[p] = <<>> \o d
    BY <1>1, <2>1, HeadTail, Zenon DEF Continue
  <2>. HIDE DEF d
  <2>4. code'[p] = d
    BY <2>3 DEF IsSeq
  <2>. QED  BY <2>2, <2>4 DEF Outs, d
<1>15. ASSUME "exit" \notin Kinds(code[p]), NEW i \in Slots, NEW j \in Slots,
              me[p] \in {i, j}, Calm(i, j), Pipe(i, j), \A r \in Procs \ {p} : Alike(r, i, j)
       PROVE  Pipe(i, j)'
  <2>1. CASE u # i \/ v # j
    <3>1. Alike(p, i, j)
      BY <1>1, <1>10, <1>13, <2>1, TurnAlike DEF u
    <3>2. \A r \in Procs : Alike(r, i, j)
      BY <1>15, <3>1
    <3>. QED  BY <1>6, <1>12, <1>15, <2>1, <3>2, PairStill, Zenon
  <2>2. CASE u = i /\ v = j
    <3>1. Early(code[p], j) # {} /\ Early(code'[p], j) = {}
      BY <1>2, <1>10, <1>13, <1>15, <2>2 DEF Turn, EarlyOf
    <3>2. Starting(p, i, j) /\ ~Starting(p, i, j)' /\ Writing(p, i, j)'
      BY <1>1, <1>3, <1>14, <2>2, <3>1 DEF Starting, Writing, u
    <3>3. fifo[<<i, j>>] = 0 /\ fifo'[<<i, j>>] # 0
      BY <1>6, <1>15, <2>2, <3>2 DEF Pipe
    <3>4. ~Filed(i, j) /\ ~Filed(i, j)'
      BY <1>12, <1>15, <3>3 DEF Pipe, Filed, SameSent
    <3>5. \A r \in Procs : ~Taking(r, i, j) /\ ~Laying(r, i, j) /\ ~Ending(r, i, j)
      BY <1>15, <3>3 DEF Pipe
    <3>6. \A r \in Procs \ {p} : ~Starting(r, i, j)
      <4>. SUFFICES ASSUME NEW r \in Procs, Starting(r, i, j) PROVE r = p
        OBVIOUS
      <4>1. r \in Conns /\ me[r] = me[p]
        BY <2>2 DEF Starting, u
      <4>. QED  BY <1>3, <1>15, <4>1, OneServer
    <3>7. me'[p] = j => Single(code'[p], i)
      BY <1>1, <1>10, <1>15 DEF Pipe, Turn
    <3>8. ~Taking(p, i, j)' /\ ~Laying(p, i, j)' /\ ~Ending(p, i, j)'
      BY <1>1, <1>10, <1>13, <3>5, Zenon DEF Turn, Taking, Laying, Ending
    <3>. QED  BY <1>15, <3>2, <3>3, <3>4, <3>5, <3>6, <3>7, <3>8, PairBy
  <2>. QED  BY <2>1, <2>2
<1>16. \A i, j \in Slots : me[p] \notin {i, j} =>
               fifo'[<<i, j>>] = fifo[<<i, j>>] /\ SameSent(i, j)
  BY <1>6, <1>12 DEF u
<1>17. Goods' /\ Pipes'
  BY <1>3, <1>9, <1>10, <1>15, <1>16, TurnPairs
<1>. QED  BY <1>7, <1>12, <1>17 DEF PipeInv
LEMMA InFifoPipes ==
    ASSUME MpInv, SlotInv, PipeInv, NEW p \in Procs, InFifo(p)
    PROVE  PipeInv'
<1>. DEFINE v == Now(p).to
            u == me[p]
            y == [do |-> "take_fd", to |-> v, bad |-> Now(p).bad]
            e == "exit" \in Kinds(code[p])
<1>1. /\ Alive(p) /\ Now(p).do = "in_fifo"
      /\ UNCHANGED <<all_clients, me, fifo, opened, ffds>>
  BY DEF InFifo, At, Now, shared
<1>2. Now(p).do \in PipeOps /\ Now(p).do \in Chain \cap Chain2
  BY <1>1 DEF PipeOps, Chain, Chain2
<1>3. /\ p \in Conns /\ v \in Slots
      /\ y.do = "take_fd" /\ y.to = v /\ (y.bad => "badfile" \in Menu)
  <2>1. p \in Conns /\ Fits(p, me[p], Now(p), e)
    BY <1>1, <1>2, Leaver
  <2>2. v \in Slots /\ (Now(p).bad => "badfile" \in Menu)
    BY <1>1, <2>1 DEF Fits
  <2>. QED  BY <2>1, <2>2
<1>4. Continue(p, IF fifo[<<v, u>>] = 0 THEN <<>> ELSE Section(y))
  BY DEF InFifo, Plain
<1>. HIDE DEF y, v, u, e
<1>5. y.do \in Special /\ y.do \notin MasterOps \cup {"mkfifo", "set_sent"}
  BY <1>3 DEF Special, PipeOps, Chain, Chain2, MasterOps
<1>6. Part(<<>>, {}) /\ Part(Section(y), {y})
  BY <1>5, PartNone, PartSpecial, PartSection, Zenon
<1>7. PICK s, X : /\ Part(s, X) /\ Continue(p, s)
                  /\ X = {} \/ (X = {y} /\ fifo[<<v, u>>] # 0)
  <2>1. CASE fifo[<<v, u>>] = 0
    BY <1>4, <1>6, <2>1
  <2>2. CASE fifo[<<v, u>>] # 0
    BY <1>4, <1>6, <2>2
  <2>. QED  BY <2>1, <2>2
<1>8. \A x \in X : Fits(p, me[p], x, "exit" \in Kinds(code[p]))
  BY <1>3, <1>7 DEF Fits, LeaveOps
<1>9. Moves(p, code'[p]) /\ \E t : Turn(p, Now(p), X, t)
  BY <1>1, <1>2, <1>7, <1>8, TokTurn
<1>10. PICK t : Turn(p, Now(p), X, t)
  BY <1>9
<1>11. TableKept
  BY <1>1, TableSame DEF PipeInv
<1>12. Table' /\ \A h, j \in Slots : SameSent(h, j)
  BY <1>11, TableKeptIs DEF PipeInv
<1>13. \A h : /\ ~OutOf(Now(p), h) /\ ~EarlyOf(Now(p), h) /\ ~LayOf(Now(p), h)
              /\ ~GetOf(Now(p), h) /\ ~EndOf(Now(p), h)
  BY <1>1 DEF OutOf, EarlyOf, LayOf, GetOf, EndOf
<1>14. \A h : /\ ~(\E x \in X : OutOf(x, h)) /\ ~(\E x \in X : EarlyOf(x, h))
              /\ ~(\E x \in X : LayOf(x, h)) /\ ~(\E x \in X : EndOf(x, h))
              /\ (\E x \in X : GetOf(x, h)) => h = v /\ fifo[<<v, u>>] # 0
  BY <1>3, <1>7 DEF OutOf, EarlyOf, LayOf, GetOf, EndOf
<1>15. ASSUME "exit" \notin Kinds(code[p]), NEW i \in Slots, NEW j \in Slots,
              me[p] \in {i, j}, Calm(i, j), Pipe(i, j), \A r \in Procs \ {p} : Alike(r, i, j)
       PROVE  Pipe(i, j)'
  <2>1. CASE u # j \/ v # i \/ fifo[<<v, u>>] = 0
    <3>1. Alike(p, i, j)
      BY <1>1, <1>10, <1>13, <1>14, <2>1, TurnAlike DEF u
    <3>2. \A r \in Procs : Alike(r, i, j)
      BY <1>15, <3>1
    <3>. QED  BY <1>1, <1>12, <1>15, <3>2, PairStill
  <2>2. CASE u = j /\ v = i /\ fifo[<<v, u>>] # 0
    <3>1. fifo[<<i, j>>] # 0 /\ fifo'[<<i, j>>] = fifo[<<i, j>>]
      BY <1>1, <2>2
    <3>2. /\ Writing(p, i, j)' <=> Writing(p, i, j)
          /\ Starting(p, i, j)' <=> Starting(p, i, j)
      BY <1>1, <1>10, <1>13, <1>14 DEF Turn, Writing, Starting
    <3>3. /\ Laying(p, i, j)' <=> Laying(p, i, j)
          /\ Ending(p, i, j)' <=> Ending(p, i, j)
      BY <1>1, <1>10, <1>13, <1>14 DEF Turn, Laying, Ending
    <3>4. me'[p] = j => Single(code'[p], i)
      BY <1>1, <1>10, <1>15 DEF Pipe, Turn
    <3>5. Filed(i, j)' <=> Filed(i, j)
      BY <1>12 DEF Filed, SameSent
    <3>6. \A r \in Procs :
              /\ ~Starting(r, i, j)
              /\ Writing(r, i, j) \/ Laying(r, i, j) \/ Ending(r, i, j) => ~Filed(i, j)
      BY <1>15, <3>1 DEF Pipe
    <3>7. \A r \in Procs :
              /\ Writing(p, i, j) => ~Laying(r, i, j) /\ ~Ending(r, i, j)
              /\ Laying(p, i, j) => ~Writing(r, i, j) /\ ~Ending(r, i, j) /\ (Laying(r, i, j) => r = p)
              /\ Ending(p, i, j) => ~Writing(r, i, j) /\ ~Laying(r, i, j)
      BY <1>15 DEF Pipe
    <3>8. \/ \E r \in Procs \ {p} : Writing(r, i, j) \/ Laying(r, i, j) \/ Ending(r, i, j)
          \/ Writing(p, i, j)' \/ Laying(p, i, j)' \/ Ending(p, i, j)'
          \/ Filed(i, j)' \/ "badfile" \in Menu
      BY <1>15, <3>1, <3>2, <3>3, <3>5 DEF Pipe
    <3>9. ~Starting(p, i, j)'
      BY <3>2, <3>6
    <3>10. Writing(p, i, j)' \/ Laying(p, i, j)' \/ Ending(p, i, j)' => ~Filed(i, j)'
      BY <3>2, <3>3, <3>5, <3>6
    <3>11. /\ Writing(p, i, j)' => ~Laying(p, i, j)' /\ ~Ending(p, i, j)'
           /\ ~(Laying(p, i, j)' /\ Ending(p, i, j)')
      BY <3>2, <3>3, <3>7
    <3>12. \A r \in Procs \ {p} :
              /\ Starting(r, i, j) => fifo'[<<i, j>>] = 0
              /\ Taking(r, i, j) \/ Laying(r, i, j) \/ Ending(r, i, j) => fifo'[<<i, j>>] # 0
              /\ Writing(r, i, j) \/ Laying(r, i, j) \/ Ending(r, i, j) => ~Filed(i, j)'
              /\ Writing(p, i, j)' => ~Laying(r, i, j) /\ ~Ending(r, i, j)
              /\ Laying(p, i, j)' => ~Writing(r, i, j) /\ ~Ending(r, i, j) /\ ~Laying(r, i, j)
              /\ Ending(p, i, j)' => ~Writing(r, i, j) /\ ~Laying(r, i, j)
      BY <3>1, <3>2, <3>3, <3>5, <3>6, <3>7
    <3>. QED  BY <1>15, <3>1, <3>4, <3>8, <3>9, <3>10, <3>11, <3>12, PairBy
  <2>. QED  BY <2>1, <2>2
<1>. QED  BY <1>1, <1>3, <1>9, <1>10, <1>12, <1>15, TurnEnds
LEMMA TakeFdPipes ==
    ASSUME MpInv, SlotInv, PipeInv, NEW p \in Procs, TakeFd(p)
    PROVE  PipeInv'
<1>. DEFINE v == Now(p).to
            u == me[p]
            b == Now(p).bad
            y == [do |-> "close_in", from |-> v, fd |-> all_clients[u].sent_fd[v]]
            e == "exit" \in Kinds(code[p])
<1>1. /\ Alive(p) /\ Now(p).do = "take_fd"
      /\ UNCHANGED <<me, fifo, opened, ffds>>
  BY DEF TakeFd, At, Now, local, files
<1>2. Now(p).do \in PipeOps /\ Now(p).do \in Chain /\ Now(p).do \in Chain2
      /\ Now(p).do \in Chain \cap Chain2
  BY <1>1 DEF PipeOps, Chain, Chain2
<1>3. /\ p \in Conns /\ v \in Slots /\ u \in Slots /\ (b => "badfile" \in Menu)
      /\ y.do = "close_in" /\ y.from = v /\ y.fd = all_clients[u].sent_fd[v]
  <2>1. p \in Conns /\ u \in Slots /\ Fits(p, me[p], Now(p), e)
    BY <1>1, <1>2, Leaver
  <2>2. v \in Slots /\ (b => "badfile" \in Menu)
    BY <1>1, <2>1 DEF Fits
  <2>. QED  BY <2>1, <2>2
<1>4. Continue(p, Peek \o Peek \o broadcast \o (IF b THEN <<>> ELSE <<y>>))
  BY DEF TakeFd, Leave
<1>5. all_clients' = [all_clients EXCEPT ![u].sent_fd[v] = -1]
  BY DEF TakeFd, Clients
<1>. HIDE DEF y, v, u, e, b
<1>6. /\ Table'
      /\ \A i, j \in Slots : i # v \/ j # u => SameSent(i, j)
      /\ all_clients'[u].sent_fd[v] = -1
  <2>1. DOMAIN all_clients = Slots /\ Table
    BY SlotFacts DEF PipeInv
  <2>. QED  BY <1>3, <1>5, <2>1 DEF Table, SameSent
<1>7. y.do \in Special /\ y.do \notin MasterOps \cup {"mkfifo", "set_sent"}
  BY <1>3 DEF Special, PipeOps, Chain, Chain2, MasterOps
<1>8. PICK s, X : /\ Part(s, X) /\ Continue(p, s)
                  /\ (b /\ X = {}) \/ (~b /\ X = {y})
  <2>. DEFINE h == Peek \o Peek \o broadcast
              l == IF b THEN <<>> ELSE <<y>>
  <2>1. Part(h, {})
    BY PartPeek, PartBroadcast, PartBefore
  <2>2. Continue(p, h \o l)
    BY <1>4
  <2>3. (b => Part(l, {})) /\ (~b => Part(l, {y}))
    BY <1>7, PartNone, PartSpecial
  <2>. HIDE DEF h, l
  <2>4. (b => Part(h \o l, {})) /\ (~b => Part(h \o l, {y}))
    BY <2>1, <2>3, PartBefore
  <2>. QED  BY <2>2, <2>4
<1>9. \A x \in X : Fits(p, me[p], x, "exit" \in Kinds(code[p]))
  BY <1>3, <1>8 DEF Fits, LeaveOps
<1>10. Moves(p, code'[p]) /\ \E t : Turn(p, Now(p), X, t)
  BY <1>1, <1>2, <1>8, <1>9, TokTurn
<1>11. PICK t : Turn(p, Now(p), X, t)
  BY <1>10
<1>12. \A h : /\ ~OutOf(Now(p), h) /\ ~EarlyOf(Now(p), h) /\ ~LayOf(Now(p), h)
              /\ ~EndOf(Now(p), h) /\ (GetOf(Now(p), h) <=> h = v)
  BY <1>1 DEF OutOf, EarlyOf, LayOf, GetOf, EndOf, v
<1>13. \A h : /\ ~(\E x \in X : OutOf(x, h)) /\ ~(\E x \in X : EarlyOf(x, h))
              /\ ~(\E x \in X : LayOf(x, h)) /\ ~(\E x \in X : GetOf(x, h))
              /\ (\E x \in X : EndOf(x, h)) <=> h = v /\ ~b /\ y.fd # -1
  BY <1>3, <1>8 DEF OutOf, EarlyOf, LayOf, GetOf, EndOf
<1>14. ASSUME "exit" \notin Kinds(code[p]), NEW i \in Slots, NEW j \in Slots,
              me[p] \in {i, j}, Calm(i, j), Pipe(i, j), \A r \in Procs \ {p} : Alike(r, i, j)
       PROVE  Pipe(i, j)'
  <2>0. \A h : Early(t, h) = {} /\ Gets(t, h) = {} /\ Ends(t, h) = {} /\ Outs(t, h) = {}
    BY <1>2, <1>11, <1>14 DEF Turn
  <2>1. CASE u # j \/ v # i
    <3>1. Alike(p, i, j)
      BY <1>1, <1>11, <1>12, <1>13, <2>1, TurnAlike DEF u
    <3>2. \A r \in Procs : Alike(r, i, j)
      BY <1>14, <3>1
    <3>. QED  BY <1>1, <1>6, <1>14, <2>1, <3>2, PairStill
  <2>2. CASE u = j /\ v = i
    <3>1. Taking(p, i, j)
      BY <1>3, <1>11, <1>12, <2>2 DEF Taking, Turn, u
    <3>2. fifo[<<i, j>>] # 0 /\ fifo'[<<i, j>>] # 0
      BY <1>1, <1>14, <3>1 DEF Pipe
    <3>3. ~Filed(i, j)' /\ (Ending(p, i, j)' <=> Filed(i, j) /\ ~b)
      <4>1. ~Filed(i, j)'
        BY <1>6, <2>2 DEF Filed
      <4>2. Filed(i, j) <=> y.fd # -1
        BY <1>3, <2>2 DEF Filed
      <4>3. Ends(code'[p], i) # {} <=> ~b /\ y.fd # -1
        BY <1>11, <1>13, <2>0, <2>2 DEF Turn
      <4>4. Ending(p, i, j)' <=> Ends(code'[p], i) # {}
        BY <1>1, <1>3, <2>2 DEF Ending, u
      <4>. QED  BY <4>1, <4>2, <4>3, <4>4
    <3>4. /\ ~Writing(p, i, j) /\ ~Starting(p, i, j) /\ ~Ending(p, i, j)
          /\ ~Writing(p, i, j)' /\ ~Starting(p, i, j)'
      BY <1>11, <1>12, <1>13, <2>0 DEF Turn, Writing, Starting, Ending
    <3>5. Laying(p, i, j)' <=> Laying(p, i, j)
      BY <1>1, <1>11, <1>12, <1>13 DEF Turn, Laying
    <3>6. me'[p] = j => Single(code'[p], i)
      BY <1>1, <1>11, <1>14 DEF Pipe, Turn
    <3>7. /\ \A r \in Procs :
              /\ ~Starting(r, i, j)
              /\ Writing(r, i, j) \/ Laying(r, i, j) \/ Ending(r, i, j) => ~Filed(i, j)
              /\ Laying(p, i, j) => ~Writing(r, i, j) /\ ~Ending(r, i, j) /\ (Laying(r, i, j) => r = p)
      BY <1>14, <3>2 DEF Pipe
    <3>8. \/ \E r \in Procs \ {p} : Writing(r, i, j) \/ Laying(r, i, j) \/ Ending(r, i, j)
          \/ Writing(p, i, j)' \/ Laying(p, i, j)' \/ Ending(p, i, j)'
          \/ Filed(i, j)' \/ "badfile" \in Menu
      <4>1. \/ \E r \in Procs : Writing(r, i, j) \/ Laying(r, i, j) \/ Ending(r, i, j)
            \/ Filed(i, j) \/ "badfile" \in Menu
        BY <1>14, <3>2 DEF Pipe
      <4>2. b => "badfile" \in Menu
        BY <1>3
      <4>. QED  BY <3>3, <3>4, <3>5, <4>1, <4>2
    <3>9. ~(Laying(p, i, j)' /\ Ending(p, i, j)')
      BY <3>3, <3>5, <3>7
    <3>10. \A r \in Procs \ {p} :
              /\ Starting(r, i, j) => fifo'[<<i, j>>] = 0
              /\ Taking(r, i, j) \/ Laying(r, i, j) \/ Ending(r, i, j) => fifo'[<<i, j>>] # 0
              /\ Writing(r, i, j) \/ Laying(r, i, j) \/ Ending(r, i, j) => ~Filed(i, j)'
              /\ Writing(p, i, j)' => ~Laying(r, i, j) /\ ~Ending(r, i, j)
              /\ Laying(p, i, j)' => ~Writing(r, i, j) /\ ~Ending(r, i, j) /\ ~Laying(r, i, j)
              /\ Ending(p, i, j)' => ~Writing(r, i, j) /\ ~Laying(r, i, j)
      BY <3>2, <3>3, <3>4, <3>5, <3>7
    <3>11. /\ Filed(i, j)' => fifo'[<<i, j>>] # 0
           /\ Starting(p, i, j)' => fifo'[<<i, j>>] = 0
           /\ Writing(p, i, j)' \/ Laying(p, i, j)' \/ Ending(p, i, j)' => ~Filed(i, j)'
           /\ Writing(p, i, j)' => ~Laying(p, i, j)' /\ ~Ending(p, i, j)'
      BY <3>3, <3>4
    <3>. QED  BY <1>14, <3>2, <3>6, <3>8, <3>9, <3>10, <3>11, PairBy
  <2>. QED  BY <2>1, <2>2
<1>15. \A i, j \in Slots : me[p] \notin {i, j} =>
               fifo'[<<i, j>>] = fifo[<<i, j>>] /\ SameSent(i, j)
  BY <1>1, <1>6 DEF u
<1>16. Goods' /\ Pipes'
  BY <1>3, <1>10, <1>11, <1>14, <1>15, TurnPairs
<1>. QED  BY <1>1, <1>6, <1>16, FilesSame DEF PipeInv

LEMMA CloseInPipes ==
    ASSUME MpInv, SlotInv, PipeInv, NEW p \in Procs, CloseIn(p)
    PROVE  PipeInv'
<1>. DEFINE v == Now(p).from
            u == me[p]
            y == Unlink(v, u)
            e == "exit" \in Kinds(code[p])
            f == Now(p).fd
<1>1. /\ Alive(p) /\ Now(p).do = "close_in"
      /\ \/ /\ f \in ffds[p] /\ ffds' = [ffds EXCEPT ![p] = @ \ {f}]
            /\ Continue(p, <<y>>) /\ UNCHANGED <<all_clients, me, fifo, opened>>
         \/ Exit(p)
  BY DEF CloseIn, At, Now, local, Plain
<1>2. Now(p).do \in PipeOps /\ Now(p).do \in Chain \cap Chain2
  BY <1>1 DEF PipeOps, Chain, Chain2
<1>3. /\ p \in Conns /\ u \in Slots
      /\ y.do = "unlink" /\ y.from = v /\ y.to = u
  BY <1>1, <1>2, Leaver DEF Unlink
<1>4. CASE Exit(p)
  BY <1>1, <1>3, <1>4, ExitPipes
<1>5. CASE /\ f \in ffds[p] /\ ffds' = [ffds EXCEPT ![p] = @ \ {f}]
           /\ Continue(p, <<y>>) /\ UNCHANGED <<all_clients, me, fifo, opened>>
  <2>. HIDE DEF y, u, e
  <2>1. Files' /\ f # -1
    <3>1. ffds \in [Procs -> SUBSET Nat]
      BY DEF PipeInv, Files
    <3>2. ffds[p] \subseteq Nat
      BY <3>1
    <3>3. f \in Nat
      BY <1>5, <3>2
    <3>. HIDE DEF f
    <3>4. ffds' \in [Procs -> SUBSET Nat]
      BY <1>5, <3>1
    <3>. QED  BY <1>5, <3>3, <3>4 DEF PipeInv, Files
  <2>2. y.do \in Special /\ y.do \notin MasterOps \cup {"mkfifo", "set_sent"}
    BY <1>3 DEF Special, PipeOps, Chain, Chain2, MasterOps
  <2>3. Part(<<y>>, {y}) /\ Continue(p, <<y>>) /\ me' = me
    BY <1>5, <2>2, PartSpecial
  <2>4. \A x \in {y} : Fits(p, me[p], x, "exit" \in Kinds(code[p]))
    BY <1>3 DEF Fits, LeaveOps, PipeOps, Chain, Chain2, u
  <2>5. Moves(p, code'[p]) /\ \E t : Turn(p, Now(p), {y}, t)
    BY <1>1, <1>2, <2>3, <2>4, TokTurn
  <2>6. PICK t : Turn(p, Now(p), {y}, t)
    BY <2>5
  <2>7. TableKept
    BY <1>5, TableSame DEF PipeInv
  <2>8. Table' /\ \A h, j \in Slots : SameSent(h, j)
    BY <2>7, TableKeptIs DEF PipeInv
  <2>9. \A h : /\ ~OutOf(Now(p), h) /\ ~EarlyOf(Now(p), h) /\ ~LayOf(Now(p), h)
               /\ ~GetOf(Now(p), h) /\ (EndOf(Now(p), h) <=> h = v)
    BY <1>1, <2>1 DEF OutOf, EarlyOf, LayOf, GetOf, EndOf
  <2>10. \A h : /\ ~(\E x \in {y} : OutOf(x, h)) /\ ~(\E x \in {y} : EarlyOf(x, h))
                /\ ~(\E x \in {y} : LayOf(x, h)) /\ ~(\E x \in {y} : GetOf(x, h))
                /\ (\E x \in {y} : EndOf(x, h)) <=> h = v
    BY <1>3 DEF OutOf, EarlyOf, LayOf, GetOf, EndOf
  <2>11. ASSUME "exit" \notin Kinds(code[p]), NEW i \in Slots, NEW j \in Slots,
                me[p] \in {i, j}, Calm(i, j), Pipe(i, j), \A r \in Procs \ {p} : Alike(r, i, j)
         PROVE  Pipe(i, j)'
    <3>1. Alike(p, i, j)
      BY <1>5, <2>6, <2>9, <2>10, TurnAlike
    <3>2. \A r \in Procs : Alike(r, i, j)
      BY <2>11, <3>1
    <3>. QED  BY <1>5, <2>8, <2>11, <3>2, PairStill
  <2>12. \A i, j \in Slots : me[p] \notin {i, j} =>
               fifo'[<<i, j>>] = fifo[<<i, j>>] /\ SameSent(i, j)
    BY <1>5, <2>8
  <2>13. Goods' /\ Pipes'
    BY <1>3, <2>5, <2>6, <2>11, <2>12, TurnPairs
  <2>. QED  BY <2>1, <2>8, <2>13 DEF PipeInv
<1>. QED  BY <1>1, <1>4, <1>5

LEMMA UnlinkPipes ==
    ASSUME MpInv, SlotInv, PipeInv, NEW p \in Procs, UnlinkFifo(p)
    PROVE  PipeInv'
<1>. DEFINE a == Now(p).from
            b == Now(p).to
            u == me[p]
<1>1. /\ Alive(p) /\ Now(p).do = "unlink" /\ Continue(p, <<>>)
      /\ fifo' = [fifo EXCEPT ![<<a, b>>] = 0]
      /\ UNCHANGED <<all_clients, me, opened, ffds>>
  BY DEF UnlinkFifo, At, Now, local, Plain
<1>2. Now(p).do \in PipeOps /\ Now(p).do \in Chain /\ Now(p).do \in Chain2
      /\ Now(p).do \in Chain \cap Chain2
  BY <1>1 DEF PipeOps, Chain, Chain2
<1>3. /\ p \in Conns /\ u \in Slots
      /\ b = u \/ (a = u /\ "exit" \in Kinds(code[p]))
  <2>1. /\ p \in Conns /\ me[p] \in Slots
        /\ Fits(p, me[p], Now(p), "exit" \in Kinds(code[p]))
    BY <1>1, <1>2, Leaver
  <2>. QED  BY <1>1, <2>1 DEF Fits
<1>. HIDE DEF a, b, u
<1>4. /\ fifo' \in [Slots \X Slots -> Nat]
      /\ \A i, j \in Slots : a # i \/ b # j => fifo'[<<i, j>>] = fifo[<<i, j>>]
      /\ \A i, j \in Slots : a = i /\ b = j => fifo'[<<i, j>>] = 0
  <2>1. fifo \in [Slots \X Slots -> Nat] /\ 0 \in Nat
    BY DEF PipeInv, Files
  <2>2. \A i, j \in Slots : /\ <<i, j>> \in Slots \X Slots
                            /\ a # i \/ b # j => <<i, j>> # <<a, b>>
    OBVIOUS
  <2>. QED  BY <1>1, <2>1, <2>2, Zenon
<1>5. Files'
  BY <1>1, <1>4 DEF PipeInv, Files
<1>6. Part(<<>>, {}) /\ \A x \in {} : Fits(p, me[p], x, "exit" \in Kinds(code[p]))
  BY PartNone
<1>7. Moves(p, code'[p]) /\ \E t : Turn(p, Now(p), {}, t)
  BY <1>1, <1>2, <1>6, TokTurn
<1>8. PICK t : Turn(p, Now(p), {}, t)
  BY <1>7
<1>9. TableKept
  BY <1>1, TableSame DEF PipeInv
<1>10. Table' /\ \A h, j \in Slots : SameSent(h, j)
  BY <1>9, TableKeptIs DEF PipeInv
<1>11. \A h : /\ ~OutOf(Now(p), h) /\ ~EarlyOf(Now(p), h) /\ ~LayOf(Now(p), h)
              /\ ~GetOf(Now(p), h) /\ (EndOf(Now(p), h) <=> h = a)
  BY <1>1 DEF OutOf, EarlyOf, LayOf, GetOf, EndOf, a
<1>12. ASSUME "exit" \notin Kinds(code[p]), NEW i \in Slots, NEW j \in Slots,
              me[p] \in {i, j}, Calm(i, j), Pipe(i, j), \A r \in Procs \ {p} : Alike(r, i, j)
       PROVE  Pipe(i, j)'
  <2>0. \A h : Early(t, h) = {} /\ Gets(t, h) = {} /\ Ends(t, h) = {} /\ Outs(t, h) = {}
    BY <1>2, <1>8, <1>12 DEF Turn
  <2>1. CASE u # j \/ a # i
    <3>1. Alike(p, i, j)
      BY <1>1, <1>8, <1>11, <2>1, TurnAlike DEF u
    <3>2. \A r \in Procs : Alike(r, i, j)
      BY <1>12, <3>1
    <3>3. fifo'[<<i, j>>] = fifo[<<i, j>>]
      BY <1>3, <1>4, <1>12, <2>1
    <3>. QED  BY <1>10, <1>12, <3>2, <3>3, PairStill
  <2>2. CASE u = j /\ a = i
    <3>1. fifo'[<<i, j>>] = 0
      BY <1>3, <1>4, <1>12, <2>2
    <3>2. Ending(p, i, j)
      BY <1>3, <1>8, <1>11, <2>2 DEF Ending, Turn, u
    <3>3. /\ ~Filed(i, j) /\ fifo[<<i, j>>] # 0
          /\ \A r \in Procs : ~Writing(r, i, j) /\ ~Laying(r, i, j)
      BY <1>12, <3>2 DEF Pipe
    <3>4. ~Filed(i, j)'
      BY <1>10, <3>3 DEF Filed, SameSent
    <3>5. \A r \in Procs \ {p} : ~Taking(r, i, j) /\ ~Ending(r, i, j)
      <4>. SUFFICES ASSUME NEW r \in Procs, Taking(r, i, j) \/ Ending(r, i, j) PROVE r = p
        OBVIOUS
      <4>1. r \in Conns /\ me[r] = me[p]
        BY <2>2 DEF Taking, Ending, u
      <4>. QED  BY <1>3, <1>12, <4>1, OneServer
    <3>6. /\ ~Taking(p, i, j)' /\ ~Ending(p, i, j)' /\ ~Laying(p, i, j)'
          /\ ~Writing(p, i, j)' /\ ~Starting(p, i, j)'
      BY <1>1, <1>8, <1>11, <2>0, <3>3, Zenon DEF Turn, Taking, Ending, Laying, Writing, Starting
    <3>7. me'[p] = j => Single(code'[p], i)
      BY <1>1, <1>8, <1>12 DEF Pipe, Turn
    <3>. QED  BY <1>12, <3>1, <3>3, <3>4, <3>5, <3>6, <3>7, PairBy
  <2>. QED  BY <2>1, <2>2
<1>13. \A i, j \in Slots : me[p] \notin {i, j} =>
               fifo'[<<i, j>>] = fifo[<<i, j>>] /\ SameSent(i, j)
  BY <1>3, <1>4, <1>10 DEF u
<1>14. Goods' /\ Pipes'
  BY <1>3, <1>7, <1>8, <1>12, <1>13, TurnPairs
<1>. QED  BY <1>5, <1>10, <1>14 DEF PipeInv
LEMMA TailTurn ==
    ASSUME MpInv, PipeInv, NEW p \in Procs, Alive(p), Now(p).do \in Special \ {"prompt", "exit"},
           code'[p] = Tail(code[p])
    PROVE  /\ Good(p, me[p], code'[p]) /\ Turn(p, Now(p), {}, Tail(code[p]))
           /\ code[p] # <<>> /\ IsSeq(code'[p])
           /\ \A i : Single(code[p], i) /\ LayOf(Now(p), i) => Lays(code'[p], i) = {}
<1>. DEFINE c == code[p]
            t == Tail(c)
            n == Now(p)
<1>1. IsSeq(c) /\ c # <<>> /\ c[1] = n /\ Good(p, me[p], c) /\ c[1].do \notin {"prompt", "exit"}
  BY CodeAt DEF PipeInv, Goods
<1>2. /\ Good(p, me[p], t) /\ IsSeq(t)
      /\ "exit" \in Kinds(t) <=> "exit" \in Kinds(c)
      /\ \/ "exit" \in Kinds(c)
         \/ /\ c[1].do \in Chain => Kinds(t) \cap Chain = {}
            /\ c[1].do \in Chain2 => Kinds(t) \cap Chain2 = {}
      /\ Spc(c) = {x \in {c[1]} : x.do \in Special} \cup Spc(t)
  BY <1>1, GoodTail, Zenon
<1>3. \A i : Single(c, i) => /\ Single(t, i)
                             /\ c[1].do = "set_sent" /\ c[1].from = i => Lays(t, i) = {}
  BY <1>1, Popped
<1>. HIDE DEF t, n
<1>4. code'[p] = t
  BY DEF t
<1>. HIDE DEF c
<1>5. Splits(c, {n}, t)
  <2>1. Tokens \subseteq Special
    BY DEF Tokens, Special, PipeOps, Chain, Chain2
  <2>. QED  BY <1>1, <1>2, <2>1 DEF Splits, Toks
<1>6. Splits(t, {}, t)
  BY DEF Splits
<1>7. ASSUME NEW k
      PROVE  /\ Outs(c, k) # {} <=> OutOf(n, k) \/ Outs(t, k) # {}
             /\ Early(c, k) # {} <=> EarlyOf(n, k) \/ Early(t, k) # {}
             /\ Lays(c, k) # {} <=> LayOf(n, k) \/ Lays(t, k) # {}
             /\ Gets(c, k) # {} <=> GetOf(n, k) \/ Gets(t, k) # {}
             /\ Ends(c, k) # {} <=> EndOf(n, k) \/ Ends(t, k) # {}
  <2>. DEFINE N == {n}
  <2>1. Splits(c, N, t)
    BY <1>5
  <2>. HIDE DEF N
  <2>2. /\ Outs(c, k) # {} <=> (\E y \in N : OutOf(y, k)) \/ Outs(t, k) # {}
        /\ Early(c, k) # {} <=> (\E y \in N : EarlyOf(y, k)) \/ Early(t, k) # {}
        /\ Lays(c, k) # {} <=> (\E y \in N : LayOf(y, k)) \/ Lays(t, k) # {}
        /\ Gets(c, k) # {} <=> (\E y \in N : GetOf(y, k)) \/ Gets(t, k) # {}
        /\ Ends(c, k) # {} <=> (\E y \in N : EndOf(y, k)) \/ Ends(t, k) # {}
    BY <2>1, SplitSome
  <2>. QED  BY <2>2 DEF N
<1>8. "exit" \notin Kinds(c) =>
          /\ n.do \in Chain => Kinds(t) \cap Chain = {}
          /\ n.do \in Chain2 => Kinds(t) \cap Chain2 = {}
  BY <1>1, <1>2
<1>9. ASSUME "exit" \notin Kinds(c), n.do \in Chain
      PROVE  \A k : Early(t, k) = {} /\ Gets(t, k) = {} /\ Ends(t, k) = {}
  <2>1. Kinds(t) \cap Chain = {}
    BY <1>8, <1>9
  <2>. QED  BY <2>1, NoChain
<1>10. ASSUME "exit" \notin Kinds(c), n.do \in Chain2 PROVE \A k : Outs(t, k) = {}
  <2>1. Kinds(t) \cap Chain2 = {}
    BY <1>8, <1>10
  <2>. QED  BY <2>1, NoChain
<1>11. code[p] = c
  BY DEF c
<1>12. Turn(p, n, {}, t)
  BY <1>2, <1>3, <1>4, <1>7, <1>9, <1>10, <1>11, Zenon DEF Turn
<1>13. \A i : Single(c, i) /\ LayOf(n, i) => Lays(t, i) = {}
  BY <1>1, <1>3 DEF LayOf
<1>14. t = Tail(code[p])
  BY DEF t, c
<1>. QED  BY <1>1, <1>2, <1>4, <1>11, <1>12, <1>13, <1>14 DEF n

LEMMA SetSentPipes ==
    ASSUME MpInv, SlotInv, PipeInv, NEW p \in Procs, SetSentFd(p)
    PROVE  PipeInv'
<1>. DEFINE u == me[p]
            f == Now(p).from
            x == Now(p).fd
            t == Tail(code[p])
            n == Now(p)
<1>1. /\ Alive(p) /\ Now(p).do = "set_sent" /\ Continue(p, <<>>)
      /\ all_clients' = [all_clients EXCEPT ![u].sent_fd[f] = x]
      /\ UNCHANGED <<me, fifo, opened, ffds>>
  BY DEF SetSentFd, At, Now, local, files, Plain, Clients
<1>2. /\ IsSeq(code[p]) /\ code[p] # <<>> /\ DOMAIN code = Procs /\ 1 \in DOMAIN code[p]
      /\ Now(p) = code[p][1]
  BY <1>1, CodeAt
<1>3. code' = [code EXCEPT ![p] = t] /\ code'[p] = Tail(code[p])
  <2>1. IsSeq(t)
    BY <1>2, HeadTail, Zenon
  <2>2. code' = [code EXCEPT ![p] = <<>> \o t]
    BY <1>1 DEF Continue
  <2>. HIDE DEF t
  <2>3. <<>> \o t = t
    BY <2>1 DEF IsSeq
  <2>4. code'[p] = t
    BY <1>2, <2>2, <2>3
  <2>. QED  BY <2>2, <2>3, <2>4 DEF t
<1>4. x \in Nat \ {0} /\ f \in Slots
  <2>1. Now(p) \in Spc(code[p])
    BY <1>1, <1>2, SpecialOps DEF Spc, Ins
  <2>. QED  BY <1>1, <2>1 DEF PipeInv, Goods, Good, Fits
<1>5. Now(p).do \in Special \ {"prompt", "exit"}
  BY <1>1, SpecialOps
<1>6. /\ Good(p, me[p], code'[p]) /\ Turn(p, n, {}, t)
      /\ \A i : Single(code[p], i) /\ LayOf(n, i) => Lays(code'[p], i) = {}
  BY <1>1, <1>3, <1>5, TailTurn, Zenon
<1>7. \A h : /\ ~OutOf(n, h) /\ ~EarlyOf(n, h) /\ ~EndOf(n, h)
             /\ ~GetOf(n, h) /\ (LayOf(n, h) <=> h = f)
  BY <1>1 DEF OutOf, EarlyOf, LayOf, GetOf, EndOf
<1>. HIDE DEF u, f, x, t, n
<1>8. /\ Table'
      /\ \A i, j \in Slots : i # f \/ j # u => SameSent(i, j)
      /\ u \in Slots => all_clients'[u].sent_fd[f] = x
  <2>1. DOMAIN all_clients = Slots /\ Table
    BY SlotFacts DEF PipeInv
  <2>2. CASE u \in Slots
    BY <1>1, <1>4, <2>1, <2>2 DEF Table, SameSent
  <2>3. CASE u \notin Slots
    <3>1. \A j \in Slots : all_clients'[j] = all_clients[j]
      BY <1>1, <2>1, <2>3
    <3>. QED  BY <2>1, <2>3, <3>1 DEF Table, SameSent
  <2>. QED  BY <2>2, <2>3
<1>9. Moves(p, t) /\ code'[p] = t
  <2>1. code'[p] = t
    BY <1>3 DEF t
  <2>. QED  BY <1>1, <1>2, <1>3, <1>6, <2>1 DEF Moves, Turn
<1>10. /\ Goods'
       /\ \A i, j \in Slots : /\ Calm(i, j)' => Calm(i, j)
                              /\ \A r \in Procs \ {p} : Alike(r, i, j)
  BY <1>9, MoveKeeps
<1>11. ASSUME NEW i \in Slots, NEW j \in Slots, Calm(i, j)' PROVE Pipe(i, j)'
  <2>0. Pipe(i, j) /\ \A r \in Procs \ {p} : Alike(r, i, j)
    BY <1>10, <1>11 DEF PipeInv, Pipes
  <2>1. CASE u # j \/ f # i
    <3>1. Alike(p, i, j)
      BY <1>1, <1>6, <1>7, <2>1, TurnAlike DEF u
    <3>2. \A r \in Procs : Alike(r, i, j)
      BY <2>0, <3>1
    <3>. QED  BY <1>1, <1>8, <2>0, <2>1, <3>2, PairStill
  <2>2. CASE u = j /\ f = i
    <3>1. Laying(p, i, j)
      BY <1>6, <1>7, <2>2 DEF Laying, Turn, u
    <3>2. /\ ~Filed(i, j) /\ fifo[<<i, j>>] # 0 /\ fifo'[<<i, j>>] # 0
          /\ \A r \in Procs : /\ ~Writing(r, i, j) /\ ~Ending(r, i, j) /\ ~Starting(r, i, j)
                              /\ Laying(r, i, j) => r = p
          /\ Single(code[p], i)
      BY <1>1, <2>0, <2>2, <3>1 DEF Pipe, u
    <3>3. Filed(i, j)'
      <4>1. all_clients'[j].sent_fd[i] = x /\ x # -1
        BY <1>4, <1>8, <2>2
      <4>. QED  BY <4>1 DEF Filed
    <3>4. Lays(code'[p], i) = {}
      BY <1>6, <1>7, <2>2, <3>2
    <3>5. ~Laying(p, i, j)' /\ ~Writing(p, i, j)' /\ ~Ending(p, i, j)' /\ ~Starting(p, i, j)'
      BY <1>1, <1>6, <1>7, <3>2, <3>4, Zenon DEF Laying, Writing, Ending, Starting, Turn
    <3>6. me'[p] = j => Single(code'[p], i)
      BY <1>6, <3>2 DEF Turn
    <3>7. \A r \in Procs \ {p} :
              ~Writing(r, i, j) /\ ~Laying(r, i, j) /\ ~Ending(r, i, j) /\ ~Starting(r, i, j)
      BY <3>2
    <3>. QED  BY <2>0, <3>2, <3>3, <3>5, <3>6, <3>7, PairBy
  <2>. QED  BY <2>1, <2>2
<1>. QED  BY <1>1, <1>8, <1>10, <1>11, FilesSame DEF PipeInv, Pipes
(* The handler's open returned: the code with the descriptor to file. *)
LEMMA LaidCode ==
    ASSUME NEW p, NEW u, NEW c, IsSeq(c), c # <<>>, Good(p, u, c), c[1].do = "open_read",
           NEW y, y.do = "set_sent", y.fd \in Nat \ {0}, y.from \in Slots,
           NEW d, d = <<y>> \o Tail(c)
    PROVE  /\ Good(p, u, d) /\ Spc(d) = {y} \cup Spc(c)
           /\ "exit" \in Kinds(c) => "exit" \in Kinds(d)
           /\ \A i : Single(c, i) /\ (y.from # i \/ Lays(c, i) = {}) => Single(d, i)
<1>. DEFINE t == Tail(c)
            s == <<y>>
<1>1. c[1].do \notin Special /\ c[1].do \notin {"prompt", "exit"}
  BY DEF Special, PipeOps, Chain, Chain2, LeaveOps, MasterOps
<1>2. Good(p, u, t) /\ ("exit" \in Kinds(t) <=> "exit" \in Kinds(c)) /\ (p \in Conns => Lives(t))
  BY <1>1, GoodTail, Zenon
<1>3. IsSeq(t) /\ Spc(t) = Spc(c) /\ \A i : Single(c, i) => Single(t, i)
  BY <1>1, EasedTail DEF Eased
<1>. HIDE DEF t
<1>4. IsSeq(s) /\ DOMAIN s = {1} /\ s[1] = y
  BY Singleton
<1>5. d = s \o t
  BY DEF s, t
<1>. HIDE DEF s
<1>6. Ins(s) = {y} /\ Kinds(s) = {"set_sent"}
  BY <1>4 DEF Ins, Kinds
<1>7. /\ Kinds(s) \cap Chain = {} /\ Kinds(s) \cap Chain2 = {} /\ Kinds(s) \cap MasterOps = {}
      /\ "set_sent" \notin PipeOps \cup LeaveOps
  BY <1>6, SpecialOps
<1>8. Once(s, Chain) /\ Once(s, Chain2) /\ Prepared(s) /\ Up(s) /\ \A i : Single(s, i)
  BY <1>4 DEF Once, Prepared, Up, Single
<1>9. Spc(s) = {y}
  BY <1>6, SpecialOps DEF Spc
<1>10. Spc(d) = {y} \cup Spc(t) /\ Kinds(d) = Kinds(s) \cup Kinds(t)
  <2>1. Spc(d) = {y} \cup Spc(t)
    <3>1. Spc(s \o t) = Spc(s) \cup Spc(t)
      BY <1>3, <1>4, InsConcat
    <3>. QED  BY <1>5, <1>9, <3>1
  <2>2. Kinds(d) = Kinds(s) \cup Kinds(t)
    BY <1>3, <1>4, <1>5, KindsConcat, Zenon
  <2>. QED  BY <2>1, <2>2
<1>11. /\ Once(t, Chain) => Once(d, Chain)
       /\ Once(t, Chain2) => Once(d, Chain2)
       /\ Prepared(t) => Prepared(d)
       /\ Up(t) => Up(d)
  BY <1>3, <1>4, <1>5, <1>7, <1>8, Joined, Zenon
<1>12. ASSUME NEW i, Single(c, i), y.from # i \/ Lays(c, i) = {} PROVE Single(d, i)
  <2>1. Single(t, i) /\ Single(s, i) /\ Lays(t, i) = Lays(c, i)
    BY <1>3, <1>8, <1>12 DEF Lays
  <2>2. Lays(s, i) = {} \/ Lays(t, i) = {}
    BY <1>9, <1>12, <2>1 DEF Lays
  <2>. QED  BY <1>3, <1>4, <1>5, <2>1, <2>2, Joined, Zenon
<1>13. Good(p, u, d)
  <2>1. \A z \in Spc(d) : Fits(p, u, z, "exit" \in Kinds(d))
    <3>. SUFFICES ASSUME NEW z \in Spc(d) PROVE Fits(p, u, z, "exit" \in Kinds(d))
      OBVIOUS
    <3>1. CASE z = y
      BY <1>7, <3>1 DEF Fits, LeaveOps, PipeOps, Chain, Chain2
    <3>2. CASE z \in Spc(t)
      <4>1. Fits(p, u, z, "exit" \in Kinds(t))
        BY <1>2, <3>2 DEF Good
      <4>. QED  BY <1>10, <4>1, FitsOn, Zenon
    <3>. QED  BY <1>10, <3>1, <3>2
  <2>2. "exit" \in Kinds(d) \/ (Once(d, Chain) /\ Once(d, Chain2))
    BY <1>2, <1>10, <1>11 DEF Good
  <2>3. p \in Conns => Lives(d)
    BY <1>2, <1>10 DEF Lives
  <2>4. Prepared(d) /\ (p = Master => Up(d))
    BY <1>2, <1>11 DEF Good
  <2>. QED  BY <2>1, <2>2, <2>3, <2>4 DEF Good
<1>. QED  BY <1>2, <1>3, <1>10, <1>12, <1>13

LEMMA OpenPipes ==
    ASSUME MpInv, SlotInv, PipeInv, NEW p \in Procs, NEW q \in Procs, OpenBoth(p, q)
    PROVE  PipeInv'
<1>. DEFINE u == me[p]
            w == me[q]
            f == fifo[<<u, w>>]
            y == [do |-> "set_sent", from |-> u, fd |-> f]
            n == Now(p)
            t == Tail(code[p])
            d == <<y>> \o Tail(code[q])
<1>1. /\ Alive(p) /\ Now(p).do = "open_write" /\ Alive(q) /\ Now(q).do = "open_read"
      /\ Now(p).to = w /\ f # 0
      /\ ffds' = [ffds EXCEPT ![q] = @ \cup {f}]
      /\ UNCHANGED <<all_clients, me, fifo, opened>>
  BY DEF OpenBoth, At, Now, local
<1>2. /\ p # q /\ Now(p).do \in PipeOps /\ Now(p).do \in Chain2
      /\ Now(p).do \in Special \ {"prompt", "exit"}
  BY <1>1, SpecialOps DEF Chain2
<1>3. p \in Conns /\ u \in Slots /\ w \in Slots
  <2>1. p \in Conns /\ u \in Slots /\ Fits(p, me[p], Now(p), "exit" \in Kinds(code[p]))
    BY <1>1, <1>2, Leaver
  <2>. QED  BY <1>1, <2>1 DEF Fits
<1>4. /\ code'[p] = Tail(code[p]) /\ code'[q] = d
      /\ \A r \in Procs : r # p /\ r # q => code'[r] = code[r]
  <2>1. DOMAIN code = Procs
    BY <1>1, CodeAt
  <2>2. code' = [code EXCEPT ![p] = t, ![q] = d]
    BY DEF OpenBoth
  <2>. HIDE DEF t, d
  <2>3. code'[p] = t /\ code'[q] = d /\ \A r \in Procs : r # p /\ r # q => code'[r] = code[r]
    BY <1>2, <2>1, <2>2
  <2>. QED  BY <2>3 DEF t
<1>5. f \in Nat \ {0} /\ Files'
  <2>1. fifo \in [Slots \X Slots -> Nat] /\ ffds \in [Procs -> SUBSET Nat]
    BY DEF PipeInv, Files
  <2>2. f \in Nat
    BY <1>3, <2>1
  <2>. HIDE DEF f
  <2>3. ffds' \in [Procs -> SUBSET Nat]
    BY <1>1, <2>1, <2>2
  <2>. QED  BY <1>1, <2>2, <2>3 DEF PipeInv, Files
<1>6. /\ Good(p, me[p], code'[p]) /\ Turn(p, n, {}, t)
  BY <1>1, <1>2, <1>4, TailTurn
<1>7. y.do = "set_sent" /\ y.from = u /\ y.fd = f
  OBVIOUS
<1>8. /\ Good(q, w, code'[q]) /\ Spc(code'[q]) = {y} \cup Spc(code[q])
      /\ "exit" \in Kinds(code[q]) => "exit" \in Kinds(code'[q])
      /\ \A i : Single(code[q], i) /\ (u # i \/ Lays(code[q], i) = {}) => Single(code'[q], i)
  <2>. DEFINE c == code[q]
  <2>1. IsSeq(c) /\ c # <<>> /\ c[1].do = "open_read" /\ Good(q, w, c)
    BY <1>1, CodeAt DEF PipeInv, Goods
  <2>2. y.fd \in Nat \ {0} /\ y.from \in Slots /\ y.do = "set_sent" /\ d = <<y>> \o Tail(c)
    BY <1>3, <1>5
  <2>. HIDE DEF c, d, y
  <2>3. /\ Good(q, w, d) /\ Spc(d) = {y} \cup Spc(c)
        /\ "exit" \in Kinds(c) => "exit" \in Kinds(d)
        /\ \A i : Single(c, i) /\ (y.from # i \/ Lays(c, i) = {}) => Single(d, i)
    BY <2>1, <2>2, LaidCode, Zenon
  <2>. QED  BY <1>4, <1>7, <2>3 DEF c
<1>. HIDE DEF u, w, f, y, n, t, d
<1>9. ASSUME NEW k
      PROVE  /\ Outs(code'[q], k) = Outs(code[q], k) /\ Early(code'[q], k) = Early(code[q], k)
             /\ Gets(code'[q], k) = Gets(code[q], k) /\ Ends(code'[q], k) = Ends(code[q], k)
             /\ k # u => Lays(code'[q], k) = Lays(code[q], k)
             /\ k = u => Lays(code'[q], k) # {}
  BY <1>7, <1>8 DEF Outs, Early, Gets, Ends, Lays
<1>10. Conns \subseteq Procs /\ me' = me
  BY <1>1, ProcsAre
<1>11. Goods'
  <2>1. \A r \in Procs : Good(r, me'[r], code'[r])
    <3>. SUFFICES ASSUME NEW r \in Procs PROVE Good(r, me'[r], code'[r])
      OBVIOUS
    <3>1. CASE r = p
      BY <1>6, <1>10, <3>1
    <3>2. CASE r = q
      BY <1>8, <1>10, <3>2 DEF w
    <3>3. CASE r # p /\ r # q
      BY <1>4, <1>10, <3>3 DEF PipeInv, Goods
    <3>. QED  BY <3>1, <3>2, <3>3
  <2>2. \A c \in Conns : code'[c] # <<>> => me'[c] \in Slots
    <3>. SUFFICES ASSUME NEW c \in Conns, code'[c] # <<>> PROVE me[c] \in Slots
      BY <1>10
    <3>1. CASE c \in {p, q}
      BY <1>3, <3>1 DEF u, w
    <3>2. CASE c \notin {p, q}
      BY <1>4, <1>10, <3>2 DEF PipeInv, Goods
    <3>. QED  BY <3>1, <3>2
  <2>. QED  BY <2>1, <2>2 DEF Goods
<1>12. ASSUME NEW i \in Slots, NEW j \in Slots, Calm(i, j)' PROVE Calm(i, j)
  <2>. SUFFICES ASSUME NEW c \in Conns, me[c] \in {i, j}, Left(c) PROVE FALSE
    BY DEF Calm
  <2>1. ~Left(c)' /\ me[c] # -1 /\ me'[c] = me[c]
    BY <1>10, <1>12, SlotIs DEF Calm
  <2>2. code'[c] # <<>> /\ "exit" \notin Kinds(code'[c])
    BY <2>1 DEF Left, Gone, Alive, Leaving, Kinds
  <2>3. code[c] # <<>> => "exit" \in Kinds(code[c])
    BY LeftIs
  <2>4. code[p] # <<>> /\ code[q] # <<>>
    BY <1>1 DEF Alive
  <2>5. CASE c = p
    BY <1>6, <2>2, <2>3, <2>4, <2>5 DEF Turn
  <2>6. CASE c = q
    BY <1>8, <2>2, <2>3, <2>4, <2>6
  <2>7. CASE c # p /\ c # q
    BY <1>4, <1>10, <2>2, <2>3, <2>7
  <2>. QED  BY <2>5, <2>6, <2>7
<1>13. TableKept
  BY <1>1, TableSame DEF PipeInv
<1>14. Table' /\ \A h, j \in Slots : SameSent(h, j)
  BY <1>13, TableKeptIs DEF PipeInv
<1>15. \A h : /\ ~EarlyOf(n, h) /\ ~EndOf(n, h) /\ ~LayOf(n, h)
              /\ ~GetOf(n, h) /\ (OutOf(n, h) <=> h = w)
  BY <1>1 DEF OutOf, EarlyOf, LayOf, GetOf, EndOf, n
<1>16. ASSUME NEW i \in Slots, NEW j \in Slots, NEW r \in Procs, r # p, r # q PROVE Alike(r, i, j)
  BY <1>4, <1>10, <1>16 DEF Alike, Writing, Starting, Laying, Taking, Ending
<1>17. ASSUME NEW i \in Slots, NEW j \in Slots, Calm(i, j)' PROVE Pipe(i, j)'
  <2>0. Pipe(i, j) /\ Calm(i, j)
    BY <1>12, <1>17 DEF PipeInv, Pipes
  <2>1. CASE u # i \/ w # j
    <3>1. Alike(p, i, j)
      BY <1>1, <1>6, <1>15, <2>1, TurnAlike DEF u
    <3>2. Alike(q, i, j)
      <4>1. me'[q] = me[q] /\ (me[q] = j => u # i)
        BY <1>10, <2>1 DEF w
      <4>2. (me[q] = j => Single(code[q], i)) => (me'[q] = j => Single(code'[q], i))
        BY <1>8, <4>1
      <4>3. Laying(q, i, j)' <=> Laying(q, i, j)
        BY <1>9, <4>1 DEF Laying
      <4>4. /\ Writing(q, i, j)' <=> Writing(q, i, j)
            /\ Starting(q, i, j)' <=> Starting(q, i, j)
            /\ Taking(q, i, j)' <=> Taking(q, i, j)
            /\ Ending(q, i, j)' <=> Ending(q, i, j)
        BY <1>9, <4>1 DEF Writing, Starting, Taking, Ending
      <4>. QED  BY <4>2, <4>3, <4>4 DEF Alike
    <3>3. \A r \in Procs : Alike(r, i, j)
      BY <1>16, <3>1, <3>2
    <3>. QED  BY <1>1, <1>14, <2>0, <3>3, PairStill
  <2>2. CASE u = i /\ w = j
    <3>1. Writing(p, i, j) /\ fifo[<<i, j>>] # 0 /\ fifo'[<<i, j>>] # 0
      BY <1>1, <1>3, <1>6, <1>15, <2>2 DEF Writing, Turn, u, f
    <3>2. /\ ~Filed(i, j)
          /\ \A r \in Procs : ~Laying(r, i, j) /\ ~Ending(r, i, j) /\ ~Starting(r, i, j)
          /\ \A r \in Procs : me[r] = j => Single(code[r], i)
      BY <2>0, <3>1 DEF Pipe
    <3>3. ~Filed(i, j)'
      BY <1>14, <3>2 DEF Filed, SameSent
    <3>4. \A r \in Procs : Writing(r, i, j) => r = p
      <4>. SUFFICES ASSUME NEW r \in Procs, Writing(r, i, j) PROVE r = p
        OBVIOUS
      <4>1. r \in Conns /\ me[r] = me[p] /\ me[p] \in {i, j}
        BY <2>2 DEF Writing, u
      <4>. QED  BY <1>3, <2>0, <4>1, OneServer
    <3>5. /\ ~Writing(p, i, j)' /\ ~Laying(p, i, j)' /\ ~Ending(p, i, j)' /\ ~Starting(p, i, j)'
          /\ me'[p] = j => Single(code'[p], i)
      <4>1. ~Left(p)
        BY <1>3, <2>0, <2>2 DEF Calm, u
      <4>2. "exit" \notin Kinds(code[p])
        BY <4>1, LeftIs
      <4>3. \A h : Outs(t, h) = {}
        BY <1>2, <1>6, <4>2 DEF Turn, n
      <4>4. ~Writing(p, i, j)'
        BY <1>6, <4>3 DEF Turn, Writing
      <4>5. ~Laying(p, i, j)' /\ ~Ending(p, i, j)' /\ ~Starting(p, i, j)'
        BY <1>6, <1>10, <1>15, <3>2, Zenon DEF Turn, Laying, Ending, Starting
      <4>6. me'[p] = j => Single(code'[p], i)
        BY <1>6, <1>10, <3>2 DEF Turn
      <4>. QED  BY <4>4, <4>5, <4>6
    <3>6. /\ Laying(q, i, j)' /\ ~Writing(q, i, j)' /\ ~Ending(q, i, j)' /\ ~Starting(q, i, j)'
          /\ Single(code'[q], i)
      <4>1. me[q] = j /\ me'[q] = j
        BY <1>10, <2>2 DEF w
      <4>2. Laying(q, i, j)'
        BY <1>9, <2>2, <4>1 DEF Laying
      <4>3. ~Writing(q, i, j)' /\ ~Ending(q, i, j)' /\ ~Starting(q, i, j)'
        BY <1>2, <1>9, <1>10, <3>2, <3>4 DEF Writing, Ending, Starting
      <4>4. Single(code[q], i) /\ Lays(code[q], i) = {}
        BY <3>2, <4>1 DEF Laying
      <4>. QED  BY <1>8, <4>2, <4>3, <4>4
    <3>7. ASSUME NEW r \in Procs, r # p, r # q
          PROVE  /\ ~Writing(r, i, j)' /\ ~Laying(r, i, j)' /\ ~Ending(r, i, j)' /\ ~Starting(r, i, j)'
                 /\ me'[r] = j => Single(code'[r], i)
      <4>1. Alike(r, i, j)
        BY <1>16, <3>7
      <4>. QED  BY <3>2, <3>4, <3>7, <4>1 DEF Alike
    <3>8. \A r \in Procs :
              /\ ~Writing(r, i, j)' /\ ~Ending(r, i, j)' /\ ~Starting(r, i, j)'
              /\ Laying(r, i, j)' => r = q
              /\ me'[r] = j => Single(code'[r], i)
      BY <3>5, <3>6, <3>7
    <3>. QED  BY <3>1, <3>3, <3>6, <3>8 DEF Pipe
  <2>. QED  BY <2>1, <2>2
<1>. QED  BY <1>5, <1>11, <1>14, <1>17 DEF PipeInv, Pipes
LEMMA PipesInit ==
    Init => PipeInv
<1>. SUFFICES ASSUME Init PROVE PipeInv
  OBVIOUS
<1>. DEFINE x == Do("accept")
            y == Do("prompt")
            n == Cardinality(Started)
<1>1. /\ code = [p \in Procs |-> IF p = Master THEN <<x>> ELSE IF p \in Started THEN <<y>> ELSE <<>>]
      /\ all_clients = [i \in Slots |-> IF i \in Started THEN Login(i) ELSE FreeSlot]
      /\ me = [p \in Procs |-> IF p = Master THEN n ELSE IF p \in Started THEN p ELSE -1]
      /\ fifo = [f \in Slots \X Slots |-> 0] /\ opened = 0 /\ ffds = [p \in Procs |-> {}]
  BY DEF Init
<1>2. x.do = "accept" /\ y.do = "prompt"
  BY DEF Do
<1>. HIDE DEF x, y
<1>3. Files
  BY <1>1 DEF Files
<1>4. ASSUME NEW i \in Slots
      PROVE  /\ "sent_fd" \in DOMAIN all_clients[i] /\ DOMAIN all_clients[i].sent_fd = Slots
             /\ \A j \in Slots : all_clients[i].sent_fd[j] = -1
  BY <1>1, Zenon DEF Login, FreeSlot
<1>5. Started \subseteq Slots
  <2>1. SlotInv /\ MpInv
    BY SlotsInit, InitHolds
  <2>2. \A i \in Slots : all_clients[i].uid => i \in Started
    BY <1>1, Zenon DEF Login, FreeSlot
  <2>3. n \in Nat /\ n <= MAX_CLIENTS /\ Started = 1..n /\ MAX_CLIENTS \in Nat
    <3>1. IsFiniteSet(Started)
      <4>1. IsFiniteSet(Conns)
        BY Bounds, FS_Interval
      <4>. QED  BY <4>1, FS_Subset, MultiProcAssumption, Zenon
    <3>. QED  BY <3>1, FS_CardinalityType, MultiProcAssumption, Zenon
  <2>. QED  BY <2>3 DEF Slots
<1>. HIDE DEF n
<1>6. Good(Master, me[Master], <<x>>) /\ Toks(<<x>>) = {} /\ \A i : Single(<<x>>, i)
  <2>. DEFINE s == <<x>>
  <2>1. IsSeq(s) /\ DOMAIN s = {1} /\ s[1] = x
    BY Singleton
  <2>. HIDE DEF s
  <2>2. Kinds(s) = {"accept"} /\ Up(s)
    BY <1>2, <2>1 DEF Kinds, Up
  <2>3. Kinds(s) \subseteq MasterOps \cup {"wait"}
    BY <2>2 DEF MasterOps
  <2>4. Good(Master, me[Master], s) /\ Toks(s) = {} /\ \A i : Single(s, i)
    BY <2>1, <2>2, <2>3, MasterGood
  <2>. QED  BY <2>4 DEF s
<1>7. ASSUME NEW p \in Conns
      PROVE  Good(p, me[p], <<y>>) /\ Toks(<<y>>) = {} /\ \A i : Single(<<y>>, i)
  <2>. DEFINE s == <<y>>
  <2>1. y.do \in Special /\ y.do \notin MasterOps \cup {"mkfifo", "set_sent"}
    BY <1>2 DEF Special, MasterOps
  <2>2. Part(s, {y})
    BY <2>1, PartSpecial
  <2>3. IsSeq(s) /\ DOMAIN s = {1} /\ s[1] = y
    BY Singleton
  <2>. HIDE DEF s
  <2>4. Spc(s) = {y} /\ Up(s) /\ Once(s, Chain) /\ Once(s, Chain2) /\ Prepared(s)
        /\ \A i : Single(s, i)
    BY <2>2, PartKinds DEF Part
  <2>5. Fits(p, me[p], y, "exit" \in Kinds(s))
    BY <1>2 DEF Fits, LeaveOps, PipeOps, Chain, Chain2
  <2>6. Lives(s)
    BY <1>2, <2>3 DEF Lives, Kinds
  <2>7. Good(p, me[p], s)
    BY <2>4, <2>5, <2>6 DEF Good
  <2>8. Toks(s) = {}
    BY <1>2, <2>4 DEF Toks, Tokens
  <2>. QED  BY <2>4, <2>7, <2>8 DEF s
<1>8. ASSUME NEW p \in Procs
      PROVE  /\ Good(p, me[p], code[p]) /\ Toks(code[p]) = {} /\ \A i : Single(code[p], i)
             /\ p \in Conns /\ code[p] # <<>> => me[p] \in Slots
  <2>0. p = Master \/ p \in Conns
    BY Bounds DEF Procs
  <2>1. CASE p = Master
    BY <1>1, <1>6, <2>1, ProcsAre
  <2>2. CASE p \in Started /\ p # Master
    <3>1. p \in Conns /\ code[p] = <<y>> /\ me[p] = p
      BY <1>1, <2>0, <2>2
    <3>. QED  BY <1>5, <1>7, <2>2, <3>1
  <2>3. CASE p \notin Started /\ p # Master
    <3>1. code[p] = <<>>
      BY <1>1, <2>3
    <3>2. Toks(<<>>) = {}
      BY GoodNone DEF Toks
    <3>. QED  BY <3>1, <3>2, GoodNone
  <2>. QED  BY <2>1, <2>2, <2>3
<1>9. Goods
  BY <1>8, ProcsAre DEF Goods
<1>10. ASSUME NEW i \in Slots, NEW j \in Slots PROVE Pipe(i, j)
  <2>1. fifo[<<i, j>>] = 0 /\ ~Filed(i, j)
    BY <1>1, <1>4 DEF Filed
  <2>2. ASSUME NEW p \in Procs
        PROVE  /\ ~Writing(p, i, j) /\ ~Starting(p, i, j) /\ ~Laying(p, i, j)
               /\ ~Taking(p, i, j) /\ ~Ending(p, i, j) /\ Single(code[p], i)
    <3>. DEFINE c == code[p]
    <3>1. Toks(c) = {} /\ Single(c, i)
      BY <1>8
    <3>. HIDE DEF c
    <3>2. /\ Outs(c, j) = {} /\ Early(c, j) = {} /\ Lays(c, i) = {}
          /\ Gets(c, i) = {} /\ Ends(c, i) = {}
      BY <3>1, ToksAre
    <3>. QED  BY <3>1, <3>2 DEF Writing, Starting, Laying, Taking, Ending, c
  <2>. QED  BY <2>1, <2>2 DEF Pipe
<1>. QED  BY <1>3, <1>4, <1>9, <1>10 DEF PipeInv, Table, Pipes

LEMMA StepKeepsPipes ==
    ASSUME MpInv, SlotInv, PipeInv, NEW p \in Procs, Step(p)
    PROVE  PipeInv'
<1>1. CASE \/ Wait(p) \/ Flip(p) \/ Return(p) \/ client_login(p) \/ Bcast(p) \/ Tell(p)
           \/ pass_message(p) \/ PeekBody(p) \/ SemSignal(p) \/ StartJob(p)
           \/ OpenReadFails(p) \/ user_exit_clear(p)
           \/ KillIf(p) \/ KillSlot(p) \/ name_exists(p) \/ Rename(p) \/ KillUsr2(p)
           \/ user_pipe_handler(p)
  BY <1>1, EasyKeeps
<1>2. CASE \/ user_pipe_clear(p) \/ ReadFds(p) \/ MarkClear(p) \/ KillAlrm(p)
           \/ ResetSent(p) \/ ClearSlot(p) \/ CloseSock(p)
  BY <1>2, LeavePipes
<1>3. CASE out_exists(p) \/ in_exists(p)
  BY <1>3, ExistsPipes
<1>4. CASE OutFifo(p) \/ SetSender(p) \/ MkFifo(p) \/ SetSentFd(p)
  BY <1>4, OutFifoPipes, SetSenderPipes, MkFifoPipes, SetSentPipes
<1>5. CASE InFifo(p) \/ TakeFd(p) \/ CloseIn(p) \/ UnlinkFifo(p)
  BY <1>5, InFifoPipes, TakeFdPipes, CloseInPipes, UnlinkPipes
<1>6. CASE close_other_client_fd(p)
  BY <1>6, CloseOtherPipes
<1>7. CASE ExitProcess(p)
  BY <1>7, ExitProcessPipes
<1>. QED  BY <1>1, <1>2, <1>3, <1>4, <1>5, <1>6, <1>7 DEF Step

LEMMA NextKeepsPipes ==
    ASSUME MpInv, SlotInv, PipeInv, [Next]_vars
    PROVE  PipeInv'
<1>1. CASE Accept
  BY <1>1, AcceptPipes
<1>2. CASE MasterStep
  BY <1>2, ClientInitPipes, RegisterPipes, ForkPipes, CloseUnusedPipes DEF MasterStep
<1>3. ASSUME NEW p \in Procs, Step(p) PROVE PipeInv'
  BY <1>3, StepKeepsPipes
<1>4. ASSUME NEW p \in Procs, NEW q \in Procs, OpenBoth(p, q) PROVE PipeInv'
  BY <1>4, OpenPipes
<1>5. ASSUME NEW p \in Procs, NEW s \in Signals, Deliver(p, s) PROVE PipeInv'
  BY <1>5, DeliverPipes
<1>6. ASSUME NEW p \in Procs, JobDone(p) PROVE PipeInv'
  BY <1>6, QuietPipes DEF JobDone, local
<1>7. ASSUME NEW p \in Procs, Type(p) PROVE PipeInv'
  BY <1>7, TypePipes
<1>8. ASSUME NEW p \in Procs, Quit(p) PROVE PipeInv'
  BY <1>8, QuitPipes
<1>9. CASE UNCHANGED vars
  BY <1>9, QuietPipes DEF vars
<1>. QED  BY <1>1, <1>2, <1>3, <1>4, <1>5, <1>6, <1>7, <1>8, <1>9 DEF Next, System

LEMMA PipeInvHolds == Spec => [](MpInv /\ SlotInv /\ PipeInv)
<1>1. Init => MpInv /\ SlotInv /\ PipeInv
  BY InitHolds, SlotsInit, PipesInit
<1>2. MpInv /\ SlotInv /\ PipeInv /\ [Next]_vars => (MpInv /\ SlotInv /\ PipeInv)'
  BY NextKeeps, NextKeepsSlots, NextKeepsPipes
<1>. QED  BY <1>1, <1>2, PTL DEF Spec

THEOREM NothingTaken == Spec => TakesNothing
<1>. DEFINE Bad(q) == TakeFd(q) /\ all_clients[me[q]].sent_fd[Now(q).to] = -1
            Why(q) ==
              \/ \E p \in Conns : me[p] = Now(q).to /\ Has(p, "open_write", me[q])
              \/ \E r \in Procs : /\ me[r] = me[q]
                                  /\ \E k \in DOMAIN code[r] : /\ code[r][k].do = "set_sent"
                                                               /\ code[r][k].from = Now(q).to
              \/ \E c \in Conns : me[c] \in {Now(q).to, me[q]} /\ Left(c)
              \/ "badfile" \in Menu
<1>1. ASSUME MpInv, SlotInv, PipeInv, NEW q \in Conns, Bad(q) PROVE Why(q)
  <2>. DEFINE i == Now(q).to
              j == me[q]
  <2>1. Alive(q) /\ Now(q).do = "take_fd" /\ q \in Procs /\ all_clients[j].sent_fd[i] = -1
    BY <1>1, ProcsAre DEF TakeFd, At, Now
  <2>2. Now(q).do \in PipeOps /\ Now(q).do \in Chain
    BY <2>1 DEF PipeOps, Chain
  <2>3. /\ j \in Slots /\ i \in Slots /\ Now(q) \in Spc(code[q])
    <3>1. j \in Slots /\ Now(q) \in Spc(code[q]) /\ Fits(q, me[q], Now(q), "exit" \in Kinds(code[q]))
      BY <1>1, <2>1, <2>2, Leaver
    <3>. QED  BY <2>1, <3>1 DEF Fits
  <2>. SUFFICES ASSUME ~(\E c \in Conns : me[c] \in {i, j} /\ Left(c)), "badfile" \notin Menu
                PROVE  \/ \E p \in Conns : me[p] = i /\ Has(p, "open_write", j)
                       \/ \E r \in Procs : /\ me[r] = j
                                           /\ \E k \in DOMAIN code[r] : /\ code[r][k].do = "set_sent"
                                                                        /\ code[r][k].from = i
    OBVIOUS
  <2>4. Taking(q, i, j)
    BY <2>1, <2>3 DEF Taking, Gets
  <2>. HIDE DEF i, j
  <2>5. Calm(i, j) /\ Pipe(i, j)
    BY <1>1, <2>3 DEF Calm, PipeInv, Pipes
  <2>6. fifo[<<i, j>>] # 0 /\ ~Filed(i, j) /\ \A r \in Procs : ~Starting(r, i, j)
    <3>1. fifo[<<i, j>>] # 0
      BY <2>1, <2>4, <2>5 DEF Pipe
    <3>. QED  BY <2>1, <2>5, <3>1 DEF Pipe, Filed
  <2>7. PICK r \in Procs : Writing(r, i, j) \/ Laying(r, i, j) \/ Ending(r, i, j)
    BY <2>5, <2>6 DEF Pipe
  <2>8. CASE Writing(r, i, j)
    <3>1. r \in Conns /\ me[r] = i /\ Early(code[r], j) = {} /\ Outs(code[r], j) # {}
      BY <2>6, <2>8 DEF Writing, Starting
    <3>2. \E x \in Spc(code[r]) : x.do = "open_write" /\ x.to = j
      BY <3>1 DEF Outs, Early
    <3>3. Has(r, "open_write", j)
      BY <3>2 DEF Has, Spc, Ins
    <3>. QED  BY <3>1, <3>3
  <2>9. CASE Laying(r, i, j)
    BY <2>9 DEF Laying, Lays, Spc, Ins
  <2>10. CASE Ending(r, i, j)
    <3>1. r \in Conns /\ me[r] = j /\ Ends(code[r], i) # {}
      BY <2>10 DEF Ending
    <3>2. r = q
      BY <1>1, <2>3, <2>5, <3>1, OneServer DEF j
    <3>3. "exit" \notin Kinds(code[q])
      <4>1. ~Left(q)
        BY <2>5 DEF Calm, j
      <4>. QED  BY <4>1, LeftIs
    <3>4. Once(code[q], Chain) /\ code[q][1] = Now(q) /\ 1 \in DOMAIN code[q]
      BY <1>1, <2>1, <3>3, CodeAt DEF PipeInv, Goods, Good
    <3>5. PICK k \in DOMAIN code[q] : code[q][k].do \in {"close_in", "unlink"}
      BY <3>1, <3>2 DEF Ends, Spc, Ins
    <3>6. code[q][k].do \in Chain /\ code[q][1].do \in Chain
      BY <2>2, <3>4, <3>5 DEF Chain
    <3>7. k = 1
      BY <3>4, <3>5, <3>6 DEF Once
    <3>. QED  BY <2>1, <3>4, <3>5, <3>7
  <2>. QED  BY <2>7, <2>8, <2>9, <2>10
<1>. HIDE DEF Bad, Why
<1>2. MpInv /\ SlotInv /\ PipeInv => [\A q \in Conns : Bad(q) => Why(q)]_vars
  BY <1>1
<1>3. Spec => [][\A q \in Conns : Bad(q) => Why(q)]_vars
  BY <1>2, PipeInvHolds, PTL DEF Spec
<1>. QED  BY <1>3 DEF TakesNothing, Bad, Why

----------------------------------------------------------------------------
(******************* The FIFOs a server holds open *************************)

(* The descriptors that c is about to put into the table or to close, and  *)
(* those the table has for slot i. *)
FdOps == {"close_in", "set_sent"}
Hands(c) == {x.fd : x \in {y \in Spc(c) : y.do \in FdOps}}
Row(i) == {all_clients[i].sent_fd[j] : j \in Slots}

Quiet == (\A c \in Conns : ~Left(c)) /\ "badfile" \notin Menu

Stamped == \A i \in Slots : "clear_id" \in DOMAIN all_clients[i]

(* Nobody is asked to close a FIFO whose sender has left. *)
Clears == \A i \in Slots : all_clients[i].clear_id = -1

Kept ==
    \A q \in Conns : me[q] \in Slots =>
        ffds[q] \ ffds[Master] \subseteq Row(me[q]) \cup Hands(code[q])

(* There are servers only after the master has served a slot. *)
Rooted == \A q \in Conns : me[q] \in Slots => me[Master] \in Slots

FileInv == Rooted /\ Stamped /\ (Quiet => Kept /\ Clears)

(* A step of p that goes on with s. *)
GoesOn(p, s) ==
    /\ Alive(p) /\ IsSeq(s) /\ Continue(p, s) /\ Now(p).do # "exit" /\ me' = me

LeftKept == \A c \in Conns : Left(c) => Left(c)'
ClearKept ==
    /\ Stamped'
    /\ \A i \in Slots : all_clients'[i].clear_id \in {all_clients[i].clear_id, -1}

LEMMA HandsAre ==
    ASSUME NEW s, NEW t, IsSeq(s), IsSeq(t)
    PROVE  Hands(s \o t) = Hands(s) \cup Hands(t)
<1>1. Spc(s \o t) = Spc(s) \cup Spc(t)
  BY InsConcat
<1>. DEFINE d == s \o t
<1>. HIDE DEF d
<1>2. Spc(d) = Spc(s) \cup Spc(t)
  BY <1>1 DEF d
<1>3. Hands(d) = Hands(s) \cup Hands(t)
  BY <1>2 DEF Hands
<1>. QED  BY <1>3 DEF d

LEMMA HandsTail ==
    ASSUME NEW c, IsSeq(c), c # <<>>
    PROVE  /\ c[1].do \notin FdOps => Hands(Tail(c)) = Hands(c)
           /\ Hands(c) \subseteq {c[1].fd} \cup Hands(Tail(c))
<1>1. Spc(c) = {x \in {c[1]} : x.do \in Special} \cup Spc(Tail(c))
  BY InsTail
<1>. DEFINE t == Tail(c)
<1>2. Spc(c) = {x \in {c[1]} : x.do \in Special} \cup Spc(t)
  BY <1>1
<1>. HIDE DEF t
<1>3. c[1].do \notin FdOps => Hands(t) = Hands(c)
  BY <1>2 DEF Hands
<1>4. Hands(c) \subseteq {c[1].fd} \cup Hands(t)
  BY <1>2 DEF Hands
<1>. QED  BY <1>3, <1>4 DEF t

LEMMA HandsOne ==
    ASSUME NEW x, x.do \in FdOps
    PROVE  x.fd \in Hands(<<x>>) /\ IsSeq(<<x>>)
<1>. DEFINE s == <<x>>
<1>1. IsSeq(s) /\ DOMAIN s = {1} /\ s[1] = x
  BY Singleton
<1>. HIDE DEF s
<1>2. x \in Ins(s)
  BY <1>1 DEF Ins
<1>3. x.do \in Special
  BY DEF FdOps, Special, PipeOps, Chain
<1>4. x \in Spc(s)
  BY <1>2, <1>3 DEF Spc
<1>5. x.fd \in Hands(s)
  BY <1>4 DEF Hands
<1>. QED  BY <1>1, <1>5 DEF s

LEMMA GoesHands ==
    ASSUME MpInv, NEW p \in Procs, NEW s, GoesOn(p, s)
    PROVE  /\ LeftKept
           /\ \A q \in Procs : q # p => code'[q] = code[q]
           /\ code'[p] = s \o Tail(code[p])
           /\ Hands(code'[p]) = Hands(s) \cup Hands(Tail(code[p]))
           /\ Now(p).do \notin FdOps => \A q \in Procs : Hands(code[q]) \subseteq Hands(code'[q])
           /\ Hands(code[p]) \subseteq {Now(p).fd} \cup Hands(code'[p])
<1>. DEFINE c == code[p]
            t == Tail(c)
            d == s \o t
<1>1. /\ Now(p) = c[1] /\ IsSeq(c) /\ c # <<>> /\ DOMAIN code = Procs
      /\ IsSeq(s) /\ code' = [code EXCEPT ![p] = d] /\ me' = me /\ c[1].do # "exit"
  BY CodeAt DEF GoesOn, Continue
<1>2. IsSeq(t) /\ Kinds(c) = {c[1].do} \cup Kinds(t)
  BY <1>1, HeadTail, KindsTail, Zenon
<1>3. /\ c[1].do \notin FdOps => Hands(t) = Hands(c)
      /\ Hands(c) \subseteq {c[1].fd} \cup Hands(t)
  BY <1>1, HandsTail
<1>. HIDE DEF t
<1>4. Hands(d) = Hands(s) \cup Hands(t) /\ Kinds(d) = Kinds(s) \cup Kinds(t)
  BY <1>1, <1>2, HandsAre, KindsConcat
<1>5. code'[p] = d /\ \A q \in Procs : q # p => code'[q] = code[q]
  BY <1>1
<1>. HIDE DEF d
<1>6. LeftKept
  <2>. SUFFICES ASSUME NEW e \in Conns, Left(e) PROVE Left(e)'
    BY DEF LeftKept
  <2>0. e \in Procs
    BY ProcsAre
  <2>1. CASE e # p
    BY <1>1, <1>5, <2>0, <2>1 DEF Left, Gone, Alive, Leaving
  <2>2. CASE e = p
    <3>1. "exit" \in Kinds(code[e])
      BY <1>1, <2>2, LeftIs
    <3>2. "exit" \in Kinds(code'[e])
      BY <1>1, <1>2, <1>4, <1>5, <2>2, <3>1
    <3>. QED  BY <3>2 DEF Left, Leaving, Kinds
  <2>. QED  BY <2>1, <2>2
<1>7. c[1].do \notin FdOps => \A q \in Procs : Hands(code[q]) \subseteq Hands(code'[q])
  BY <1>3, <1>4, <1>5
<1>8. Hands(c) \subseteq {c[1].fd} \cup Hands(code'[p])
  BY <1>3, <1>4, <1>5
<1>. QED  BY <1>1, <1>4, <1>5, <1>6, <1>7, <1>8 DEF d, t

LEMMA RowSame ==
    ASSUME \A i, j \in Slots : SameSent(i, j), NEW i \in Slots
    PROVE  Row(i)' = Row(i)
BY DEF SameSent, Row

LEMMA ClearsKept ==
    ASSUME FileInv, ClearKept, Quiet
    PROVE  Clears'
BY DEF FileInv, ClearKept, Clears

(* Steps that keep what is held. *)
LEMMA HoldsOn ==
    ASSUME FileInv, LeftKept, ClearKept, me' = me,
           Quiet => \A q \in Conns : me[q] \in Slots =>
                        ffds'[q] \ ffds'[Master] \subseteq Row(me[q])' \cup Hands(code'[q])
    PROVE  FileInv'
<1>1. Quiet' => Quiet
  BY DEF LeftKept, Quiet
<1>2. Rooted' /\ Stamped'
  BY DEF FileInv, Rooted, ClearKept
<1>3. ASSUME Quiet' PROVE Kept' /\ Clears'
  BY <1>1, <1>3, ClearsKept DEF Kept
<1>. QED  BY <1>2, <1>3 DEF FileInv

LEMMA PlainFiles ==
    ASSUME MpInv, FileInv, NEW p \in Procs, NEW s, GoesOn(p, s), Now(p).do \notin FdOps,
           ffds' = ffds, ClearKept, \A i, j \in Slots : SameSent(i, j)
    PROVE  FileInv'
<1>1. LeftKept /\ me' = me /\ \A q \in Procs : Hands(code[q]) \subseteq Hands(code'[q])
  BY GoesHands, Zenon DEF GoesOn
<1>2. \A i \in Slots : Row(i)' = Row(i)
  BY RowSame
<1>3. Quiet => \A q \in Conns : me[q] \in Slots =>
          ffds'[q] \ ffds'[Master] \subseteq Row(me[q])' \cup Hands(code'[q])
  BY <1>1, <1>2, ProcsAre DEF FileInv, Kept
<1>. QED  BY <1>1, <1>3, HoldsOn

(* Steps of a server that leaves. *)
LEMMA LeavesFiles ==
    ASSUME FileInv, NEW p \in Conns, Left(p)', me' = me, Stamped'
    PROVE  FileInv'
BY DEF FileInv, Rooted, Quiet

LEMMA ClearSame ==
    ASSUME FileInv, UNCHANGED all_clients
    PROVE  ClearKept
BY DEF FileInv, Stamped, ClearKept

(* Writes to other fields than the clear_id of another slot. *)
LEMMA ClearWrites ==
    ASSUME SlotInv, FileInv, NEW p \in Procs,
           \/ client_login(p) \/ Bcast(p) \/ Tell(p) \/ pass_message(p) \/ Rename(p)
           \/ SetSender(p) \/ user_pipe_handler(p) \/ SetSentFd(p) \/ TakeFd(p) \/ ResetSent(p)
           \/ user_exit_clear(p)
    PROVE  ClearKept
<1>0. DOMAIN all_clients = Slots /\ \A i \in Slots : "clear_id" \in DOMAIN all_clients[i]
  BY SlotFacts DEF FileInv, Stamped
<1>1. CASE client_login(p)
  <2>1. all_clients' = [all_clients EXCEPT ![me[p]].pid = p]
    BY <1>1 DEF client_login, Clients
  <2>. QED  BY <1>0, <2>1 DEF ClearKept, Stamped
<1>2. CASE Bcast(p)
  <2>1. all_clients' = [i \in Slots |->
            IF all_clients[i].uid
            THEN [all_clients[i] EXCEPT !.message = all_clients[i].fd]
            ELSE all_clients[i]]
    BY <1>2 DEF Bcast, Clients
  <2>. QED  BY <1>0, <2>1 DEF ClearKept, Stamped
<1>3. CASE Tell(p)
  <2>. DEFINE i == Now(p).to
  <2>1. \/ all_clients' = all_clients
        \/ all_clients' = [all_clients EXCEPT ![i].message = all_clients[i].fd]
    BY <1>3 DEF Tell, Clients
  <2>. HIDE DEF i
  <2>. QED  BY <1>0, <2>1 DEF ClearKept, Stamped
<1>4. CASE pass_message(p)
  <2>1. all_clients' = [all_clients EXCEPT ![me[p]].message = 0]
    BY <1>4 DEF pass_message, Clients
  <2>. QED  BY <1>0, <2>1 DEF ClearKept, Stamped
<1>5. CASE Rename(p)
  <2>1. all_clients' = [all_clients EXCEPT ![me[p]].nickname = Now(p).name]
    BY <1>5 DEF Rename, Clients
  <2>. QED  BY <1>0, <2>1 DEF ClearKept, Stamped
<1>6. CASE SetSender(p)
  <2>. DEFINE i == Now(p).to
  <2>1. all_clients' = [all_clients EXCEPT ![i].sender_id = me[p]]
    BY <1>6 DEF SetSender, Clients
  <2>. HIDE DEF i
  <2>. QED  BY <1>0, <2>1 DEF ClearKept, Stamped
<1>7. CASE user_pipe_handler(p)
  <2>1. all_clients' = [all_clients EXCEPT ![me[p]].sender_id = -1]
    BY <1>7 DEF user_pipe_handler, Clients
  <2>. QED  BY <1>0, <2>1 DEF ClearKept, Stamped
<1>8. CASE SetSentFd(p)
  <2>1. all_clients' = [all_clients EXCEPT ![me[p]].sent_fd[Now(p).from] = Now(p).fd]
    BY <1>8 DEF SetSentFd, Clients
  <2>. QED  BY <1>0, <2>1 DEF ClearKept, Stamped
<1>9. CASE TakeFd(p)
  <2>1. all_clients' = [all_clients EXCEPT ![me[p]].sent_fd[Now(p).to] = -1]
    BY <1>9 DEF TakeFd, Clients
  <2>. QED  BY <1>0, <2>1 DEF ClearKept, Stamped
<1>10. CASE ResetSent(p)
  <2>. DEFINE i == Now(p).to
  <2>1. all_clients' = [all_clients EXCEPT ![i].sent_fd[me[p]] = -1]
    BY <1>10 DEF ResetSent, Clients
  <2>. HIDE DEF i
  <2>. QED  BY <1>0, <2>1 DEF ClearKept, Stamped
<1>11. CASE user_exit_clear(p)
  <2>1. all_clients' = [all_clients EXCEPT ![me[p]].clear_id = -1]
    BY <1>11 DEF user_exit_clear, Clients
  <2>. QED  BY <1>0, <2>1 DEF ClearKept, Stamped
<1>. QED  BY <1>1, <1>2, <1>3, <1>4, <1>5, <1>6, <1>7, <1>8, <1>9, <1>10, <1>11

LEMMA Going ==
    ASSUME NEW p \in Procs, \E s : Goes(p, s)
    PROVE  \E s : GoesOn(p, s)
<1>1. "exit" \in Main(p)
  BY MainOps
<1>. QED  BY <1>1 DEF Goes, GoesOn, Aside

LEMMA EasyHolds ==
    ASSUME MpInv, SlotInv, PipeInv, FileInv, NEW p \in Procs,
           \/ Wait(p) \/ Flip(p) \/ Return(p) \/ client_login(p) \/ Bcast(p) \/ Tell(p)
           \/ pass_message(p) \/ PeekBody(p) \/ SemSignal(p) \/ StartJob(p)
           \/ OpenReadFails(p)
           \/ KillIf(p) \/ KillSlot(p) \/ name_exists(p) \/ Rename(p) \/ KillUsr2(p)
           \/ user_pipe_handler(p)
           \/ out_exists(p) \/ in_exists(p) \/ OutFifo(p) \/ InFifo(p) \/ SetSender(p)
           \/ MkFifo(p) \/ UnlinkFifo(p)
    PROVE  FileInv'
<1>1. \E s : GoesOn(p, s)
  <2>1. \E s : Goes(p, s)
    BY ShortGoes, LongGoes, InputGoes
  <2>. QED  BY <2>1, Going
<1>2. Now(p).do \notin FdOps
  BY Zenon DEF Wait, Flip, Return, client_login, Bcast, Tell, pass_message, PeekBody, SemSignal,
         StartJob, OpenReadFails, KillIf, KillSlot, name_exists, Rename, KillUsr2, user_pipe_handler,
         out_exists, in_exists, OutFifo, InFifo, SetSender, MkFifo, UnlinkFifo, At, Now, FdOps
<1>3. ffds' = ffds
  BY DEF Wait, Flip, Return, client_login, Bcast, Tell, pass_message, PeekBody, SemSignal,
         StartJob, OpenReadFails, KillIf, KillSlot, Kill, name_exists, Rename, KillUsr2,
         user_pipe_handler, out_exists, in_exists, OutFifo, InFifo, SetSender, MkFifo, UnlinkFifo,
         shared, local, files
<1>4. ClearKept /\ TableKept
  <2>1. CASE \/ client_login(p) \/ Bcast(p) \/ Tell(p) \/ pass_message(p) \/ Rename(p)
             \/ SetSender(p) \/ user_pipe_handler(p)
    BY <2>1, OtherWrites, ClearWrites DEF PipeInv
  <2>2. CASE \/ Wait(p) \/ Flip(p) \/ Return(p) \/ PeekBody(p) \/ SemSignal(p)
             \/ StartJob(p) \/ OpenReadFails(p) \/ KillIf(p) \/ KillSlot(p)
             \/ name_exists(p) \/ KillUsr2(p) \/ out_exists(p) \/ in_exists(p) \/ OutFifo(p)
             \/ InFifo(p) \/ MkFifo(p) \/ UnlinkFifo(p)
    <3>1. UNCHANGED all_clients
      BY <2>2 DEF Wait, Flip, Return, PeekBody, SemSignal, StartJob, OpenReadFails,
                  KillIf, KillSlot, name_exists, KillUsr2, Kill, out_exists, in_exists, OutFifo,
                  InFifo, MkFifo, UnlinkFifo, shared
    <3>. QED  BY <3>1, TableSame, ClearSame DEF PipeInv
  <2>. QED  BY <2>1, <2>2
<1>5. \A i, j \in Slots : SameSent(i, j)
  BY <1>4, TableKeptIs DEF PipeInv
<1>. QED  BY <1>1, <1>2, <1>3, <1>4, <1>5, PlainFiles

(* A user who has left may have asked for a FIFO to be closed; until one   *)
(* has, the handler finds nothing to close. *)
LEMMA ClearHolds ==
    ASSUME MpInv, SlotInv, PipeInv, FileInv, NEW p \in Procs, user_exit_clear(p)
    PROVE  FileInv'
<1>1. PICK s : GoesOn(p, s)
  BY ShortGoes, Going
<1>2. Now(p).do \notin FdOps
  BY DEF user_exit_clear, At, Now, FdOps
<1>3. LeftKept /\ me' = me /\ \A q \in Procs : Hands(code[q]) \subseteq Hands(code'[q])
  BY <1>1, <1>2, GoesHands, Zenon DEF GoesOn
<1>4. ClearKept /\ TableKept
  BY OtherWrites, ClearWrites DEF PipeInv
<1>5. \A i \in Slots : Row(i)' = Row(i)
  <2>1. \A i, j \in Slots : SameSent(i, j)
    BY <1>4, TableKeptIs DEF PipeInv
  <2>. QED  BY <2>1, RowSame
<1>6. ASSUME Quiet, NEW q \in Conns, me[q] \in Slots
      PROVE  ffds'[q] \ ffds'[Master] \subseteq Row(me[q])' \cup Hands(code'[q])
  <2>1. me[p] \in Slots
    <3>1. CASE p = Master
      BY <1>6, <3>1 DEF FileInv, Rooted
    <3>2. CASE p \in Conns
      BY <1>1, <3>2 DEF GoesOn, Alive, PipeInv, Goods
    <3>. QED  BY <3>1, <3>2 DEF Procs
  <2>2. all_clients[me[p]].clear_id = -1
    BY <1>6, <2>1 DEF FileInv, Clears
  <2>3. ffds' = [ffds EXCEPT ![p] = ffds[p]]
    BY <2>2 DEF user_exit_clear
  <2>4. ffds' = ffds
    BY <2>3 DEF PipeInv, Files
  <2>5. ffds[q] \ ffds[Master] \subseteq Row(me[q]) \cup Hands(code[q])
    BY <1>6 DEF FileInv, Kept
  <2>6. Hands(code[q]) \subseteq Hands(code'[q]) /\ Row(me[q])' = Row(me[q])
    BY <1>3, <1>5, <1>6, ProcsAre
  <2>. QED  BY <2>4, <2>5, <2>6
<1>. QED  BY <1>3, <1>4, <1>6, HoldsOn

LEMMA TakeHolds ==
    ASSUME MpInv, SlotInv, PipeInv, FileInv, NEW p \in Procs, TakeFd(p)
    PROVE  FileInv'
<1>. DEFINE v == Now(p).to
            u == me[p]
            b == Now(p).bad
            g == all_clients[u].sent_fd[v]
            y == [do |-> "close_in", from |-> v, fd |-> g]
            h == Peek \o Peek \o broadcast
            s == h \o (IF b THEN <<>> ELSE <<y>>)
<1>1. /\ Alive(p) /\ Now(p).do = "take_fd" /\ Continue(p, s)
      /\ UNCHANGED <<me, ffds>>
      /\ all_clients' = [all_clients EXCEPT ![u].sent_fd[v] = -1]
  BY DEF TakeFd, At, Now, local, files, Leave, Clients
<1>2. /\ p \in Conns /\ u \in Slots /\ v \in Slots /\ (b => "badfile" \in Menu)
  <2>1. Now(p).do \in PipeOps
    BY <1>1 DEF PipeOps, Chain
  <2>2. p \in Conns /\ u \in Slots /\ Fits(p, me[p], Now(p), "exit" \in Kinds(code[p]))
    BY <1>1, <2>1, Leaver
  <2>. QED  BY <1>1, <2>2 DEF Fits
<1>3. y.do \in FdOps /\ y.fd = g /\ y.do \in Special
      /\ y.do \notin MasterOps \cup {"mkfifo", "set_sent"}
  BY DEF FdOps, Special, PipeOps, Chain, MasterOps
<1>. HIDE DEF y
<1>4. Part(h, {}) /\ Part(<<y>>, {y}) /\ Part(<<>>, {})
  BY <1>3, PartPeek, PartBroadcast, PartBefore, PartSpecial, PartNone
<1>. HIDE DEF h
<1>5. IsSeq(s) /\ (~b => g \in Hands(s))
  <2>1. CASE b
    <3>1. Part(h \o <<>>, {}) /\ s = h \o <<>>
      BY <1>4, <2>1, PartBefore
    <3>. QED  BY <2>1, <3>1 DEF Part
  <2>2. CASE ~b
    <3>. DEFINE e == <<y>>
    <3>1. s = h \o e /\ Part(e, {y})
      BY <1>4, <2>2
    <3>. HIDE DEF e
    <3>2. Part(h \o e, {y})
      BY <1>4, <3>1, PartBefore
    <3>. HIDE DEF s
    <3>3. IsSeq(s) /\ Spc(s) = {y}
      BY <3>1, <3>2 DEF Part
    <3>4. g \in Hands(s)
      BY <1>3, <3>3 DEF Hands
    <3>. QED  BY <3>3, <3>4
  <2>. QED  BY <2>1, <2>2
<1>. HIDE DEF s
<1>6. GoesOn(p, s) /\ Now(p).do \notin FdOps
  BY <1>1, <1>5 DEF GoesOn, FdOps
<1>7. LeftKept /\ me' = me /\ (\A q \in Procs : Hands(code[q]) \subseteq Hands(code'[q]))
      /\ Hands(s) \subseteq Hands(code'[p])
  <2>1. LeftKept /\ \A q \in Procs : Hands(code[q]) \subseteq Hands(code'[q])
    BY <1>6, GoesHands, Zenon
  <2>2. Hands(code'[p]) = Hands(s) \cup Hands(Tail(code[p]))
    BY <1>6, GoesHands
  <2>. QED  BY <1>1, <2>1, <2>2
<1>8. ClearKept
  BY ClearWrites
<1>. HIDE DEF g, u, v
<1>9. \A k, j \in Slots : k # u \/ j # v => all_clients'[k].sent_fd[j] = all_clients[k].sent_fd[j]
  <2>1. DOMAIN all_clients = Slots /\ Table
    BY SlotFacts DEF PipeInv
  <2>. QED  BY <1>1, <1>2, <2>1 DEF Table
<1>10. ASSUME Quiet, NEW q \in Conns, me[q] \in Slots
       PROVE  ffds'[q] \ ffds'[Master] \subseteq Row(me[q])' \cup Hands(code'[q])
  <2>1. ffds[q] \ ffds[Master] \subseteq Row(me[q]) \cup Hands(code[q])
    BY <1>10 DEF FileInv, Kept
  <2>2. Hands(code[q]) \subseteq Hands(code'[q])
    BY <1>7, ProcsAre
  <2>3. CASE q = p
    <3>1. Row(me[q]) \subseteq Row(me[q])' \cup {g}
      BY <1>1, <1>9, <1>10 DEF Row, g, u
    <3>2. g \in Hands(code'[q])
      BY <1>2, <1>5, <1>7, <1>10, <2>3 DEF Quiet
    <3>. QED  BY <1>1, <2>1, <2>2, <3>1, <3>2
  <2>4. CASE q # p
    <3>1. me[q] # u
      <4>1. Calm(u, u)
        BY <1>10 DEF Quiet, Calm
      <4>. QED  BY <1>2, <2>4, <4>1, OneServer DEF u
    <3>2. Row(me[q])' = Row(me[q])
      BY <1>1, <1>9, <1>10, <3>1 DEF Row
    <3>. QED  BY <1>1, <2>1, <2>2, <3>2
  <2>. QED  BY <2>3, <2>4
<1>. QED  BY <1>7, <1>8, <1>10, HoldsOn

(* The descriptor goes where nothing is. *)
LEMMA SentHolds ==
    ASSUME MpInv, SlotInv, PipeInv, FileInv, NEW p \in Procs, SetSentFd(p)
    PROVE  FileInv'
<1>. DEFINE v == Now(p).from
            u == me[p]
            g == Now(p).fd
<1>1. /\ Alive(p) /\ Now(p).do = "set_sent" /\ UNCHANGED <<me, ffds>>
      /\ all_clients' = [all_clients EXCEPT ![u].sent_fd[v] = g]
  BY DEF SetSentFd, At, Now, local, files, Clients
<1>2. PICK s : GoesOn(p, s)
  BY ShortGoes, Going
<1>3. /\ LeftKept /\ me' = me /\ Hands(code[p]) \subseteq {g} \cup Hands(code'[p])
      /\ \A q \in Procs : q # p => code'[q] = code[q]
  BY <1>2, GoesHands, Zenon DEF GoesOn
<1>4. ClearKept
  BY ClearWrites
<1>5. Now(p) \in Spc(code[p]) /\ v \in Slots
  <2>1. Now(p) = code[p][1] /\ 1 \in DOMAIN code[p]
    BY <1>1, CodeAt
  <2>2. Now(p) \in Spc(code[p])
    BY <1>1, <2>1, SpecialOps DEF Spc, Ins
  <2>3. Fits(p, me[p], Now(p), "exit" \in Kinds(code[p]))
    BY <2>2 DEF PipeInv, Goods, Good
  <2>. QED  BY <1>1, <2>2, <2>3 DEF Fits
<1>. HIDE DEF g, u, v
<1>6. /\ \A k, j \in Slots : k # u \/ j # v => all_clients'[k].sent_fd[j] = all_clients[k].sent_fd[j]
      /\ u \in Slots => all_clients'[u].sent_fd[v] = g
  <2>1. DOMAIN all_clients = Slots /\ Table
    BY SlotFacts DEF PipeInv
  <2>. QED  BY <1>1, <1>5, <2>1 DEF Table
<1>7. ASSUME Quiet, NEW q \in Conns, me[q] \in Slots
      PROVE  ffds'[q] \ ffds'[Master] \subseteq Row(me[q])' \cup Hands(code'[q])
  <2>1. ffds[q] \ ffds[Master] \subseteq Row(me[q]) \cup Hands(code[q])
    BY <1>7 DEF FileInv, Kept
  <2>2. CASE me[q] = u
    <3>1. all_clients[u].sent_fd[v] = -1
      <4>1. Calm(v, u) /\ u \in Slots
        BY <1>7, <2>2 DEF Quiet, Calm
      <4>2. Pipe(v, u)
        BY <1>5, <4>1 DEF PipeInv, Pipes
      <4>3. Laying(p, v, u)
        BY <1>1, <1>5 DEF Laying, Lays, u, v
      <4>. QED  BY <4>2, <4>3 DEF Pipe, Filed
    <3>2. Row(me[q]) \subseteq Row(me[q])' \cup {-1}
      BY <1>1, <1>6, <1>7, <2>2, <3>1 DEF Row
    <3>3. g \in Row(me[q])'
      BY <1>1, <1>5, <1>6, <1>7, <2>2 DEF Row
    <3>4. Hands(code[q]) \subseteq {g} \cup Hands(code'[q])
      BY <1>3, ProcsAre
    <3>5. -1 \notin ffds[q]
      <4>1. ffds[q] \subseteq Nat /\ -1 \notin Nat
        BY ProcsAre DEF PipeInv, Files
      <4>. QED  BY <4>1
    <3>. QED  BY <1>1, <2>1, <3>2, <3>3, <3>4, <3>5
  <2>3. CASE me[q] # u
    <3>1. Row(me[q])' = Row(me[q])
      BY <1>1, <1>6, <1>7, <2>3 DEF Row
    <3>2. q # p
      BY <2>3 DEF u
    <3>3. code'[q] = code[q]
      BY <1>3, <3>2, ProcsAre
    <3>. QED  BY <1>1, <2>1, <3>1, <3>3
  <2>. QED  BY <2>2, <2>3
<1>. QED  BY <1>3, <1>4, <1>7, HoldsOn

(* A server that exits. *)
LEMMA ExitHolds ==
    ASSUME MpInv, PipeInv, FileInv, NEW p \in Conns, Alive(p), Exit(p)
    PROVE  FileInv'
<1>1. UNCHANGED <<all_clients, me>> /\ code' = [code EXCEPT ![p] = <<>>]
  BY DEF Exit
<1>2. DOMAIN code = Procs /\ p \in Procs
  BY ProcsAre DEF MpInv, StructInv
<1>3. code'[p] = <<>> /\ me'[p] # -1
  <2>1. me[p] \in Slots
    BY DEF Alive, PipeInv, Goods
  <2>. QED  BY <1>1, <1>2, <2>1, SlotIs
<1>4. Left(p)'
  BY <1>3 DEF Left, Gone, Alive
<1>5. Stamped'
  BY <1>1 DEF FileInv, Stamped
<1>. QED  BY <1>1, <1>4, <1>5, LeavesFiles

LEMMA CloseHolds ==
    ASSUME MpInv, SlotInv, PipeInv, FileInv, NEW p \in Procs, CloseIn(p)
    PROVE  FileInv'
<1>1. Alive(p) /\ Now(p).do = "close_in"
  BY DEF CloseIn, At, Now
<1>2. p \in Conns
  <2>1. Now(p).do \in PipeOps
    BY <1>1 DEF PipeOps, Chain
  <2>. QED  BY <1>1, <2>1, Leaver
<1>3. CASE Exit(p)
  BY <1>1, <1>2, <1>3, ExitHolds
<1>4. CASE ~Exit(p)
  <2>. DEFINE y == Unlink(Now(p).from, me[p])
              s == <<y>>
              g == Now(p).fd
  <2>1. /\ ffds' = [ffds EXCEPT ![p] = @ \ {g}]
        /\ Continue(p, s) /\ UNCHANGED <<all_clients, me>>
    BY <1>4 DEF CloseIn, Plain, local
  <2>. HIDE DEF y
  <2>2. IsSeq(s)
    BY Singleton
  <2>. HIDE DEF s, g
  <2>3. GoesOn(p, s)
    BY <1>1, <2>1, <2>2 DEF GoesOn
  <2>4. /\ LeftKept /\ me' = me /\ Hands(code[p]) \subseteq {g} \cup Hands(code'[p])
        /\ \A q \in Procs : q # p => code'[q] = code[q]
    BY <2>3, GoesHands, Zenon DEF GoesOn, g
  <2>5. ClearKept /\ \A i \in Slots : Row(i)' = Row(i)
    BY <2>1, ClearSame DEF Row
  <2>6. /\ DOMAIN ffds = Procs /\ Master # p
    BY <1>2, ProcsAre DEF PipeInv, Files
  <2>7. ffds'[p] = ffds[p] \ {g} /\ \A q \in Procs : q # p => ffds'[q] = ffds[q]
    BY <2>1, <2>6
  <2>8. ASSUME Quiet, NEW q \in Conns, me[q] \in Slots
        PROVE  ffds'[q] \ ffds'[Master] \subseteq Row(me[q])' \cup Hands(code'[q])
    <3>1. ffds[q] \ ffds[Master] \subseteq Row(me[q]) \cup Hands(code[q])
      BY <2>8 DEF FileInv, Kept
    <3>2. ffds'[Master] = ffds[Master] /\ Row(me[q])' = Row(me[q])
      BY <2>1, <2>5, <2>6, <2>7, <2>8, ProcsAre
    <3>3. CASE q = p
      BY <2>4, <2>7, <3>1, <3>2, <3>3
    <3>4. CASE q # p
      BY <2>4, <2>7, <3>1, <3>2, <3>4, ProcsAre
    <3>. QED  BY <3>3, <3>4
  <2>. QED  BY <2>4, <2>5, <2>8, HoldsOn
<1>. QED  BY <1>3, <1>4

(* A server that leaves takes no part. *)
LEMMA LeaveHolds ==
    ASSUME MpInv, SlotInv, PipeInv, FileInv, NEW p \in Procs,
           \/ user_pipe_clear(p) \/ ReadFds(p) \/ MarkClear(p) \/ KillAlrm(p)
           \/ ResetSent(p) \/ ClearSlot(p) \/ CloseSock(p)
    PROVE  FileInv'
<1>1. Alive(p) /\ Now(p).do \in LeaveOps
  BY Zenon DEF user_pipe_clear, ReadFds, MarkClear, KillAlrm, ResetSent, ClearSlot, CloseSock,
               At, Now, LeaveOps
<1>2. p \in Conns /\ "exit" \in Kinds(code[p])
  BY <1>1, Leaver
<1>3. \E s : GoesOn(p, s)
  <2>1. CASE \/ user_pipe_clear(p) \/ ReadFds(p) \/ MarkClear(p) \/ KillAlrm(p) \/ ResetSent(p)
    <3>1. \E s : Goes(p, s)
      BY <2>1, ShortGoes, LongGoes
    <3>. QED  BY <3>1, Going
  <2>2. CASE ClearSlot(p) \/ CloseSock(p)
    <3>1. Continue(p, <<>>) /\ me' = me
      BY <2>2 DEF ClearSlot, CloseSock, Leave, Plain, local
    <3>2. Now(p).do # "exit"
      BY <1>1 DEF LeaveOps
    <3>. QED  BY <1>1, <3>1, <3>2, Empty DEF GoesOn, Form
  <2>. QED  BY <2>1, <2>2
<1>4. LeftKept /\ me' = me
  BY <1>3, GoesHands DEF GoesOn
<1>5. Left(p)'
  BY <1>2, <1>4, LeftIs DEF LeftKept
<1>6. Stamped'
  <2>0. DOMAIN all_clients = Slots /\ \A i \in Slots : "clear_id" \in DOMAIN all_clients[i]
    BY SlotFacts DEF FileInv, Stamped
  <2>1. CASE \/ user_pipe_clear(p) \/ ReadFds(p) \/ KillAlrm(p) \/ CloseSock(p)
    <3>1. UNCHANGED all_clients
      BY <2>1 DEF user_pipe_clear, ReadFds, KillAlrm, Kill, CloseSock, shared
    <3>. QED  BY <2>0, <3>1 DEF Stamped
  <2>2. CASE ResetSent(p)
    BY <2>2, ClearWrites DEF ClearKept
  <2>3. CASE MarkClear(p)
    <3>. DEFINE i == Now(p).to
    <3>1. all_clients' = [all_clients EXCEPT ![i].clear_id = me[p]]
      BY <2>3 DEF MarkClear, Clients
    <3>. HIDE DEF i
    <3>. QED  BY <2>0, <3>1 DEF Stamped
  <2>4. CASE ClearSlot(p)
    <3>. DEFINE r == [FreeSlot EXCEPT !.message = all_clients[me[p]].message]
    <3>1. all_clients' = [all_clients EXCEPT ![me[p]] = r]
      BY <2>4 DEF ClearSlot, Clients
    <3>2. "clear_id" \in DOMAIN r
      BY DEF FreeSlot
    <3>. HIDE DEF r
    <3>. QED  BY <2>0, <3>1, <3>2 DEF Stamped
  <2>. QED  BY <2>1, <2>2, <2>3, <2>4
<1>. QED  BY <1>2, <1>4, <1>5, <1>6, LeavesFiles

(* Steps after which everybody has the same to put down and to close. *)
LEMMA SameHolds ==
    ASSUME FileInv, LeftKept, ClearKept, me' = me, ffds' = ffds,
           \A i, j \in Slots : SameSent(i, j),
           \A q \in Conns : Hands(code[q]) \subseteq Hands(code'[q])
    PROVE  FileInv'
<1>1. \A i \in Slots : Row(i)' = Row(i)
  BY RowSame
<1>2. Quiet => \A q \in Conns : me[q] \in Slots =>
          ffds'[q] \ ffds'[Master] \subseteq Row(me[q])' \cup Hands(code'[q])
  BY <1>1 DEF FileInv, Kept
<1>. QED  BY <1>2, HoldsOn

LEMMA MovesHolds ==
    ASSUME MpInv, PipeInv, FileInv, NEW p \in Procs, NEW d, code[p] # <<>>,
           code' = [code EXCEPT ![p] = d], UNCHANGED <<all_clients, me, ffds>>,
           Hands(code[p]) \subseteq Hands(d), "exit" \in Kinds(code[p]) => "exit" \in Kinds(d)
    PROVE  FileInv'
<1>1. code'[p] = d /\ \A q \in Procs : q # p => code'[q] = code[q]
  BY DEF MpInv, StructInv
<1>2. LeftKept
  <2>. SUFFICES ASSUME NEW e \in Conns, Left(e) PROVE Left(e)'
    BY DEF LeftKept
  <2>0. e \in Procs
    BY ProcsAre
  <2>1. CASE e # p
    BY <1>1, <2>0, <2>1 DEF Left, Gone, Alive, Leaving
  <2>2. CASE e = p
    <3>1. "exit" \in Kinds(code'[e])
      BY <1>1, <2>2, LeftIs
    <3>. QED  BY <3>1 DEF Left, Leaving, Kinds
  <2>. QED  BY <2>1, <2>2
<1>3. ClearKept /\ TableKept
  BY ClearSame, TableSame DEF PipeInv
<1>4. \A i, j \in Slots : SameSent(i, j)
  BY <1>3, TableKeptIs DEF PipeInv
<1>5. \A q \in Conns : Hands(code[q]) \subseteq Hands(code'[q])
  BY <1>1, ProcsAre
<1>. QED  BY <1>2, <1>3, <1>4, <1>5, SameHolds

LEMMA DeliverHolds ==
    ASSUME MpInv, PipeInv, FileInv, NEW p \in Procs, NEW s \in Signals, Deliver(p, s)
    PROVE  FileInv'
<1>1. Alive(p) /\ UNCHANGED <<all_clients, me, ffds>>
  BY DeliverEased
<1>2. PICK d : Eased(d, code[p]) /\ code' = [code EXCEPT ![p] = d]
  BY DeliverEased
<1>3. Hands(d) = Hands(code[p])
  BY <1>2 DEF Hands, Eased
<1>4. "exit" \in Kinds(code[p]) => "exit" \in Kinds(d)
  BY <1>2, EasedKinds, SpecialOps
<1>. QED  BY <1>1, <1>2, <1>3, <1>4, MovesHolds, Zenon DEF Alive

LEMMA TypeHolds ==
    ASSUME MpInv, SlotInv, PipeInv, FileInv, NEW p \in Procs, Type(p)
    PROVE  FileInv'
<1>1. /\ Alive(p) /\ UNCHANGED <<all_clients, me, ffds>>
      /\ \E c \in Commands : code' = [code EXCEPT ![p] = Command(c) \o code[p]]
  BY Zenon DEF Type, At, files
<1>2. PICK c \in Commands : code' = [code EXCEPT ![p] = Command(c) \o code[p]]
  BY <1>1, Zenon
<1>. DEFINE s == Command(c)
            t == code[p]
            d == s \o t
<1>3. IsSeq(s) /\ IsSeq(t)
  BY <1>1, PartCommand, CodeAt DEF Part
<1>4. code' = [code EXCEPT ![p] = d]
  BY <1>2
<1>. HIDE DEF s
<1>5. Hands(d) = Hands(s) \cup Hands(t) /\ Kinds(d) = Kinds(s) \cup Kinds(t)
  BY <1>3, HandsAre, KindsConcat
<1>. HIDE DEF d
<1>. QED  BY <1>1, <1>4, <1>5, MovesHolds, Zenon DEF Alive

LEMMA QuitHolds ==
    ASSUME MpInv, SlotInv, PipeInv, FileInv, NEW p \in Procs, Quit(p)
    PROVE  FileInv'
<1>. DEFINE d == client_logout
<1>1. /\ Alive(p) /\ Now(p).do = "prompt" /\ UNCHANGED <<all_clients, me, ffds>>
      /\ Continue(p, d)
  BY DEF Quit, At, Now, files
<1>2. p \in Conns
  BY <1>1, PromptLast
<1>3. IsSeq(d) /\ "exit" \in Kinds(d)
  BY <1>2, SlackLogout, Zenon DEF Slack
<1>. HIDE DEF d
<1>4. GoesOn(p, d)
  BY <1>1, <1>3 DEF GoesOn
<1>5. code'[p] = d \o Tail(code[p])
  BY <1>4, GoesHands
<1>6. "exit" \in Kinds(code'[p])
  <2>1. IsSeq(Tail(code[p]))
    BY <1>1, CodeAt, HeadTail, Zenon
  <2>. QED  BY <1>3, <1>5, <2>1, KindsConcat
<1>7. Left(p)'
  BY <1>6 DEF Left, Leaving, Kinds
<1>8. Stamped'
  BY <1>1 DEF FileInv, Stamped
<1>. QED  BY <1>1, <1>2, <1>7, <1>8, LeavesFiles

LEMMA CloseOtherHolds ==
    ASSUME MpInv, SlotInv, PipeInv, FileInv, NEW p \in Procs, close_other_client_fd(p)
    PROVE  FileInv'
<1>1. Alive(p) /\ Now(p).do = "close_other"
  BY DEF close_other_client_fd, At, Now
<1>2. CASE Exit(p)
  <2>1. p \in Conns
    BY <1>1, ServerAt DEF ServerOps, Owners
  <2>. QED  BY <1>1, <1>2, <2>1, ExitHolds
<1>3. CASE ~Exit(p)
  <2>1. Continue(p, <<>>) /\ UNCHANGED <<all_clients, me, ffds>>
    BY <1>3 DEF close_other_client_fd, Leave, files
  <2>2. Now(p).do \notin FdOps /\ Now(p).do # "exit"
    BY <1>1 DEF FdOps
  <2>3. GoesOn(p, <<>>)
    BY <1>1, <2>1, <2>2, Empty DEF GoesOn, Form
  <2>4. ClearKept /\ TableKept
    BY <2>1, TableSame, ClearSame DEF PipeInv
  <2>5. \A i, j \in Slots : SameSent(i, j)
    BY <2>4, TableKeptIs DEF PipeInv
  <2>. QED  BY <2>1, <2>2, <2>3, <2>4, <2>5, PlainFiles
<1>. QED  BY <1>2, <1>3

LEMMA ExitProcessHolds ==
    ASSUME MpInv, SlotInv, PipeInv, FileInv, NEW p \in Procs, ExitProcess(p)
    PROVE  FileInv'
<1>1. Alive(p) /\ Now(p).do = "exit" /\ Exit(p)
  BY DEF ExitProcess, At, Now
<1>2. p \in Conns
  BY <1>1, ServerAt DEF ServerOps
<1>. QED  BY <1>1, <1>2, ExitHolds

(* The handler's open returned: the descriptor is to be put down. *)
LEMMA OpenHolds ==
    ASSUME MpInv, SlotInv, PipeInv, FileInv, NEW p \in Procs, NEW q \in Procs, OpenBoth(p, q)
    PROVE  FileInv'
<1>. DEFINE f == fifo[<<me[p], me[q]>>]
            y == [do |-> "set_sent", from |-> me[p], fd |-> f]
            t == Tail(code[p])
            e == Tail(code[q])
            s == <<y>>
            d == s \o e
<1>1. /\ Alive(p) /\ Now(p).do = "open_write" /\ Alive(q) /\ Now(q).do = "open_read"
      /\ ffds' = [ffds EXCEPT ![q] = @ \cup {f}]
      /\ UNCHANGED <<all_clients, me>>
      /\ code' = [code EXCEPT ![p] = t, ![q] = d]
  BY DEF OpenBoth, At, Now, local
<1>2. p # q
  BY <1>1
<1>3. /\ Hands(t) = Hands(code[p]) /\ Hands(e) = Hands(code[q])
      /\ "exit" \in Kinds(code[p]) => "exit" \in Kinds(t)
      /\ "exit" \in Kinds(code[q]) => "exit" \in Kinds(e)
      /\ IsSeq(e)
  <2>1. ASSUME NEW r \in Procs, Alive(r), Now(r).do \in {"open_write", "open_read"}
        PROVE  /\ Hands(Tail(code[r])) = Hands(code[r]) /\ IsSeq(Tail(code[r]))
               /\ "exit" \in Kinds(code[r]) => "exit" \in Kinds(Tail(code[r]))
    <3>1. IsSeq(code[r]) /\ code[r] # <<>> /\ code[r][1].do \in {"open_write", "open_read"}
      BY <2>1, CodeAt
    <3>2. code[r][1].do \notin FdOps /\ code[r][1].do # "exit"
      BY <3>1 DEF FdOps
    <3>. QED  BY <3>1, <3>2, HandsTail, HeadTail, KindsTail, Zenon
  <2>. QED  BY <1>1, <2>1
<1>4. f \in Hands(s) /\ IsSeq(s)
  <2>1. y.do \in FdOps /\ y.fd = f
    BY DEF FdOps
  <2>. HIDE DEF y, f
  <2>. QED  BY <2>1, HandsOne
<1>. HIDE DEF y, s, t, e, f
<1>5. Hands(d) = Hands(s) \cup Hands(e) /\ Kinds(d) = Kinds(s) \cup Kinds(e)
  BY <1>3, <1>4, HandsAre, KindsConcat
<1>. HIDE DEF d
<1>6. /\ code'[p] = t /\ code'[q] = d
      /\ \A r \in Procs : r # p /\ r # q => code'[r] = code[r]
      /\ ffds'[q] = ffds[q] \cup {f} /\ \A r \in Procs : r # q => ffds'[r] = ffds[r]
  <2>1. DOMAIN code = Procs /\ DOMAIN ffds = Procs
    BY <1>1, CodeAt DEF PipeInv, Files
  <2>. QED  BY <1>1, <1>2, <2>1
<1>7. LeftKept
  <2>. SUFFICES ASSUME NEW r \in Conns, Left(r) PROVE Left(r)'
    BY DEF LeftKept
  <2>0. r \in Procs
    BY ProcsAre
  <2>1. CASE r # p /\ r # q
    BY <1>1, <1>6, <2>0, <2>1, Zenon DEF Left, Gone, Alive, Leaving
  <2>2. CASE r = p \/ r = q
    <3>1. "exit" \in Kinds(code[r])
      BY <1>1, <2>2, LeftIs DEF Alive
    <3>2. "exit" \in Kinds(code'[r])
      BY <1>3, <1>5, <1>6, <2>2, <3>1
    <3>. QED  BY <3>2 DEF Left, Leaving, Kinds
  <2>. QED  BY <2>1, <2>2
<1>8. ClearKept /\ \A i \in Slots : Row(i)' = Row(i)
  BY <1>1, ClearSame DEF Row
<1>9. ASSUME Quiet, NEW r \in Conns, me[r] \in Slots
      PROVE  ffds'[r] \ ffds'[Master] \subseteq Row(me[r])' \cup Hands(code'[r])
  <2>1. ffds[r] \ ffds[Master] \subseteq Row(me[r]) \cup Hands(code[r])
    BY <1>9 DEF FileInv, Kept
  <2>2. ffds[Master] \subseteq ffds'[Master] /\ Row(me[r])' = Row(me[r])
    BY <1>1, <1>6, <1>8, <1>9, ProcsAre
  <2>3. Hands(code[r]) \subseteq Hands(code'[r])
    BY <1>3, <1>5, <1>6, ProcsAre
  <2>4. ffds'[r] \subseteq ffds[r] \cup Hands(code'[r])
    BY <1>4, <1>5, <1>6, ProcsAre
  <2>. QED  BY <2>1, <2>2, <2>3, <2>4
<1>. QED  BY <1>1, <1>7, <1>8, <1>9, HoldsOn, Zenon

(* The master's steps do not change what servers do. *)
LEMMA MasterHolds ==
    ASSUME FileInv, ClearKept, UNCHANGED <<me, ffds>>, \A i, j \in Slots : SameSent(i, j),
           \A c \in Conns : code'[c] = code[c]
    PROVE  FileInv'
<1>1. LeftKept
  BY DEF LeftKept, Left, Gone, Alive, Leaving
<1>2. \A q \in Conns : Hands(code[q]) \subseteq Hands(code'[q])
  OBVIOUS
<1>. QED  BY <1>1, <1>2, SameHolds

LEMMA OtherCode ==
    ASSUME MpInv, NEW d, code' = [code EXCEPT ![Master] = d]
    PROVE  \A c \in Conns : code'[c] = code[c]
BY ProcsAre DEF MpInv, StructInv

LEMMA AcceptHolds ==
    ASSUME MpInv, PipeInv, FileInv, Accept
    PROVE  FileInv'
<1>1. UNCHANGED <<all_clients, me, ffds>>
  BY DEF Accept, files
<1>2. \A c \in Conns : code'[c] = code[c]
  BY OtherCode, Zenon DEF Accept
<1>3. ClearKept /\ TableKept
  BY <1>1, ClearSame, TableSame DEF PipeInv
<1>4. \A i, j \in Slots : SameSent(i, j)
  BY <1>3, TableKeptIs DEF PipeInv
<1>. QED  BY <1>1, <1>2, <1>3, <1>4, MasterHolds

LEMMA CloseUnusedHolds ==
    ASSUME MpInv, PipeInv, FileInv, close_unused_fd
    PROVE  FileInv'
<1>1. UNCHANGED <<all_clients, me, ffds>>
  BY DEF close_unused_fd, files
<1>2. \A c \in Conns : code'[c] = code[c]
  BY OtherCode, Zenon DEF close_unused_fd, Leave, Continue
<1>3. ClearKept /\ TableKept
  BY <1>1, ClearSame, TableSame DEF PipeInv
<1>4. \A i, j \in Slots : SameSent(i, j)
  BY <1>3, TableKeptIs DEF PipeInv
<1>. QED  BY <1>1, <1>2, <1>3, <1>4, MasterHolds

LEMMA ClientInitHolds ==
    ASSUME MpInv, SlotInv, PipeInv, FileInv, client_init
    PROVE  FileInv'
<1>. DEFINE i == CHOOSE j \in Slots :
                    /\ ~all_clients[j].uid
                    /\ \A k \in 1..j-1 : all_clients[k].uid
            n == sock[Master]
<1>1. /\ UNCHANGED <<me, ffds>>
      /\ all_clients' = [all_clients EXCEPT ![i].uid = TRUE,
                  ![i].nickname = "(no name)", ![i].fd = n,
                  ![i].sender_id = -1, ![i].clear_id = -1]
  BY Zenon DEF client_init, files, local, Clients
<1>2. \A c \in Conns : code'[c] = code[c]
  BY OtherCode, Zenon DEF client_init, Leave, Continue
<1>. HIDE DEF i, n
<1>3. DOMAIN all_clients = Slots /\ \A j \in Slots : "clear_id" \in DOMAIN all_clients[j]
  BY SlotFacts DEF FileInv, Stamped
<1>4. TableKept
  BY <1>1, <1>3, Zenon DEF TableKept, Table, PipeInv
<1>5. ClearKept
  BY <1>1, <1>3, Zenon DEF ClearKept, Stamped
<1>6. \A k, j \in Slots : SameSent(k, j)
  BY <1>4, TableKeptIs DEF PipeInv
<1>. QED  BY <1>1, <1>2, <1>5, <1>6, MasterHolds, Zenon

LEMMA RegisterHolds ==
    ASSUME MpInv, SlotInv, PipeInv, FileInv, Register
    PROVE  FileInv'
<1>1. /\ Alive(Master) /\ Now(Master).do = "register" /\ UNCHANGED <<all_clients, ffds>>
      /\ me' = [me EXCEPT ![Master] = Now(Master).to]
  BY DEF Register, At, Now, files, Plain
<1>2. \A c \in Conns : code'[c] = code[c]
  BY OtherCode, Zenon DEF Register, Plain, Continue
<1>3. DOMAIN me = Procs /\ Master \in Procs /\ Conns \subseteq Procs /\ Master \notin Conns
  BY ProcsAre DEF SlotInv, Accounts
<1>4. Now(Master).to \in Slots
  <2>1. Now(Master) = code[Master][1] /\ 1 \in DOMAIN code[Master]
    BY <1>1, <1>3, CodeAt
  <2>2. Now(Master).to \in Registered(code[Master])
    BY <1>1, <2>1 DEF Registered
  <2>. QED  BY <2>2 DEF SlotInv, Opening
<1>5. me'[Master] \in Slots /\ \A c \in Conns : me'[c] = me[c]
  BY <1>1, <1>3, <1>4
<1>6. Rooted' /\ Stamped'
  BY <1>1, <1>5 DEF FileInv, Rooted, Stamped
<1>7. Quiet' => Quiet
  BY <1>2, <1>5 DEF Quiet, Left, Gone, Alive, Leaving
<1>8. \A i \in Slots : Row(i)' = Row(i)
  BY <1>1 DEF Row
<1>9. Kept => Kept'
  BY <1>1, <1>2, <1>5, <1>8 DEF Kept
<1>10. Clears => Clears'
  BY <1>1 DEF Clears
<1>. QED  BY <1>6, <1>7, <1>9, <1>10 DEF FileInv

(* A new server has the master's FIFOs. *)
LEMMA ForkHolds ==
    ASSUME MpInv, SlotInv, PipeInv, FileInv, Fork
    PROVE  FileInv'
<1>. DEFINE n == sock[Master]
            i == me[Master]
<1>1. /\ Alive(Master) /\ Now(Master).do = "fork"
      /\ code' = [code EXCEPT ![Master] = Tail(code[Master]), ![n] = Child]
      /\ me' = [me EXCEPT ![n] = i]
      /\ ffds' = [ffds EXCEPT ![n] = ffds[Master]]
      /\ UNCHANGED all_clients
  BY DEF Fork, At, Now
<1>2. /\ DOMAIN code = Procs /\ Master \in Procs /\ Conns \subseteq Procs /\ Master \notin Conns
      /\ DOMAIN me = Procs /\ DOMAIN ffds = Procs
  BY ProcsAre DEF MpInv, StructInv, SlotInv, Accounts, PipeInv, Files
<1>3. n \in Conns /\ code[n] = <<>> /\ me[n] = -1 /\ i \in Slots
  BY <1>1, ForkAt
<1>. HIDE DEF n
<1>4. /\ me'[Master] = i /\ ffds'[Master] = ffds[Master] /\ ffds'[n] = ffds[Master]
      /\ \A q \in Conns : q # n => code'[q] = code[q] /\ me'[q] = me[q] /\ ffds'[q] = ffds[q]
  BY <1>1, <1>2, <1>3
<1>. HIDE DEF i
<1>5. Rooted' /\ Stamped'
  BY <1>1, <1>3, <1>4 DEF FileInv, Rooted, Stamped
<1>6. Quiet' => Quiet
  <2>1. ~Left(n)
    <3>1. Kinds(<<>>) = {}
      BY PartNone DEF Part, Kinds
    <3>2. "exit" \notin Kinds(code[n])
      BY <1>3, <3>1
    <3>. QED  BY <1>3, <3>2, LeftIs
  <2>2. \A q \in Conns : q # n => (Left(q)' <=> Left(q))
    BY <1>4 DEF Left, Gone, Alive, Leaving
  <2>. QED  BY <2>1, <2>2 DEF Quiet
<1>7. \A k \in Slots : Row(k)' = Row(k)
  BY <1>1 DEF Row
<1>8. Kept => Kept'
  <2>. SUFFICES ASSUME Kept, NEW q \in Conns, me'[q] \in Slots
                PROVE  ffds'[q] \ ffds'[Master] \subseteq Row(me[q])' \cup Hands(code'[q])
    BY DEF Kept
  <2>1. CASE q = n
    BY <1>4, <2>1
  <2>2. CASE q # n
    <3>1. me'[q] = me[q] /\ ffds'[q] = ffds[q] /\ code'[q] = code[q] /\ ffds'[Master] = ffds[Master]
      BY <1>4, <2>2
    <3>2. Row(me[q])' = Row(me[q])
      BY <1>1, <3>1 DEF Row
    <3>3. ffds[q] \ ffds[Master] \subseteq Row(me[q]) \cup Hands(code[q])
      BY <3>1 DEF Kept
    <3>. QED  BY <3>1, <3>2, <3>3
  <2>. QED  BY <2>1, <2>2
<1>9. Clears => Clears'
  BY <1>1 DEF Clears
<1>. QED  BY <1>5, <1>6, <1>8, <1>9 DEF FileInv
LEMMA FilesInit ==
    Init => FileInv
<1>. SUFFICES ASSUME Init PROVE FileInv
  OBVIOUS
<1>. DEFINE n == Cardinality(Started)
<1>1. /\ all_clients = [i \in Slots |-> IF i \in Started THEN Login(i) ELSE FreeSlot]
      /\ me = [p \in Procs |-> IF p = Master THEN n ELSE IF p \in Started THEN p ELSE -1]
      /\ ffds = [p \in Procs |-> {}]
  BY DEF Init
<1>2. IsFiniteSet(Started)
  <2>1. IsFiniteSet(Conns)
    BY Bounds, FS_Interval
  <2>. QED  BY <2>1, FS_Subset, MultiProcAssumption, Zenon
<1>3. n \in Nat /\ n <= MAX_CLIENTS /\ Started = 1..n /\ MAX_CLIENTS \in Nat
  BY <1>2, FS_CardinalityType, MultiProcAssumption, Zenon
<1>. HIDE DEF n
<1>4. Rooted
  <2>. SUFFICES ASSUME NEW q \in Conns, me[q] \in Slots
                PROVE  me[Master] \in Slots
    BY DEF Rooted
  <2>1. me[Master] = n /\ q \in Procs /\ q # Master
    BY <1>1, ProcsAre
  <2>2. me[q] # -1
    BY <1>3 DEF Slots
  <2>3. q \in 1..n
    BY <1>1, <1>3, <2>1, <2>2
  <2>4. n \in 1..MAX_CLIENTS
    BY <1>3, <2>3
  <2>. QED  BY <2>1, <2>4 DEF Slots
<1>5. Stamped /\ Clears
  BY <1>1, Zenon DEF Stamped, Clears, Login, FreeSlot
<1>6. Kept
  BY <1>1, ProcsAre DEF Kept
<1>. QED  BY <1>4, <1>5, <1>6 DEF FileInv

LEMMA StepKeepsFiles ==
    ASSUME MpInv, SlotInv, PipeInv, FileInv, NEW p \in Procs, Step(p)
    PROVE  FileInv'
<1>1. CASE \/ Wait(p) \/ Flip(p) \/ Return(p) \/ client_login(p) \/ Bcast(p) \/ Tell(p)
           \/ pass_message(p) \/ PeekBody(p) \/ SemSignal(p) \/ StartJob(p)
           \/ OpenReadFails(p)
           \/ KillIf(p) \/ KillSlot(p) \/ name_exists(p) \/ Rename(p) \/ KillUsr2(p)
           \/ user_pipe_handler(p)
           \/ out_exists(p) \/ in_exists(p) \/ OutFifo(p) \/ InFifo(p) \/ SetSender(p)
           \/ MkFifo(p) \/ UnlinkFifo(p)
  BY <1>1, EasyHolds
<1>2. CASE \/ user_pipe_clear(p) \/ ReadFds(p) \/ MarkClear(p) \/ KillAlrm(p)
           \/ ResetSent(p) \/ ClearSlot(p) \/ CloseSock(p)
  BY <1>2, LeaveHolds
<1>3. CASE user_exit_clear(p)
  BY <1>3, ClearHolds
<1>4. CASE SetSentFd(p) \/ TakeFd(p) \/ CloseIn(p)
  BY <1>4, SentHolds, TakeHolds, CloseHolds
<1>5. CASE close_other_client_fd(p)
  BY <1>5, CloseOtherHolds
<1>6. CASE ExitProcess(p)
  BY <1>6, ExitProcessHolds
<1>. QED  BY <1>1, <1>2, <1>3, <1>4, <1>5, <1>6 DEF Step

LEMMA NextKeepsFiles ==
    ASSUME MpInv, SlotInv, PipeInv, FileInv, [Next]_vars
    PROVE  FileInv'
<1>1. CASE Accept
  BY <1>1, AcceptHolds
<1>2. CASE MasterStep
  BY <1>2, ClientInitHolds, RegisterHolds, ForkHolds, CloseUnusedHolds DEF MasterStep
<1>3. ASSUME NEW p \in Procs, Step(p) PROVE FileInv'
  BY <1>3, StepKeepsFiles
<1>4. ASSUME NEW p \in Procs, NEW q \in Procs, OpenBoth(p, q) PROVE FileInv'
  BY <1>4, OpenHolds
<1>5. ASSUME NEW p \in Procs, NEW s \in Signals, Deliver(p, s) PROVE FileInv'
  BY <1>5, DeliverHolds
<1>6. ASSUME UNCHANGED <<all_clients, code, me, ffds>> PROVE FileInv'
  <2>1. ClearKept /\ \A i, j \in Slots : SameSent(i, j)
    BY <1>6, ClearSame DEF SameSent
  <2>. QED  BY <1>6, <2>1, MasterHolds
<1>7. ASSUME NEW p \in Procs, JobDone(p) PROVE FileInv'
  BY <1>6, <1>7 DEF JobDone, local
<1>8. ASSUME NEW p \in Procs, Type(p) PROVE FileInv'
  BY <1>8, TypeHolds
<1>9. ASSUME NEW p \in Procs, Quit(p) PROVE FileInv'
  BY <1>9, QuitHolds
<1>10. CASE UNCHANGED vars
  BY <1>6, <1>10 DEF vars
<1>. QED  BY <1>1, <1>2, <1>3, <1>4, <1>5, <1>7, <1>8, <1>9, <1>10 DEF Next, System

LEMMA FileInvHolds == Spec => [](MpInv /\ SlotInv /\ PipeInv /\ FileInv)
<1>1. Init => MpInv /\ SlotInv /\ PipeInv /\ FileInv
  BY InitHolds, SlotsInit, PipesInit, FilesInit
<1>2. MpInv /\ SlotInv /\ PipeInv /\ FileInv /\ [Next]_vars => (MpInv /\ SlotInv /\ PipeInv /\ FileInv)'
  BY NextKeeps, NextKeepsSlots, NextKeepsPipes, NextKeepsFiles
<1>. QED  BY <1>1, <1>2, PTL DEF Spec

(***************************************************************************)
(* A FIFO that the server of a logged-in user holds open, and has not      *)
(* inherited, is in a descriptor of the user's slot or in an instruction   *)
(* that is about to store or to close it: without logouts and redirections *)
(* that fail, a server leaks none.                                         *)
(***************************************************************************)
THEOREM FifosKept == Spec => []FifosAccounted
<1>1. ASSUME SlotInv, FileInv PROVE FifosAccounted
  <2>. SUFFICES ASSUME NEW q \in Conns, LoggedIn(q), NEW x \in ffds[q] \ ffds[Master],
                       ~(\E c \in Conns : Left(c)), "badfile" \notin Menu
                PROVE  \/ \E i \in Slots : all_clients[me[q]].sent_fd[i] = x
                       \/ \E k \in DOMAIN code[q] : /\ code[q][k].do \in {"close_in", "set_sent"}
                                                    /\ code[q][k].fd = x
    BY DEF FifosAccounted
  <2>1. Kept
    BY <1>1 DEF FileInv, Quiet
  <2>2. me[q] \in Slots
    BY <1>1 DEF LoggedIn, SlotInv, Marked
  <2>3. x \in Row(me[q]) \cup Hands(code[q])
    BY <2>1, <2>2 DEF Kept
  <2>4. CASE x \in Row(me[q])
    BY <2>4 DEF Row
  <2>5. CASE x \in Hands(code[q])
    <3>1. PICK y \in Spc(code[q]) : y.do \in FdOps /\ y.fd = x
      BY <2>5 DEF Hands
    <3>2. PICK k \in DOMAIN code[q] : code[q][k] = y
      BY <3>1 DEF Spc, Ins
    <3>. QED  BY <3>1, <3>2 DEF FdOps
  <2>. QED  BY <2>3, <2>4, <2>5
<1>2. MpInv /\ SlotInv /\ PipeInv /\ FileInv => FifosAccounted
  BY <1>1
<1>. QED  BY <1>2, FileInvHolds, PTL
=============================================================================
