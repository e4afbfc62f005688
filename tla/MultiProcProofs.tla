-------------------------- MODULE MultiProcProofs --------------------------
(***************************************************************************)
(* Theorems about the processes of np_multi_proc, for any number of slots, *)
(* clients and commands, and signals delivered anywhere.                   *)
(***************************************************************************)
EXTENDS MultiProc, SequenceTheorems, FiniteSetTheorems, WellFoundedInduction, TLAPS

(*********************************** Sums *********************************)

LEMMA Bounds == MaxConn \in Nat /\ Procs = 0..MaxConn /\ Master = 0 /\ Conns = 1..MaxConn
<1>1. MaxConn \in Nat
  BY MultiProcAssumption, Zenon
<1>2. {0} \cup (1..MaxConn) = 0..MaxConn
  BY <1>1
<1>. QED  BY <1>1, <1>2 DEF Procs, Conns, Master

LEMMA Least ==
    ASSUME NEW T, T \subseteq Nat, T # {}
    PROVE  \E x \in T : \A y \in T : x <= y
<1>. DEFINE R == OpToRel(<, Nat)
<1>1. IsWellFoundedOn(R, Nat)
  BY NatLessThanWellFounded, Zenon
<1>2. \A x, y \in Nat : y < x => <<y, x>> \in R
  BY DEF OpToRel
<1>. HIDE DEF R
<1>3. PICK x \in T : \A y \in T : <<y, x>> \notin R
  BY <1>1, WFMin, Zenon
<1>4. ASSUME NEW y \in T PROVE x <= y
  <2>1. x \in Nat /\ y \in Nat
    OBVIOUS
  <2>2. ~(y < x)
    BY <1>2, <1>3, <1>4, <2>1, Zenon
  <2>. QED  BY <2>1, <2>2
<1>. QED  BY <1>4

(* Induction up to n: if a set of numbers has 0 and, with each number      *)
(* below n, the next, it has all up to n. *)
LEMMA UpTo ==
    ASSUME NEW n \in Nat, NEW T, 0 \in T, \A k \in 0..n : k < n /\ k \in T => k + 1 \in T
    PROVE  \A k \in 0..n : k \in T
<1>. DEFINE F == {k \in 0..n : k \notin T}
<1>1. SUFFICES ASSUME F # {} PROVE FALSE
  OBVIOUS
<1>2. F \subseteq Nat
  OBVIOUS
<1>3. PICK x \in F : \A y \in F : x <= y
  <2>. HIDE DEF F
  <2>. QED  BY <1>1, <1>2, Least, Zenon
<1>4. x \in 0..n /\ x \notin T /\ x # 0
  OBVIOUS
<1>5. x - 1 \in 0..n /\ x - 1 < n /\ x - 1 + 1 = x /\ ~(x <= x - 1)
  BY <1>4
<1>6. x - 1 \in T
  BY <1>3, <1>5
<1>. QED  BY <1>4, <1>5, <1>6

(* s has the partial sums of f. *)
Sums(s, f) ==
    /\ s \in [Procs -> Int]
    /\ s[0] = f[0]
    /\ \A p \in Conns : s[p] = f[p] + s[p-1]

LEMMA SumsExist ==
    ASSUME NEW f \in [Procs -> Int]
    PROVE  \E s : Sums(s, f)
<1>. DEFINE To(n, s) == /\ s \in [0..n -> Int] /\ s[0] = f[0]
                        /\ \A p \in 1..n : s[p] = f[p] + s[p-1]
            T == {n \in 0..MaxConn : \E s : To(n, s)}
<1>1. MaxConn \in Nat /\ Procs = 0..MaxConn /\ Conns = 1..MaxConn
  BY Bounds
<1>2. 0 \in T
  <2>. DEFINE s == [k \in 0..0 |-> f[0]]
  <2>1. 0 \in 0..0 /\ \A p \in 1..0 : FALSE
    OBVIOUS
  <2>2. f[0] \in Int /\ 0 \in 0..MaxConn
    BY <1>1
  <2>3. s \in [0..0 -> Int] /\ s[0] = f[0]
    BY <2>1, <2>2
  <2>4. To(0, s)
    BY <2>1, <2>3
  <2>. QED  BY <2>2, <2>4, Zenon
<1>3. ASSUME NEW n \in 0..MaxConn, n < MaxConn, n \in T
      PROVE  n + 1 \in T
  <2>1. PICK s : To(n, s)
    BY <1>3
  <2>. DEFINE t == [k \in 0..n+1 |-> IF k <= n THEN s[k] ELSE f[k] + s[n]]
  <2>2. n + 1 \in 0..MaxConn /\ n \in 0..n
    BY <1>1, <1>3
  <2>3. ASSUME NEW k \in 0..n+1 PROVE (IF k <= n THEN s[k] ELSE f[k] + s[n]) \in Int
    <3>1. CASE k <= n
      <4>1. k \in 0..n
        BY <3>1
      <4>. QED  BY <2>1, <3>1, <4>1
    <3>2. CASE ~(k <= n)
      <4>1. k \in Procs
        BY <1>1, <2>2
      <4>2. f[k] \in Int /\ s[n] \in Int
        BY <2>1, <2>2, <4>1
      <4>. QED  BY <3>2, <4>2
    <3>. QED  BY <3>1, <3>2
  <2>4. t \in [0..n+1 -> Int]
    BY <2>3
  <2>5. t[0] = f[0]
    <3>1. 0 \in 0..n+1 /\ 0 <= n
      BY <1>3
    <3>. QED  BY <2>1, <3>1
  <2>6. ASSUME NEW p \in 1..n+1 PROVE t[p] = f[p] + t[p-1]
    <3>1. p \in 0..n+1 /\ p-1 \in 0..n+1 /\ p-1 <= n /\ p-1 \in 0..n
      BY <1>3
    <3>2. t[p-1] = s[p-1]
      BY <3>1
    <3>3. CASE p <= n
      <4>1. p \in 1..n
        BY <3>3
      <4>2. t[p] = s[p]
        BY <3>1, <3>3
      <4>. QED  BY <2>1, <3>2, <4>1, <4>2
    <3>4. CASE ~(p <= n)
      <4>1. p-1 = n
        BY <1>3, <3>4
      <4>2. t[p] = f[p] + s[n]
        BY <3>1, <3>4
      <4>. QED  BY <3>2, <4>1, <4>2
    <3>. QED  BY <3>3, <3>4
  <2>7. To(n + 1, t)
    <3>. HIDE DEF t
    <3>. QED  BY <2>4, <2>5, <2>6
  <2>. QED  BY <2>2, <2>7, Zenon
<1>. HIDE DEF T
<1>4. \A n \in 0..MaxConn : n \in T
  BY <1>1, <1>2, <1>3, UpTo, Zenon
<1>5. PICK s : To(MaxConn, s)
  <2>1. MaxConn \in T
    BY <1>1, <1>4
  <2>. QED  BY <2>1 DEF T
<1>. QED  BY <1>1, <1>5, Zenon DEF Sums

LEMMA SumIs ==
    ASSUME NEW f \in [Procs -> Int]
    PROVE  \E s : Sums(s, f) /\ Sum(f) = s[MaxConn]
<1>. DEFINE Body(s) == [p \in Procs |-> f[p] + IF p = Master THEN 0 ELSE s[p-1]]
            s0 == CHOOSE s : s = Body(s)
<1>0. MaxConn \in Nat /\ Procs = 0..MaxConn /\ Master = 0 /\ Conns = 1..MaxConn
  BY Bounds
<1>1. Sum(f) = s0[MaxConn]
  BY DEF Sum
<1>2. PICK s : Sums(s, f)
  BY SumsExist
<1>3. s \in [Procs -> Int] /\ s[0] = f[0] /\ \A p \in Conns : s[p] = f[p] + s[p-1]
  BY <1>2 DEF Sums
<1>4. s = Body(s)
  <2>1. ASSUME NEW p \in Procs PROVE s[p] = f[p] + IF p = Master THEN 0 ELSE s[p-1]
    <3>1. CASE p = 0
      <4>1. f[p] \in Int
        OBVIOUS
      <4>. QED  BY <1>0, <1>3, <3>1, <4>1
    <3>2. CASE p # 0
      <4>1. p \in Conns
        BY <1>0, <3>2
      <4>. QED  BY <1>0, <1>3, <3>2, <4>1
    <3>. QED  BY <3>1, <3>2
  <2>. QED  BY <1>3, <2>1
<1>5. s0 = Body(s0)
  <2>. HIDE DEF Body
  <2>. QED  BY <1>4
<1>6. ASSUME NEW p \in Procs PROVE s0[p] = f[p] + IF p = Master THEN 0 ELSE s0[p-1]
  <2>1. Body(s0)[p] = f[p] + IF p = Master THEN 0 ELSE s0[p-1]
    <3>. HIDE DEF s0
    <3>. QED  OBVIOUS
  <2>. HIDE DEF s0, Body
  <2>. QED  BY <1>5, <2>1
<1>. HIDE DEF s0, Body
<1>. DEFINE T == {p \in Procs : s0[p] = s[p]}
<1>7. 0 \in T
  <2>1. 0 \in Procs /\ f[0] \in Int
    BY <1>0
  <2>. QED  BY <1>0, <1>3, <1>6, <2>1
<1>8. ASSUME NEW p \in 0..MaxConn, p < MaxConn, p \in T PROVE p + 1 \in T
  <2>1. p + 1 \in Procs /\ p + 1 \in Conns /\ p + 1 # 0 /\ p + 1 - 1 = p
    BY <1>0, <1>8
  <2>2. s0[p+1] = f[p+1] + IF p + 1 = Master THEN 0 ELSE s0[p + 1 - 1]
    BY <1>6, <2>1
  <2>3. s0[p+1] = f[p+1] + s0[p]
    BY <1>0, <2>1, <2>2
  <2>4. s[p+1] = f[p+1] + s[p]
    BY <1>0, <1>3, <2>1
  <2>5. s0[p] = s[p]
    BY <1>8
  <2>. QED  BY <2>1, <2>3, <2>4, <2>5
<1>9. \A p \in 0..MaxConn : p \in T
  <2>. HIDE DEF T
  <2>. QED  BY <1>0, <1>7, <1>8, UpTo, Zenon
<1>10. s0[MaxConn] = s[MaxConn]
  BY <1>0, <1>9
<1>. QED  BY <1>1, <1>2, <1>10

LEMMA SumType ==
    ASSUME NEW f \in [Procs -> Int]
    PROVE  Sum(f) \in Int
<1>1. MaxConn \in Procs
  BY Bounds
<1>. QED  BY <1>1, SumIs DEF Sums

(* A change of one value changes the sum by as much. *)
LEMMA SumAdd ==
    ASSUME NEW f \in [Procs -> Int], NEW g \in [Procs -> Int],
           NEW p \in Procs, NEW a \in Int, g[p] = f[p] + a,
           \A q \in Procs \ {p} : g[q] = f[q]
    PROVE  Sum(g) = Sum(f) + a
<1>0. MaxConn \in Nat /\ Procs = 0..MaxConn /\ Conns = 1..MaxConn
  BY Bounds
<1>1. PICK s : Sums(s, f) /\ Sum(f) = s[MaxConn]
  BY SumIs
<1>2. PICK t : Sums(t, g) /\ Sum(g) = t[MaxConn]
  BY SumIs
<1>3. /\ s \in [Procs -> Int] /\ s[0] = f[0] /\ \A q \in Conns : s[q] = f[q] + s[q-1]
      /\ t \in [Procs -> Int] /\ t[0] = g[0] /\ \A q \in Conns : t[q] = g[q] + t[q-1]
  BY <1>1, <1>2 DEF Sums
<1>. DEFINE T == {q \in Procs : t[q] = s[q] + IF q >= p THEN a ELSE 0}
<1>4. 0 \in T
  <2>1. 0 \in Procs /\ f[0] \in Int /\ g[0] \in Int /\ s[0] \in Int
    BY <1>0, <1>3
  <2>2. CASE p = 0
    BY <1>3, <2>1, <2>2
  <2>3. CASE p # 0
    <3>1. ~(0 >= p) /\ g[0] = f[0]
      BY <1>0, <2>1, <2>3
    <3>. QED  BY <1>3, <2>1, <3>1
  <2>. QED  BY <2>2, <2>3
<1>5. ASSUME NEW q \in 0..MaxConn, q < MaxConn, q \in T PROVE q + 1 \in T
  <2>1. q + 1 \in Procs /\ q + 1 \in Conns /\ q + 1 - 1 = q /\ q \in Procs
    BY <1>0, <1>5
  <2>. DEFINE r == q + 1
  <2>2. /\ f[r] \in Int /\ g[r] \in Int /\ s[q] \in Int /\ t[q] \in Int
        /\ s[r] = f[r] + s[q] /\ t[r] = g[r] + t[q]
    BY <1>3, <2>1
  <2>3. t[q] = s[q] + IF q >= p THEN a ELSE 0
    BY <1>5
  <2>4. CASE r = p
    <3>1. ~(q >= p) /\ r >= p
      BY <1>0, <2>4
    <3>2. g[r] = f[r] + a
      BY <2>4
    <3>. HIDE DEF r
    <3>3. t[r] = s[r] + a
      BY <2>2, <2>3, <3>1, <3>2
    <3>. QED  BY <2>1, <3>1, <3>3 DEF r
  <2>5. CASE r # p
    <3>1. (q >= p <=> r >= p) /\ g[r] = f[r]
      BY <1>0, <2>1, <2>5
    <3>. HIDE DEF r
    <3>2. t[r] = s[r] + IF r >= p THEN a ELSE 0
      BY <2>2, <2>3, <3>1
    <3>. QED  BY <2>1, <3>2 DEF r
  <2>. QED  BY <2>4, <2>5
<1>6. \A q \in 0..MaxConn : q \in T
  <2>. HIDE DEF T
  <2>. QED  BY <1>0, <1>4, <1>5, UpTo, Zenon
<1>7. MaxConn \in 0..MaxConn /\ MaxConn >= p
  BY <1>0
<1>. QED  BY <1>1, <1>2, <1>6, <1>7

(* A sum of numbers none of which is positive is not positive. *)
LEMMA SumSign ==
    ASSUME NEW f \in [Procs -> Int], \A p \in Procs : f[p] <= 0
    PROVE  Sum(f) <= 0
<1>0. MaxConn \in Nat /\ Procs = 0..MaxConn /\ Conns = 1..MaxConn
  BY Bounds
<1>1. PICK s : Sums(s, f) /\ Sum(f) = s[MaxConn]
  BY SumIs
<1>2. s \in [Procs -> Int] /\ s[0] = f[0] /\ \A q \in Conns : s[q] = f[q] + s[q-1]
  BY <1>1 DEF Sums
<1>. DEFINE T == {q \in Procs : s[q] <= 0}
<1>3. 0 \in T
  BY <1>0, <1>2
<1>4. ASSUME NEW q \in 0..MaxConn, q < MaxConn, q \in T PROVE q + 1 \in T
  <2>1. q + 1 \in Procs /\ q + 1 \in Conns /\ q + 1 - 1 = q /\ q \in Procs
    BY <1>0, <1>4
  <2>. DEFINE r == q + 1
  <2>2. f[r] \in Int /\ s[q] \in Int /\ s[r] = f[r] + s[q] /\ f[r] <= 0 /\ s[q] <= 0
    BY <1>2, <1>4, <2>1
  <2>. HIDE DEF r
  <2>3. s[r] <= 0
    BY <2>2
  <2>. QED  BY <2>1, <2>3 DEF r
<1>5. \A q \in 0..MaxConn : q \in T
  <2>. HIDE DEF T
  <2>. QED  BY <1>0, <1>3, <1>4, UpTo, Zenon
<1>. QED  BY <1>0, <1>1, <1>5

LEMMA SumZero ==
    Sum([p \in Procs |-> 0]) = 0
<1>. DEFINE f == [p \in Procs |-> 0]
<1>0. MaxConn \in Nat /\ Procs = 0..MaxConn /\ Conns = 1..MaxConn
  BY Bounds
<1>1. f \in [Procs -> Int]
  OBVIOUS
<1>2. PICK s : Sums(s, f) /\ Sum(f) = s[MaxConn]
  <2>. HIDE DEF f
  <2>. QED  BY <1>1, SumIs
<1>3. s \in [Procs -> Int] /\ s[0] = 0 /\ \A q \in Conns : s[q] = 0 + s[q-1]
  BY <1>0, <1>2 DEF Sums
<1>. DEFINE T == {q \in Procs : s[q] = 0}
<1>4. 0 \in T
  BY <1>0, <1>3
<1>5. ASSUME NEW q \in 0..MaxConn, q < MaxConn, q \in T PROVE q + 1 \in T
  <2>1. q + 1 \in Procs /\ q + 1 \in Conns /\ q + 1 - 1 = q
    BY <1>0, <1>5
  <2>. QED  BY <1>3, <1>5, <2>1
<1>6. \A q \in 0..MaxConn : q \in T
  <2>. HIDE DEF T
  <2>. QED  BY <1>0, <1>4, <1>5, UpTo
<1>. QED  BY <1>0, <1>2, <1>6

(***************************** Instructions *******************************)

Waits == {"wait", "flip"}

IsSeq(c) == c \in Seq({c[k] : k \in DOMAIN c})

(* A wait is followed by the body it is for. *)
Guarded(c) ==
    \A k \in DOMAIN c : c[k].do \in Waits => k + 1 \in DOMAIN c /\ c[k+1].do \in Bodies

(* A name is set that was not found in the table. *)
Checked(c) ==
    \A k \in DOMAIN c : c[k].do = "set_name" =>
        \A i \in Slots : c[k].checked[i] # c[k].name

Form(c) == IsSeq(c) /\ Guarded(c) /\ Checked(c)

(* The sections entered and not left, and how many they are. *)
Entered(c) ==
    {k \in DOMAIN c : c[k].do \in Bodies /\ (k = 1 \/ c[k-1].do \notin Waits)}
Depth(c) == Cardinality(Entered(c))

LEMMA SeqIs ==
    ASSUME NEW S, NEW c \in Seq(S)
    PROVE  IsSeq(c)
<1>1. Len(c) \in Nat /\ DOMAIN c = 1..Len(c) /\ c \in [1..Len(c) -> S]
  BY LenProperties
<1>. DEFINE R == {c[k] : k \in DOMAIN c}
<1>2. c \in [1..Len(c) -> R]
  BY <1>1
<1>3. c \in UNION {[1..n -> R] : n \in Nat}
  <2>. HIDE DEF R
  <2>. QED  BY <1>1, <1>2, Zenon
<1>4. c \in Seq(R)
  <2>. HIDE DEF R
  <2>. QED  BY <1>3, SeqDef
<1>. QED  BY <1>4 DEF IsSeq

LEMMA Empty ==
    /\ Form(<<>>) /\ Entered(<<>>) = {} /\ Depth(<<>>) = 0
<1>1. DOMAIN <<>> = {}
  OBVIOUS
<1>2. IsSeq(<<>>)
  BY EmptySeq, SeqIs, Zenon
<1>3. Entered(<<>>) = {}
  BY <1>1 DEF Entered
<1>. QED  BY <1>1, <1>2, <1>3, FS_EmptySet DEF Form, Guarded, Checked, Depth

LEMMA Concat ==
    ASSUME NEW s, NEW c, IsSeq(s), IsSeq(c)
    PROVE  /\ IsSeq(s \o c)
           /\ Len(s) \in Nat /\ Len(c) \in Nat
           /\ DOMAIN s = 1..Len(s) /\ DOMAIN c = 1..Len(c)
           /\ DOMAIN (s \o c) = 1..Len(s)+Len(c)
           /\ \A k \in 1..Len(s) : (s \o c)[k] = s[k]
           /\ \A k \in 1..Len(c) : (s \o c)[Len(s)+k] = c[k]
<1>. DEFINE S == {s[k] : k \in DOMAIN s} \cup {c[k] : k \in DOMAIN c}
<1>1. s \in Seq(S) /\ c \in Seq(S)
  <2>1. s \in Seq({s[k] : k \in DOMAIN s}) /\ c \in Seq({c[k] : k \in DOMAIN c})
    BY DEF IsSeq
  <2>. QED  BY <2>1, SeqMonotonic
<1>. HIDE DEF S
<1>2. /\ s \o c \in Seq(S) /\ Len(s \o c) = Len(s) + Len(c)
  BY <1>1, ConcatProperties
<1>3. \A i \in 1..Len(s)+Len(c) : (s \o c)[i] = IF i <= Len(s) THEN s[i] ELSE c[i-Len(s)]
  BY <1>1, ConcatProperties
<1>4. Len(s) \in Nat /\ Len(c) \in Nat /\ DOMAIN s = 1..Len(s) /\ DOMAIN c = 1..Len(c)
  BY <1>1, LenProperties
<1>5. DOMAIN (s \o c) = 1..Len(s)+Len(c)
  BY <1>2, LenProperties
<1>6. ASSUME NEW k \in 1..Len(s) PROVE (s \o c)[k] = s[k]
  <2>1. k \in 1..Len(s)+Len(c) /\ k <= Len(s)
    BY <1>4
  <2>. QED  BY <1>3, <2>1
<1>7. ASSUME NEW k \in 1..Len(c) PROVE (s \o c)[Len(s)+k] = c[k]
  <2>. DEFINE j == Len(s) + k
  <2>1. j \in 1..Len(s)+Len(c) /\ ~(j <= Len(s)) /\ j - Len(s) = k
    BY <1>4
  <2>. HIDE DEF j
  <2>2. (s \o c)[j] = c[j-Len(s)]
    BY <1>3, <2>1
  <2>. QED  BY <2>1, <2>2 DEF j
<1>. QED  BY <1>2, <1>4, <1>5, <1>6, <1>7, SeqIs, Zenon

LEMMA EnteredFinite ==
    ASSUME NEW c, IsSeq(c)
    PROVE  IsFiniteSet(Entered(c)) /\ Depth(c) \in Nat
<1>1. Len(c) \in Nat /\ DOMAIN c = 1..Len(c)
  BY LenProperties DEF IsSeq
<1>2. IsFiniteSet(1..Len(c))
  BY <1>1, FS_Interval
<1>3. Entered(c) \subseteq 1..Len(c)
  BY <1>1 DEF Entered
<1>. QED  BY <1>2, <1>3, FS_Subset, FS_CardinalityType DEF Depth

(* Well-formed sequences put together are one. *)
LEMMA ConcatForm ==
    ASSUME NEW s, NEW c, Form(s), Form(c)
    PROVE  Form(s \o c)
<1>. DEFINE t == s \o c
            l == Len(s)
            m == Len(c)
<1>1. /\ IsSeq(t) /\ l \in Nat /\ m \in Nat
      /\ DOMAIN s = 1..l /\ DOMAIN c = 1..m /\ DOMAIN t = 1..l+m
      /\ \A k \in 1..l : t[k] = s[k]
      /\ \A k \in 1..m : t[l+k] = c[k]
  BY Concat DEF Form
<1>. HIDE DEF t, l, m
<1>2. ASSUME NEW k \in 1..l+m
      PROVE  k \in 1..l \/ \E j \in 1..m : k = l + j
  <2>1. CASE k <= l
    BY <1>1, <2>1
  <2>2. CASE ~(k <= l)
    <3>1. k - l \in 1..m /\ k = l + (k - l)
      BY <1>1, <2>2
    <3>. QED  BY <3>1
  <2>. QED  BY <2>1, <2>2
<1>3. Guarded(t)
  <2>. SUFFICES ASSUME NEW k \in 1..l+m, t[k].do \in Waits
                PROVE  k + 1 \in 1..l+m /\ t[k+1].do \in Bodies
    BY <1>1 DEF Guarded
  <2>1. CASE k \in 1..l
    <3>1. k + 1 \in 1..l /\ s[k+1].do \in Bodies
      BY <1>1, <2>1, Zenon DEF Form, Guarded
    <3>2. k + 1 \in 1..l+m
      BY <1>1, <3>1
    <3>. QED  BY <1>1, <3>1, <3>2
  <2>2. ASSUME NEW j \in 1..m, k = l + j
        PROVE  k + 1 \in 1..l+m /\ t[k+1].do \in Bodies
    <3>1. j + 1 \in 1..m /\ c[j+1].do \in Bodies
      BY <1>1, <2>2, Zenon DEF Form, Guarded
    <3>2. k + 1 = l + (j + 1) /\ k + 1 \in 1..l+m
      BY <1>1, <2>2, <3>1
    <3>. QED  BY <1>1, <3>1, <3>2, Zenon
  <2>. QED  BY <1>2, <2>1, <2>2
<1>4. Checked(t)
  <2>. SUFFICES ASSUME NEW k \in 1..l+m, t[k].do = "set_name", NEW i \in Slots
                PROVE  t[k].checked[i] # t[k].name
    BY <1>1 DEF Checked
  <2>1. CASE k \in 1..l
    BY <1>1, <2>1 DEF Form, Checked
  <2>2. ASSUME NEW j \in 1..m, k = l + j
        PROVE  t[k].checked[i] # t[k].name
    <3>1. t[k] = c[j]
      BY <1>1, <2>2
    <3>2. c[j].do = "set_name" => c[j].checked[i] # c[j].name
      BY <1>1, Zenon DEF Form, Checked
    <3>. QED  BY <3>1, <3>2
  <2>. QED  BY <1>2, <2>1, <2>2
<1>. QED  BY <1>1, <1>3, <1>4 DEF Form, t

(* Sections are entered in one or the other. *)
LEMMA ConcatDepth ==
    ASSUME NEW s, NEW c, Form(s), Form(c)
    PROVE  Depth(s \o c) = Depth(s) + Depth(c)
<1>. DEFINE t == s \o c
            l == Len(s)
            m == Len(c)
            E == Entered(s)
            F == Entered(c)
            G == {l + k : k \in F}
<1>1. /\ IsSeq(t) /\ l \in Nat /\ m \in Nat
      /\ DOMAIN s = 1..l /\ DOMAIN c = 1..m /\ DOMAIN t = 1..l+m
      /\ \A k \in 1..l : t[k] = s[k]
      /\ \A k \in 1..m : t[l+k] = c[k]
  BY Concat DEF Form
<1>2. IsFiniteSet(E) /\ IsFiniteSet(F) /\ Depth(s) \in Nat /\ Depth(c) \in Nat
  BY EnteredFinite DEF Form
<1>. HIDE DEF t, l, m
<1>3. l # 0 => s[l].do \notin Waits
  <2>. SUFFICES ASSUME l # 0, s[l].do \in Waits PROVE FALSE
    OBVIOUS
  <2>1. l \in 1..l /\ ~(l + 1 \in 1..l)
    BY <1>1
  <2>. QED  BY <1>1, <2>1 DEF Form, Guarded
<1>4. ASSUME NEW k \in 1..l PROVE k \in Entered(t) <=> k \in E
  <2>1. k \in 1..l+m /\ (k # 1 => k-1 \in 1..l)
    BY <1>1
  <2>. QED  BY <1>1, <2>1 DEF Entered
<1>5. ASSUME NEW k \in 1..m PROVE l + k \in Entered(t) <=> k \in F
  <2>1. l + k \in 1..l+m
    BY <1>1
  <2>2. l + k = 1 \/ t[l+k-1].do \notin Waits <=> k = 1 \/ c[k-1].do \notin Waits
    <3>1. CASE k = 1
      <4>1. CASE l = 0
        <5>1. l + k = 1
          BY <3>1, <4>1
        <5>. QED  BY <3>1, <5>1
      <4>2. CASE l # 0
        <5>1. l + k - 1 = l /\ l \in 1..l
          BY <1>1, <3>1, <4>2
        <5>. QED  BY <1>1, <1>3, <3>1, <4>2, <5>1
      <4>. QED  BY <4>1, <4>2
    <3>2. CASE k # 1
      <4>1. k - 1 \in 1..m /\ l + k - 1 = l + (k - 1) /\ l + k # 1
        BY <1>1, <3>2
      <4>2. t[l+k-1] = c[k-1]
        BY <1>1, <4>1
      <4>. QED  BY <3>2, <4>1, <4>2
    <3>. QED  BY <3>1, <3>2
  <2>. QED  BY <1>1, <2>1, <2>2 DEF Entered
<1>6. E \subseteq 1..l /\ F \subseteq 1..m /\ Entered(t) \subseteq 1..l+m
  BY <1>1 DEF Entered
<1>. HIDE DEF E, F
<1>7. Entered(t) = E \cup G
  <2>1. ASSUME NEW k \in Entered(t) PROVE k \in E \cup G
    <3>1. CASE k \in 1..l
      BY <1>4, <2>1, <3>1
    <3>2. CASE ~(k \in 1..l)
      <4>1. k - l \in 1..m /\ k = l + (k - l)
        <5>1. k \in 1..l+m
          BY <1>6, <2>1
        <5>. QED  BY <1>1, <3>2, <5>1
      <4>2. k - l \in F
        BY <1>5, <2>1, <4>1
      <4>. QED  BY <4>1, <4>2
    <3>. QED  BY <3>1, <3>2
  <2>2. E \subseteq Entered(t)
    BY <1>4, <1>6
  <2>3. G \subseteq Entered(t)
    BY <1>5, <1>6
  <2>. QED  BY <2>1, <2>2, <2>3
<1>8. E \cap G = {}
  <2>1. \A k \in F : l + k \notin 1..l
    BY <1>1, <1>6
  <2>. QED  BY <1>6, <2>1, Zenon
<1>9. IsFiniteSet(G) /\ Cardinality(G) = Cardinality(F)
  <2>. DEFINE f == [k \in F |-> l + k]
              g == [k \in G |-> k - l]
  <2>1. \A k \in F : l + k - l = k /\ k \in Int
    BY <1>1, <1>6
  <2>2. f \in Surjection(F, G)
    <3>1. f \in [F -> G] /\ \A x \in G : \E k \in F : f[k] = x
      OBVIOUS
    <3>. QED  BY <3>1 DEF Surjection
  <2>3. \A i, j \in F : f[i] = f[j] => i = j
    <3>. SUFFICES ASSUME NEW i \in F, NEW j \in F, f[i] = f[j] PROVE i = j
      OBVIOUS
    <3>1. l + i = l + j /\ i \in Int /\ j \in Int
      BY <2>1
    <3>. QED  BY <1>1, <3>1
  <2>4. f \in Injection(F, G)
    <3>1. f \in [F -> G]
      OBVIOUS
    <3>. HIDE DEF f
    <3>. QED  BY <2>3, <3>1 DEF Injection, IsInjective
  <2>5. f \in Bijection(F, G)
    BY <2>2, <2>4 DEF Bijection
  <2>. HIDE DEF f, G
  <2>6. IsFiniteSet(F) /\ ExistsBijection(F, G)
    BY <1>2, <2>5 DEF ExistsBijection
  <2>. QED  BY <2>6, FS_Bijection
<1>. HIDE DEF G
<1>10. Cardinality(Entered(t)) = Cardinality(E) + Cardinality(F) - Cardinality({})
  BY <1>2, <1>7, <1>8, <1>9, FS_Union DEF E, F
<1>11. Cardinality({}) = 0
  BY FS_EmptySet
<1>. QED  BY <1>2, <1>10, <1>11 DEF Depth, E, F, t

LEMMA HeadTail ==
    ASSUME NEW c, IsSeq(c), c # <<>>
    PROVE  /\ Len(c) \in Nat \ {0} /\ DOMAIN c = 1..Len(c) /\ 1 \in DOMAIN c /\ Head(c) = c[1]
           /\ IsSeq(Tail(c)) /\ Len(Tail(c)) = Len(c) - 1 /\ DOMAIN Tail(c) = 1..Len(c)-1
           /\ \A k \in 1..Len(c)-1 : Tail(c)[k] = c[k+1]
           /\ c = <<c[1]>> \o Tail(c)
<1>. DEFINE S == {c[k] : k \in DOMAIN c}
<1>1. c \in Seq(S)
  BY DEF IsSeq
<1>. HIDE DEF S
<1>2. Len(c) \in Nat \ {0} /\ DOMAIN c = 1..Len(c)
  BY <1>1, EmptySeq, LenProperties
<1>3. 1 \in 1..Len(c) /\ Len(c) \in 1..Len(c)
  BY <1>2
<1>4. /\ Tail(c) \in Seq(S) /\ Len(Tail(c)) = Len(c) - 1
      /\ \A k \in 1..Len(Tail(c)) : Tail(c)[k] = c[k+1]
  BY <1>1, HeadTailProperties
<1>5. DOMAIN Tail(c) = 1..Len(c)-1
  BY <1>4, LenProperties
<1>6. Head(c) = c[1]
  BY <1>1, <1>3
<1>7. c = <<c[1]>> \o Tail(c)
  <2>1. c = SubSeq(c, 1, Len(c))
    BY <1>1, SubSeqFull
  <2>2. SubSeq(c, 1, Len(c)) = <<c[1]>> \o SubSeq(c, 1+1, Len(c))
    <3>1. Len(c) \in 1..Len(c) /\ 1 \in 1..Len(c)
      BY <1>3
    <3>. QED  BY <1>1, <3>1, SubSeqRecursiveFirst
  <2>3. Tail(c) = SubSeq(c, 2, Len(c))
    BY <1>1, TailIsSubSeq
  <2>. QED  BY <2>1, <2>2, <2>3
<1>8. IsSeq(Tail(c))
  BY <1>4, SeqIs, Zenon
<1>. QED  BY <1>2, <1>3, <1>4, <1>5, <1>6, <1>7, <1>8

Sound(x) == x.do = "set_name" => \A i \in Slots : x.checked[i] # x.name

(* What a sequence without sections, or with one, is worth. *)
LEMMA PlainSeq ==
    ASSUME NEW s, IsSeq(s), \A k \in DOMAIN s : s[k].do \notin Waits \cup Bodies
    PROVE  Form(s) /\ Depth(s) = 0
<1>1. "set_name" \in Bodies
  BY DEF Bodies
<1>2. Guarded(s) /\ Checked(s) /\ Entered(s) = {}
  BY <1>1 DEF Guarded, Checked, Entered
<1>. QED  BY <1>2, FS_EmptySet DEF Form, Depth

LEMMA Singleton ==
    ASSUME NEW x
    PROVE  IsSeq(<<x>>) /\ DOMAIN <<x>> = {1} /\ <<x>>[1] = x
<1>1. <<x>> \in Seq({x}) /\ DOMAIN <<x>> = 1..1 /\ <<x>>[1] = x
  OBVIOUS
<1>2. 1..1 = {1}
  OBVIOUS
<1>. QED  BY <1>1, <1>2, SeqIs, Zenon

LEMMA Body ==
    ASSUME NEW x, x.do \in Bodies, Sound(x)
    PROVE  Form(<<x>>) /\ Depth(<<x>>) = 1
<1>1. x.do \notin Waits
  BY DEF Bodies, Waits
<1>2. IsSeq(<<x>>) /\ DOMAIN <<x>> = {1} /\ <<x>>[1] = x
  BY Singleton
<1>. DEFINE s == <<x>>
<1>. HIDE DEF s
<1>3. IsSeq(s) /\ DOMAIN s = {1} /\ s[1] = x
  BY <1>2 DEF s
<1>4. Guarded(s) /\ Checked(s)
  BY <1>1, <1>3 DEF Guarded, Checked, Sound
<1>5. Entered(s) = {1}
  BY <1>1, <1>3 DEF Entered
<1>. QED  BY <1>3, <1>4, <1>5, FS_Singleton DEF Form, Depth, s

LEMMA Guard ==
    ASSUME NEW x, NEW y, x.do \in Waits, y.do \in Bodies, Sound(y)
    PROVE  Form(<<x, y>>) /\ Depth(<<x, y>>) = 0
<1>1. x.do \notin Bodies /\ x.do # "set_name" /\ y.do \notin Waits
  BY DEF Bodies, Waits
<1>2. <<x, y>> \in Seq({x, y}) /\ DOMAIN <<x, y>> = 1..2 /\ <<x, y>>[1] = x /\ <<x, y>>[2] = y
  OBVIOUS
<1>. DEFINE s == <<x, y>>
<1>. HIDE DEF s
<1>3. IsSeq(s) /\ DOMAIN s = {1, 2} /\ s[1] = x /\ s[2] = y
  <2>1. 1..2 = {1, 2}
    OBVIOUS
  <2>. QED  BY <1>2, <2>1, SeqIs, Zenon DEF s
<1>4. 1 + 1 = 2 /\ 2 - 1 = 1
  OBVIOUS
<1>5. Guarded(s)
  <2>1. s[1].do \in Waits => 1 + 1 \in DOMAIN s /\ s[1+1].do \in Bodies
    BY <1>3, <1>4
  <2>2. s[2].do \notin Waits
    BY <1>1, <1>3
  <2>. QED  BY <1>3, <2>1, <2>2 DEF Guarded
<1>6. Checked(s)
  BY <1>1, <1>3 DEF Checked, Sound
<1>7. Entered(s) = {}
  <2>1. s[1].do \notin Bodies
    BY <1>1, <1>3
  <2>2. 2 # 1 /\ s[2-1].do \in Waits
    BY <1>3, <1>4
  <2>. QED  BY <1>3, <2>1, <2>2 DEF Entered
<1>. QED  BY <1>3, <1>5, <1>6, <1>7, FS_EmptySet DEF Form, Depth, s

LEMMA TailForm ==
    ASSUME NEW c, Form(c), c # <<>>
    PROVE  Form(Tail(c))
<1>. DEFINE t == Tail(c)
            l == Len(c)
<1>1. /\ l \in Nat \ {0} /\ DOMAIN c = 1..l /\ IsSeq(t) /\ DOMAIN t = 1..l-1
      /\ \A k \in 1..l-1 : t[k] = c[k+1]
  BY HeadTail, Zenon DEF Form
<1>. HIDE DEF t, l
<1>2. ASSUME NEW k \in 1..l-1 PROVE k + 1 \in 1..l
  BY <1>1
<1>3. ASSUME NEW k \in 1..l-1, k + 1 + 1 \in 1..l PROVE k + 1 \in 1..l-1
  BY <1>1, <1>3
<1>4. Guarded(t)
  <2>. SUFFICES ASSUME NEW k \in 1..l-1, t[k].do \in Waits
                PROVE  k + 1 \in 1..l-1 /\ t[k+1].do \in Bodies
    BY <1>1 DEF Guarded
  <2>1. k + 1 + 1 \in 1..l /\ c[k+1+1].do \in Bodies
    BY <1>1, <1>2, Zenon DEF Form, Guarded
  <2>2. k + 1 \in 1..l-1
    BY <1>3, <2>1
  <2>. QED  BY <1>1, <2>1, <2>2
<1>5. Checked(t)
  <2>. SUFFICES ASSUME NEW k \in 1..l-1, t[k].do = "set_name", NEW i \in Slots
                PROVE  t[k].checked[i] # t[k].name
    BY <1>1 DEF Checked
  <2>1. t[k] = c[k+1] /\ k + 1 \in DOMAIN c
    BY <1>1, <1>2
  <2>. QED  BY <2>1 DEF Form, Checked
<1>. QED  BY <1>1, <1>4, <1>5 DEF Form, t

(* A step past one that is neither, past a body, past a wait. *)
LEMMA PlainTail ==
    ASSUME NEW c, Form(c), c # <<>>, c[1].do \notin Waits \cup Bodies
    PROVE  Depth(Tail(c)) = Depth(c)
<1>1. c = <<c[1]>> \o Tail(c) /\ Form(Tail(c))
  BY HeadTail, TailForm DEF Form
<1>2. Form(<<c[1]>>) /\ Depth(<<c[1]>>) = 0
  BY Singleton, PlainSeq
<1>3. Depth(c) = 0 + Depth(Tail(c))
  BY <1>1, <1>2, ConcatDepth, Zenon
<1>. QED  BY <1>1, <1>3, EnteredFinite DEF Form

LEMMA BodyTail ==
    ASSUME NEW c, Form(c), c # <<>>, c[1].do \in Bodies
    PROVE  Depth(Tail(c)) = Depth(c) - 1
<1>1. c = <<c[1]>> \o Tail(c) /\ Form(Tail(c)) /\ 1 \in DOMAIN c
  BY HeadTail, TailForm DEF Form
<1>2. Sound(c[1])
  BY <1>1 DEF Form, Checked, Sound
<1>3. Form(<<c[1]>>) /\ Depth(<<c[1]>>) = 1
  BY <1>2, Body
<1>4. Depth(c) = 1 + Depth(Tail(c))
  BY <1>1, <1>3, ConcatDepth, Zenon
<1>. QED  BY <1>1, <1>4, EnteredFinite DEF Form

(* What follows a wait, or a flip x in its place. *)
LEMMA WaitTail ==
    ASSUME NEW c, Form(c), c # <<>>, c[1].do \in Waits
    PROVE  /\ Depth(Tail(c)) = Depth(c) + 1
           /\ \A x : x.do \in Waits =>
                 Form(<<x>> \o Tail(c)) /\ Depth(<<x>> \o Tail(c)) = Depth(c)
<1>. DEFINE t == Tail(c)
            u == Tail(t)
            y == t[1]
<1>1. c = <<c[1]>> \o t /\ Form(t) /\ 1 \in DOMAIN c /\ DOMAIN c = 1..Len(c) /\ Len(c) \in Nat
      /\ DOMAIN t = 1..Len(c)-1 /\ \A k \in 1..Len(c)-1 : t[k] = c[k+1]
  BY HeadTail, TailForm DEF Form
<1>2. 1 + 1 \in DOMAIN c /\ c[1+1].do \in Bodies
  BY <1>1 DEF Form, Guarded
<1>3. 1 \in DOMAIN t /\ y.do \in Bodies
  <2>1. 1 \in 1..Len(c)-1
    BY <1>1, <1>2
  <2>. QED  BY <1>1, <1>2, <2>1
<1>. HIDE DEF t
<1>4. t # <<>>
  <2>1. DOMAIN <<>> = {}
    OBVIOUS
  <2>. QED  BY <1>3, <2>1
<1>5. t = <<y>> \o u /\ Form(u) /\ IsSeq(u)
  BY <1>1, <1>4, HeadTail, TailForm DEF Form
<1>6. Sound(y)
  BY <1>1, <1>3 DEF Form, Checked, Sound
<1>. HIDE DEF u, y
<1>7. Depth(t) = 1 + Depth(u)
  <2>1. Form(<<y>>) /\ Depth(<<y>>) = 1
    BY <1>3, <1>6, Body
  <2>. QED  BY <1>5, <2>1, ConcatDepth
<1>8. ASSUME NEW x, x.do \in Waits
      PROVE  Form(<<x>> \o t) /\ Depth(<<x>> \o t) = Depth(u)
  <2>1. <<x>> \o t = <<x, y>> \o u
    <3>. DEFINE S == {x, y} \cup {u[k] : k \in DOMAIN u}
    <3>1. u \in Seq(S)
      <4>1. u \in Seq({u[k] : k \in DOMAIN u})
        BY <1>5 DEF IsSeq
      <4>. QED  BY <4>1, SeqMonotonic
    <3>2. x \in S /\ y \in S
      OBVIOUS
    <3>. HIDE DEF S
    <3>3. <<x>> \in Seq(S) /\ <<y>> \in Seq(S)
      BY <3>2
    <3>4. (<<x>> \o <<y>>) \o u = <<x>> \o (<<y>> \o u)
      BY <3>1, <3>3, ConcatAssociative
    <3>5. <<x>> \o <<y>> = <<x, y>>
      <4>. DEFINE s == <<x>> \o <<y>>
      <4>1. s \in Seq({x, y}) /\ Len(s) = 2 /\ s[1] = x /\ s[2] = y
        OBVIOUS
      <4>2. <<x, y>> \in Seq({x, y}) /\ Len(<<x, y>>) = 2
        OBVIOUS
      <4>3. \A k \in 1..2 : k = 1 \/ k = 2
        OBVIOUS
      <4>4. \A k \in 1..2 : s[k] = <<x, y>>[k]
        <5>. HIDE DEF s
        <5>. QED  BY <4>1, <4>3
      <4>. HIDE DEF s
      <4>. QED  BY <4>1, <4>2, <4>4, SeqEqual, Zenon DEF s
    <3>. QED  BY <1>5, <3>4, <3>5
  <2>2. Form(<<x, y>>) /\ Depth(<<x, y>>) = 0
    BY <1>3, <1>6, <1>8, Guard
  <2>3. Depth(<<x, y>> \o u) = 0 + Depth(u) /\ Form(<<x, y>> \o u)
    BY <1>5, <2>2, ConcatDepth, ConcatForm
  <2>4. 0 + Depth(u) = Depth(u)
    BY <1>5, EnteredFinite
  <2>. QED  BY <2>1, <2>3, <2>4, Zenon
<1>9. Depth(c) = Depth(u)
  <2>1. Depth(<<c[1]>> \o t) = Depth(u)
    BY <1>8
  <2>. QED  BY <1>1, <2>1, Zenon
<1>10. Depth(t) = Depth(c) + 1
  BY <1>5, <1>7, <1>9, EnteredFinite
<1>. QED  BY <1>8, <1>9, <1>10 DEF t

----------------------------------------------------------------------------
(* Instructions of which there is at most one, or none before a signal has *)
(* broken a wait. *)
Starts == {"client_init", "fork"}
Marks == Starts \cup {"accept", "flip"}

Kinds(c) == {c[k].do : k \in DOMAIN c}
Pends(c) == {k \in DOMAIN c : c[k].do \in Starts}
Order(c) ==
    /\ \A k \in DOMAIN c : c[k].do = "accept" => k = Len(c)
    /\ \A j, k \in Pends(c) : j = k

(* What a step may make of the code c. *)
Follows(d, c, broken) ==
    /\ Form(d)
    /\ Order(c) => Order(d)
    /\ Pends(d) # {} => Pends(c) # {}
    /\ "flip" \in Kinds(d) => "flip" \in Kinds(c) \/ broken

Piece(s) == Form(s) /\ Depth(s) = 0 /\ Kinds(s) \cap Marks = {}

LEMMA KindsConcat ==
    ASSUME NEW s, NEW c, IsSeq(s), IsSeq(c)
    PROVE  Kinds(s \o c) = Kinds(s) \cup Kinds(c)
<1>. DEFINE t == s \o c
            l == Len(s)
            m == Len(c)
<1>1. /\ l \in Nat /\ m \in Nat
      /\ DOMAIN s = 1..l /\ DOMAIN c = 1..m /\ DOMAIN t = 1..l+m
      /\ \A k \in 1..l : t[k] = s[k]
      /\ \A k \in 1..m : t[l+k] = c[k]
  BY Concat
<1>. HIDE DEF t, l, m
<1>2. ASSUME NEW k \in 1..l+m PROVE t[k].do \in Kinds(s) \cup Kinds(c)
  <2>1. CASE k <= l
    <3>1. k \in 1..l
      BY <1>1, <2>1
    <3>. QED  BY <1>1, <3>1 DEF Kinds
  <2>2. CASE ~(k <= l)
    <3>1. k - l \in 1..m /\ k = l + (k - l)
      BY <1>1, <2>2
    <3>2. t[k] = c[k-l]
      BY <1>1, <3>1
    <3>. QED  BY <1>1, <3>1, <3>2, Zenon DEF Kinds
  <2>. QED  BY <2>1, <2>2
<1>3. \A k \in 1..l : k \in 1..l+m
  BY <1>1
<1>4. \A k \in 1..m : l+k \in 1..l+m
  BY <1>1
<1>5. ASSUME NEW k \in 1..l PROVE s[k].do \in Kinds(t)
  BY <1>1, <1>3 DEF Kinds
<1>6. ASSUME NEW k \in 1..m PROVE c[k].do \in Kinds(t)
  BY <1>1, <1>4, Zenon DEF Kinds
<1>7. Kinds(t) \subseteq Kinds(s) \cup Kinds(c)
  BY <1>1, <1>2 DEF Kinds
<1>8. Kinds(s) \subseteq Kinds(t) /\ Kinds(c) \subseteq Kinds(t)
  BY <1>1, <1>5, <1>6, Zenon DEF Kinds
<1>. QED  BY <1>7, <1>8 DEF t

LEMMA PieceEmpty == Piece(<<>>)
<1>1. DOMAIN <<>> = {}
  OBVIOUS
<1>. QED  BY <1>1, Empty DEF Piece, Kinds

LEMMA PieceConcat ==
    ASSUME NEW s, NEW t, Piece(s), Piece(t)
    PROVE  Piece(s \o t)
<1>1. Form(s \o t) /\ Depth(s \o t) = 0 + 0
  BY ConcatForm, ConcatDepth DEF Piece
<1>2. Kinds(s \o t) = Kinds(s) \cup Kinds(t)
  BY KindsConcat DEF Piece, Form
<1>. QED  BY <1>1, <1>2 DEF Piece

LEMMA PieceOne ==
    ASSUME NEW x, x.do \notin Waits \cup Bodies \cup Marks
    PROVE  Piece(<<x>>)
<1>1. IsSeq(<<x>>) /\ DOMAIN <<x>> = {1} /\ <<x>>[1] = x
  BY Singleton
<1>2. Form(<<x>>) /\ Depth(<<x>>) = 0
  BY <1>1, PlainSeq
<1>. QED  BY <1>1, <1>2 DEF Piece, Kinds

LEMMA PieceEach ==
    ASSUME NEW op, op \notin Waits \cup Bodies \cup Marks
    PROVE  Piece([i \in Slots |-> On(op, i)])
<1>. DEFINE s == [i \in Slots |-> On(op, i)]
            S == {On(op, i) : i \in Slots}
<1>1. Slots = 1..MAX_CLIENTS /\ MAX_CLIENTS \in Nat
  BY MultiProcAssumption, Zenon DEF Slots
<1>2. s \in [1..MAX_CLIENTS -> S]
  BY <1>1
<1>3. s \in UNION {[1..n -> S] : n \in Nat}
  <2>. HIDE DEF s, S
  <2>. QED  BY <1>1, <1>2
<1>4. s \in Seq(S)
  <2>. HIDE DEF s, S
  <2>. QED  BY <1>3, SeqDef
<1>5. \A k \in DOMAIN s : s[k].do = op
  BY DEF On
<1>. HIDE DEF s
<1>6. Form(s) /\ Depth(s) = 0
  BY <1>4, <1>5, SeqIs, PlainSeq
<1>. QED  BY <1>5, <1>6 DEF Piece, Kinds, s

LEMMA PieceSection ==
    ASSUME NEW y, y.do \in Bodies \ Marks, Sound(y)
    PROVE  Piece(Section(y))
<1>1. Do("wait").do = "wait" /\ "wait" \in Waits /\ "wait" \notin Marks
  BY DEF Do, Waits, Marks, Starts
<1>2. Form(Section(y)) /\ Depth(Section(y)) = 0
  BY <1>1, Guard DEF Section
<1>3. Kinds(Section(y)) = {"wait", y.do}
  <2>. DEFINE x == Do("wait")
  <2>. HIDE DEF x
  <2>1. DOMAIN <<x, y>> = 1..2 /\ <<x, y>>[1] = x /\ <<x, y>>[2] = y
    OBVIOUS
  <2>2. 1..2 = {1, 2}
    OBVIOUS
  <2>3. Kinds(<<x, y>>) = {x.do, y.do}
    BY <2>1, <2>2 DEF Kinds
  <2>. QED  BY <1>1, <2>3 DEF Section, x
<1>. QED  BY <1>1, <1>2, <1>3 DEF Piece

LEMMA FollowsSelf ==
    ASSUME NEW c, Form(c), NEW b
    PROVE  Follows(c, c, b)
BY DEF Follows

LEMMA FollowsNone ==
    ASSUME NEW c, NEW b
    PROVE  Follows(<<>>, c, b)
<1>1. DOMAIN <<>> = {}
  OBVIOUS
<1>. QED  BY <1>1, Empty DEF Follows, Order, Pends, Kinds

LEMMA FollowsTail ==
    ASSUME NEW c, Form(c), c # <<>>, NEW b
    PROVE  /\ Follows(Tail(c), c, b)
           /\ Order(c) /\ c[1].do \in Starts => Pends(Tail(c)) = {}
           /\ Order(c) /\ c[1].do = "accept" => Pends(c) = {}
<1>. DEFINE t == Tail(c)
            l == Len(c)
<1>1. /\ l \in Nat \ {0} /\ DOMAIN c = 1..l /\ 1 \in DOMAIN c
      /\ Len(t) = l - 1 /\ DOMAIN t = 1..l-1
      /\ \A k \in 1..l-1 : t[k] = c[k+1]
  BY HeadTail DEF Form
<1>2. Form(t)
  BY TailForm
<1>. HIDE DEF t
<1>3. \A k \in 1..l-1 : k + 1 \in 1..l /\ k + 1 # 1 /\ (k + 1 = l <=> k = l - 1)
  BY <1>1
<1>4. Order(c) => Order(t)
  <2>. SUFFICES ASSUME Order(c) PROVE Order(t)
    OBVIOUS
  <2>1. ASSUME NEW k \in DOMAIN t, t[k].do = "accept" PROVE k = Len(t)
    BY <1>1, <1>3, <2>1 DEF Order
  <2>2. ASSUME NEW j \in Pends(t), NEW k \in Pends(t) PROVE j = k
    <3>1. j \in 1..l-1 /\ k \in 1..l-1
      BY <1>1 DEF Pends
    <3>2. j + 1 \in Pends(c) /\ k + 1 \in Pends(c)
      BY <1>1, <1>3, <3>1 DEF Pends
    <3>3. j + 1 = k + 1
      BY <3>2 DEF Order
    <3>. QED  BY <1>1, <3>1, <3>3
  <2>. QED  BY <2>1, <2>2 DEF Order
<1>5. \A k \in Pends(t) : k + 1 \in Pends(c) /\ k + 1 # 1
  BY <1>1, <1>3 DEF Pends
<1>6. Kinds(t) \subseteq Kinds(c)
  BY <1>1, <1>3 DEF Kinds
<1>7. Order(c) /\ c[1].do \in Starts => Pends(t) = {}
  <2>1. c[1].do \in Starts => 1 \in Pends(c)
    BY <1>1 DEF Pends
  <2>. QED  BY <1>5, <2>1 DEF Order
<1>8. Order(c) /\ c[1].do = "accept" => Pends(c) = {}
  <2>. SUFFICES ASSUME Order(c), c[1].do = "accept" PROVE Pends(c) = {}
    OBVIOUS
  <2>1. l = 1
    BY <1>1 DEF Order
  <2>2. \A k \in 1..l : k = 1
    BY <2>1
  <2>3. "accept" \notin Starts
    BY DEF Starts
  <2>. QED  BY <1>1, <2>2, <2>3 DEF Pends
<1>9. Follows(t, c, b)
  BY <1>2, <1>4, <1>5, <1>6 DEF Follows
<1>. QED  BY <1>7, <1>8, <1>9 DEF t

(* What is put before the rest keeps its order. *)
LEMMA FollowsPiece ==
    ASSUME NEW s, Form(s), Kinds(s) \cap (Marks \ {"flip"}) = {},
           NEW b, "flip" \in Kinds(s) => b,
           NEW c, NEW r, Follows(r, c, b)
    PROVE  Follows(s \o r, c, b)
<1>. DEFINE t == s \o r
            l == Len(s)
            m == Len(r)
<1>1. /\ l \in Nat /\ m \in Nat
      /\ DOMAIN s = 1..l /\ DOMAIN r = 1..m /\ DOMAIN t = 1..l+m
      /\ \A k \in 1..l : t[k] = s[k]
      /\ \A k \in 1..m : t[l+k] = r[k]
      /\ IsSeq(t)
  BY Concat DEF Form, Follows
<1>2. Form(t)
  BY ConcatForm DEF Follows
<1>3. Kinds(t) = Kinds(s) \cup Kinds(r)
  BY KindsConcat DEF Form, Follows
<1>4. Len(t) = l + m
  <2>1. Len(t) \in Nat /\ DOMAIN t = 1..Len(t)
    BY <1>1, LenProperties DEF IsSeq
  <2>2. 1..Len(t) = 1..l+m
    BY <1>1, <2>1
  <2>. HIDE DEF t, l, m
  <2>3. l + m \in Nat
    BY <1>1
  <2>4. Len(t) <= l + m
    <3>1. Len(t) # 0 => Len(t) \in 1..Len(t)
      BY <2>1
    <3>. QED  BY <2>1, <2>2, <2>3, <3>1
  <2>5. l + m <= Len(t)
    <3>1. l + m # 0 => l + m \in 1..l+m
      BY <2>3
    <3>. QED  BY <2>1, <2>2, <2>3, <3>1
  <2>. QED  BY <2>1, <2>3, <2>4, <2>5
<1>. HIDE DEF t, l, m
<1>5. \A k \in 1..l : s[k].do \notin Marks \ {"flip"}
  BY <1>1, Zenon DEF Kinds
<1>6. Starts \subseteq Marks \ {"flip"} /\ "accept" \in Marks \ {"flip"}
  BY DEF Starts, Marks
<1>7. ASSUME NEW k \in 1..l+m, t[k].do \in Marks \ {"flip"}
      PROVE  k - l \in 1..m /\ k = l + (k - l) /\ t[k] = r[k-l]
  <2>1. ~(k \in 1..l)
    BY <1>1, <1>5, <1>7
  <2>2. k - l \in 1..m /\ k = l + (k - l)
    BY <1>1, <2>1
  <2>. QED  BY <1>1, <2>2
<1>8. \A k \in Pends(t) : k - l \in Pends(r) /\ k \in Int
  <2>. SUFFICES ASSUME NEW k \in Pends(t) PROVE k - l \in Pends(r) /\ k \in Int
    OBVIOUS
  <2>1. k \in 1..l+m /\ t[k].do \in Starts
    BY <1>1 DEF Pends
  <2>2. k - l \in 1..m /\ t[k] = r[k-l]
    BY <1>6, <1>7, <2>1
  <2>. QED  BY <1>1, <2>1, <2>2 DEF Pends
<1>9. Order(r) => Order(t)
  <2>. SUFFICES ASSUME Order(r) PROVE Order(t)
    OBVIOUS
  <2>1. ASSUME NEW k \in DOMAIN t, t[k].do = "accept" PROVE k = Len(t)
    <3>1. k - l \in 1..m /\ k = l + (k - l) /\ t[k] = r[k-l]
      BY <1>1, <1>6, <1>7, <2>1
    <3>2. k - l = m
      BY <1>1, <2>1, <3>1 DEF Order, m
    <3>. QED  BY <1>4, <3>1, <3>2
  <2>2. ASSUME NEW j \in Pends(t), NEW k \in Pends(t) PROVE j = k
    <3>1. j - l = k - l /\ j \in Int /\ k \in Int
      BY <1>8 DEF Order
    <3>. QED  BY <1>1, <3>1
  <2>. QED  BY <2>1, <2>2 DEF Order
<1>10. Pends(t) # {} => Pends(r) # {}
  BY <1>8
<1>11. Follows(t, c, b)
  BY <1>2, <1>3, <1>9, <1>10 DEF Follows
<1>. QED  BY <1>11 DEF t

(* Where a signal may leave the code it interrupts. *)
LEMMA FollowsFlip ==
    ASSUME NEW c, Form(c), c # <<>>, c[1].do = "wait", NEW b, b
    PROVE  Follows(<<Do("flip")>> \o Tail(c), c, b)
<1>. DEFINE x == Do("flip")
<1>1. x.do = "flip"
  BY DEF Do
<1>. HIDE DEF x
<1>2. "flip" \in Waits /\ "flip" \notin Marks \ {"flip"} /\ "wait" \in Waits
  BY DEF Waits
<1>3. Form(<<x>> \o Tail(c))
  BY <1>1, <1>2, WaitTail
<1>. DEFINE t == Tail(c)
            l == Len(c)
<1>4. /\ l \in Nat \ {0} /\ DOMAIN c = 1..l /\ IsSeq(t) /\ DOMAIN t = 1..l-1
      /\ \A k \in 1..l-1 : t[k] = c[k+1]
      /\ Len(t) = l - 1
  BY HeadTail, Zenon DEF Form
<1>5. IsSeq(<<x>>) /\ <<x>>[1] = x /\ Len(<<x>>) = 1
  BY Singleton
<1>. DEFINE u == <<x>> \o t
<1>6. /\ DOMAIN u = 1..1+(l-1) /\ u[1] = x /\ \A k \in 1..l-1 : u[1+k] = t[k]
  BY <1>4, <1>5, Concat
<1>7. Kinds(u) \subseteq {"flip"} \cup Kinds(c) /\ IsSeq(u)
  <2>1. Kinds(t) \subseteq Kinds(c)
    <3>1. \A k \in 1..l-1 : k + 1 \in 1..l
      BY <1>4
    <3>. HIDE DEF t, l
    <3>. QED  BY <1>4, <3>1 DEF Kinds
  <2>2. Kinds(<<x>>) = {"flip"}
    <3>1. DOMAIN <<x>> = {1}
      BY Singleton
    <3>. QED  BY <1>1, <1>5, <3>1 DEF Kinds
  <2>3. Kinds(u) = Kinds(<<x>>) \cup Kinds(t)
    BY <1>4, <1>5, KindsConcat
  <2>4. IsSeq(u)
    BY <1>3 DEF Form
  <2>. QED  BY <2>1, <2>2, <2>3, <2>4
<1>. HIDE DEF t, u, l
<1>8. DOMAIN u = 1..l /\ \A k \in 1..l : k # 1 => u[k] = c[k]
  <2>1. 1 + (l - 1) = l
    BY <1>4
  <2>2. ASSUME NEW k \in 1..l, k # 1 PROVE u[k] = c[k]
    <3>1. k - 1 \in 1..l-1 /\ 1 + (k - 1) = k /\ (k - 1) + 1 = k
      BY <1>4, <2>2
    <3>. QED  BY <1>4, <1>6, <3>1, Zenon
  <2>. QED  BY <1>6, <2>1, <2>2
<1>9. u[1].do \notin Starts \cup {"accept"}
  BY <1>1, <1>6 DEF Starts
<1>10. Pends(u) \subseteq Pends(c)
  BY <1>4, <1>8, <1>9 DEF Pends
<1>11. Len(u) = l
  <2>1. Len(u) \in Nat /\ 1..Len(u) = 1..l
    BY <1>7, <1>8, LenProperties DEF IsSeq
  <2>2. Len(u) # 0 => Len(u) \in 1..Len(u)
    BY <2>1
  <2>3. l \in 1..l
    BY <1>4
  <2>4. Len(u) <= l
    BY <1>4, <2>1, <2>2
  <2>5. l <= Len(u)
    BY <1>4, <2>1, <2>3
  <2>. QED  BY <1>4, <2>1, <2>4, <2>5
<1>12. Order(c) => Order(u)
  BY <1>4, <1>8, <1>9, <1>10, <1>11 DEF Order, l
<1>13. Follows(u, c, b)
  BY <1>3, <1>7, <1>10, <1>12 DEF Follows, u, t
<1>. QED  BY <1>13, Zenon DEF u, t, x

----------------------------------------------------------------------------
(* What the processes are given to execute is made of pieces. *)
PlainOps ==
    {"register", "killif", "killslot", "out_fifo", "mkfifo", "open_write", "job",
     "user_pipe_handler", "open_read", "set_sent", "in_fifo", "close_in", "unlink",
     "user_pipe_clear", "kill_alrm", "close", "exit", "prompt", "return"}

LEMMA Ops ==
    /\ PlainOps \cap (Waits \cup Bodies \cup Marks) = {}
    /\ Waits \cap Bodies = {}
    /\ Bodies \cap Marks = {"client_init"}
    /\ "set_name" \in Bodies /\ "signal" \in Bodies
BY DEF PlainOps, Waits, Bodies, Marks, Starts

LEMMA OnePlain ==
    ASSUME NEW x, x.do \in PlainOps
    PROVE  Piece(<<x>>)
BY Ops, PieceOne

LEMMA SafeSection ==
    ASSUME NEW x, x.do \in Bodies \ {"client_init", "set_name"}
    PROVE  Piece(Section(x))
<1>1. x.do \in Bodies \ Marks /\ Sound(x)
  BY Ops DEF Sound
<1>. QED  BY <1>1, PieceSection

LEMMA PiecePeek == Piece(Peek)
<1>1. Do("peek").do \in Bodies \ {"client_init", "set_name"}
  BY DEF Do, Bodies
<1>. QED  BY <1>1, SafeSection DEF Peek

LEMMA PieceBroadcast == Piece(broadcast)
<1>1. Do("bcast").do \in Bodies \ {"client_init", "set_name"}
  BY DEF Do, Bodies
<1>2. "killif" \in PlainOps
  BY DEF PlainOps
<1>3. Piece([i \in Slots |-> On("killif", i)])
  BY <1>2, Ops, PieceEach
<1>. QED  BY <1>1, <1>3, SafeSection, PieceConcat DEF broadcast

LEMMA PieceHandler ==
    ASSUME NEW p \in Procs, NEW s \in Signals
    PROVE  Piece(Handler(p, s))
<1>. DEFINE h == CASE s = "usr1" -> Section(Do("pass_message"))
                   [] s = "usr2" -> <<Do("user_pipe_handler")>>
                   [] s = "alrm" -> Section(Do("user_exit_clear"))
                   [] s = "chld" -> IF p = Master THEN Section(Do("close_unused_fd")) ELSE <<>>
            r == [do |-> "return", sig |-> s]
<1>1. /\ Do("pass_message").do \in Bodies \ {"client_init", "set_name"}
      /\ Do("user_exit_clear").do \in Bodies \ {"client_init", "set_name"}
      /\ Do("close_unused_fd").do \in Bodies \ {"client_init", "set_name"}
      /\ Do("user_pipe_handler").do \in PlainOps
      /\ r.do \in PlainOps
  BY DEF Do, Bodies, PlainOps
<1>2. /\ Piece(Section(Do("pass_message"))) /\ Piece(Section(Do("user_exit_clear")))
      /\ Piece(Section(Do("close_unused_fd"))) /\ Piece(<<Do("user_pipe_handler")>>)
      /\ Piece(<<r>>) /\ Piece(<<>>)
  BY <1>1, SafeSection, OnePlain, PieceEmpty
<1>3. Piece(h)
  <2>1. s = "usr1" \/ s = "usr2" \/ s = "alrm" \/ s = "chld"
    BY DEF Signals
  <2>. QED  BY <1>2, <2>1
<1>. HIDE DEF h
<1>4. Handler(p, s) = h \o <<r>>
  BY DEF Handler, h
<1>. QED  BY <1>2, <1>3, <1>4, PieceConcat

LEMMA PieceChild == Piece(Child)
<1>1. /\ Do("close_other").do \in Bodies \ {"client_init", "set_name"}
      /\ Do("set_pid").do \in Bodies \ {"client_init", "set_name"}
      /\ Do("prompt").do \in PlainOps
  BY DEF Do, Bodies, PlainOps
<1>2. Piece(Section(Do("close_other"))) /\ Piece(Section(Do("set_pid"))) /\ Piece(<<Do("prompt")>>)
  BY <1>1, SafeSection, OnePlain
<1>3. Piece(Section(Do("close_other")) \o Section(Do("set_pid")))
  BY <1>2, PieceConcat
<1>4. Piece(Section(Do("close_other")) \o Section(Do("set_pid")) \o broadcast)
  BY <1>3, PieceBroadcast, PieceConcat
<1>. QED  BY <1>2, <1>4, PieceConcat DEF Child

LEMMA PieceLogout == Piece(client_logout)
<1>. DEFINE e == [i \in Slots |-> On("user_pipe_clear", i)]
            x == Do("close")
            y == Do("exit")
<1>1. /\ Do("clear_slot").do \in Bodies \ {"client_init", "set_name"}
      /\ x.do \in PlainOps /\ y.do \in PlainOps /\ "user_pipe_clear" \in PlainOps
  BY DEF Do, Bodies, PlainOps
<1>2. Piece(e)
  BY <1>1, Ops, PieceEach
<1>3. Piece(<<x, y>>)
  <2>1. x.do \notin Waits \cup Bodies \cup Marks /\ y.do \notin Waits \cup Bodies \cup Marks
    BY <1>1, Ops
  <2>. DEFINE t == <<x, y>>
  <2>. HIDE DEF x, y
  <2>2. t \in Seq({x, y}) /\ DOMAIN t = 1..2 /\ t[1] = x /\ t[2] = y
    OBVIOUS
  <2>3. 1..2 = {1, 2}
    OBVIOUS
  <2>. HIDE DEF t
  <2>4. \A k \in DOMAIN t : t[k].do \notin Waits \cup Bodies \cup Marks
    BY <2>1, <2>2, <2>3
  <2>5. Form(t) /\ Depth(t) = 0
    BY <2>2, <2>4, SeqIs, PlainSeq
  <2>. QED  BY <2>4, <2>5 DEF Piece, Kinds, t
<1>. HIDE DEF e, x, y
<1>4. Piece(Peek \o broadcast)
  BY PiecePeek, PieceBroadcast, PieceConcat
<1>5. Piece(Peek \o broadcast \o e)
  BY <1>2, <1>4, PieceConcat
<1>6. Piece(Peek \o broadcast \o e \o Section(Do("clear_slot")))
  BY <1>1, <1>5, SafeSection, PieceConcat
<1>. QED  BY <1>3, <1>6, PieceConcat DEF client_logout, e, x, y

LEMMA PieceCommand ==
    ASSUME NEW c \in Commands
    PROVE  Piece(Command(c))
<1>1. c.cmd \in {"who", "tell", "yell", "name", "out", "in"}
  BY Zenon DEF Commands
<1>2. CASE c.cmd = "who"
  BY <1>2, PiecePeek DEF Command
<1>3. CASE c.cmd = "tell"
  <2>1. /\ On("tell", c.to).do \in Bodies \ {"client_init", "set_name"}
        /\ On("killif", c.to).do \in PlainOps
    BY DEF On, Bodies, PlainOps
  <2>2. Piece(Section(On("tell", c.to)) \o <<On("killif", c.to)>>)
    BY <2>1, SafeSection, OnePlain, PieceConcat
  <2>. QED  BY <1>3, <2>2 DEF Command
<1>4. CASE c.cmd = "yell"
  BY <1>4, PiecePeek, PieceBroadcast, PieceConcat DEF Command
<1>5. CASE c.cmd = "name"
  <2>. DEFINE x == [do |-> "name_exists", name |-> c.name]
  <2>1. x.do \in Bodies \ {"client_init", "set_name"}
    BY DEF Bodies
  <2>. QED  BY <1>5, <2>1, SafeSection DEF Command
<1>6. CASE c.cmd = "out"
  <2>1. On("out_exists", c.to).do \in Bodies \ {"client_init", "set_name"}
    BY DEF On, Bodies
  <2>. QED  BY <1>6, <2>1, SafeSection DEF Command
<1>7. CASE c.cmd = "in"
  <2>. DEFINE x == [do |-> "in_exists", to |-> c.to, bad |-> c.bad]
  <2>1. x.do \in Bodies \ {"client_init", "set_name"}
    BY DEF Bodies
  <2>. QED  BY <1>7, <2>1, SafeSection DEF Command
<1>. QED  BY <1>1, <1>2, <1>3, <1>4, <1>5, <1>6, <1>7

----------------------------------------------------------------------------
(***************************************************************************)
(* The invariant.  StructInv: what a process has still to execute is well  *)
(* formed; connections not yet accepted run nothing, nor does the one the  *)
(* master is about to fork for.  BalInv: what the kernel would add to the  *)
(* semaphore when a process exits is never more than the sections it is    *)
(* in, and exactly that before a signal has broken a wait; with it the     *)
(* semaphore never falls short of 1, and is exactly 1 before.              *)
(***************************************************************************)
StructInv ==
    /\ DOMAIN code = Procs
    /\ slipped \in BOOLEAN
    /\ \A p \in Procs : Form(code[p]) /\ ("flip" \in Kinds(code[p]) => slipped)
    /\ Order(code[Master])
    /\ sock[Master] \in 0..MaxConn /\ DOMAIN sock = Procs
    /\ \A c \in Conns : c > sock[Master] => code[c] = <<>>
    /\ Pends(code[Master]) # {} => sock[Master] \in Conns /\ code[sock[Master]] = <<>>

BalInv ==
    /\ sem \in Nat /\ adj \in [Procs -> Int]
    /\ \A p \in Procs : adj[p] <= Depth(code[p])
    /\ sem + Sum(adj) >= 1
    /\ ~slipped => sem + Sum(adj) = 1 /\ \A p \in Procs : adj[p] = Depth(code[p])

MpInv == StructInv /\ BalInv

LEMMA ProcsAre == Master \in Procs /\ Conns \subseteq Procs /\ Master \notin Conns
BY Bounds

LEMMA DepthNat ==
    ASSUME StructInv, NEW p \in Procs
    PROVE  Form(code[p]) /\ Depth(code[p]) \in Nat
BY EnteredFinite DEF StructInv, Form

(* Each process goes on in its code, or stays where it is. *)
LEMMA StructStep ==
    ASSUME StructInv, DOMAIN code' = Procs, sock' = sock,
           slipped' \in BOOLEAN, slipped => slipped',
           \A p \in Procs : \/ code'[p] = code[p]
                            \/ code[p] # <<>> /\ Follows(code'[p], code[p], slipped')
    PROVE  StructInv'
<1>1. ASSUME NEW p \in Procs PROVE Form(code'[p]) /\ ("flip" \in Kinds(code'[p]) => slipped')
  BY <1>1 DEF StructInv, Follows
<1>2. Order(code'[Master]) /\ (Pends(code'[Master]) # {} => Pends(code[Master]) # {})
  BY ProcsAre DEF StructInv, Follows
<1>3. \A c \in Conns : code[c] = <<>> => code'[c] = <<>>
  BY ProcsAre
<1>. QED  BY <1>1, <1>2, <1>3 DEF StructInv

(* One process changes its share by a, and is as much deeper. *)
LEMMA BalStep ==
    ASSUME StructInv, BalInv, StructInv', NEW p \in Procs, NEW a \in Int,
           slipped => slipped',
           code' = [code EXCEPT ![p] = code'[p]],
           adj' = [adj EXCEPT ![p] = adj[p] + a],
           sem' = sem - a, sem - a \in Nat,
           Depth(code'[p]) >= Depth(code[p]) + a,
           ~slipped' => Depth(code'[p]) = Depth(code[p]) + a
    PROVE  BalInv'
<1>1. adj \in [Procs -> Int] /\ sem \in Nat /\ sem' \in Nat /\ DOMAIN code = Procs
  BY DEF BalInv, StructInv
<1>2. adj' \in [Procs -> Int] /\ adj'[p] = adj[p] + a /\ \A q \in Procs \ {p} : adj'[q] = adj[q]
  <2>1. adj[p] + a \in Int
    BY <1>1
  <2>. QED  BY <1>1, <2>1
<1>3. \A q \in Procs \ {p} : code'[q] = code[q]
  <2>. DEFINE d == code'[p]
  <2>1. code' = [code EXCEPT ![p] = d]
    OBVIOUS
  <2>. HIDE DEF d
  <2>. QED  BY <1>1, <2>1
<1>4. Sum(adj') = Sum(adj) + a /\ Sum(adj) \in Int
  <2>1. \A f, g \in [Procs -> Int] :
           g[p] = f[p] + a /\ (\A q \in Procs \ {p} : g[q] = f[q])
               => Sum(g) = Sum(f) + a /\ Sum(f) \in Int
    BY SumAdd, SumType
  <2>. QED  BY <1>1, <1>2, <2>1, Zenon
<1>5. sem' + Sum(adj') = sem + Sum(adj)
  BY <1>1, <1>4
<1>6. Depth(code[p]) \in Nat /\ Depth(code'[p]) \in Nat
  <2>1. Form(code'[p])
    BY DEF StructInv
  <2>. QED  BY <2>1, DepthNat, EnteredFinite DEF Form
<1>7. ASSUME NEW q \in Procs PROVE adj'[q] <= Depth(code'[q])
  <2>1. CASE q = p
    <3>1. adj[p] <= Depth(code[p]) /\ adj[p] \in Int
      BY <1>1 DEF BalInv
    <3>2. adj[p] + a <= Depth(code'[p])
      BY <1>6, <3>1
    <3>. QED  BY <1>2, <2>1, <3>2
  <2>2. CASE q # p
    BY <1>2, <1>3, <2>2 DEF BalInv
  <2>. QED  BY <2>1, <2>2
<1>8. ASSUME ~slipped', NEW q \in Procs PROVE adj'[q] = Depth(code'[q])
  <2>1. CASE q = p
    <3>1. adj[p] = Depth(code[p])
      BY <1>8 DEF BalInv
    <3>. QED  BY <1>2, <1>8, <2>1, <3>1
  <2>2. CASE q # p
    BY <1>2, <1>3, <1>8, <2>2 DEF BalInv
  <2>. QED  BY <2>1, <2>2
<1>9. sem + Sum(adj) >= 1 /\ (~slipped => sem + Sum(adj) = 1)
  BY DEF BalInv
<1>. QED  BY <1>1, <1>2, <1>5, <1>7, <1>8, <1>9 DEF BalInv

(* The shares stay, nobody is less deep than before. *)
LEMMA BalSame ==
    ASSUME BalInv, sem' = sem, adj' = adj, slipped => slipped',
           \A p \in Procs : /\ Depth(code[p]) \in Nat /\ Depth(code'[p]) \in Nat
                            /\ Depth(code'[p]) >= Depth(code[p])
                            /\ ~slipped' => Depth(code'[p]) = Depth(code[p])
    PROVE  BalInv'
<1>1. ASSUME NEW p \in Procs PROVE adj'[p] <= Depth(code'[p])
  <2>1. adj[p] <= Depth(code[p]) /\ adj[p] \in Int
    BY DEF BalInv
  <2>2. Depth(code[p]) \in Nat /\ Depth(code'[p]) \in Nat /\ Depth(code'[p]) >= Depth(code[p])
    OBVIOUS
  <2>. QED  BY <2>1, <2>2
<1>2. ASSUME ~slipped' PROVE \A p \in Procs : adj'[p] = Depth(code'[p])
  BY <1>2 DEF BalInv
<1>. QED  BY <1>1, <1>2 DEF BalInv

(* A step of p that leaves its sections and its share as they were. *)
LEMMA Advance ==
    ASSUME MpInv, NEW p \in Procs, Alive(p), NEW d,
           code' = [code EXCEPT ![p] = d], sock' = sock, UNCHANGED <<sem, adj>>,
           slipped' \in BOOLEAN, slipped => slipped',
           Follows(d, code[p], slipped'), Depth(d) >= Depth(code[p]),
           ~slipped' => Depth(d) = Depth(code[p])
    PROVE  MpInv'
<1>1. StructInv /\ BalInv /\ DOMAIN code = Procs
  BY DEF MpInv, StructInv
<1>2. /\ DOMAIN code' = Procs /\ code'[p] = d
      /\ \A q \in Procs : q # p => code'[q] = code[q]
  BY <1>1
<1>3. StructInv'
  BY <1>1, <1>2, StructStep DEF Alive
<1>4. ASSUME NEW q \in Procs
      PROVE  /\ Depth(code[q]) \in Nat /\ Depth(code'[q]) \in Nat
             /\ Depth(code'[q]) >= Depth(code[q])
             /\ ~slipped' => Depth(code'[q]) = Depth(code[q])
  <2>1. Depth(code[q]) \in Nat /\ Form(code'[q])
    BY <1>1, <1>3, DepthNat DEF StructInv
  <2>2. Depth(code'[q]) \in Nat
    BY <2>1, EnteredFinite DEF Form
  <2>3. CASE q = p
    BY <1>2, <2>1, <2>2, <2>3
  <2>4. CASE q # p
    BY <1>2, <2>1, <2>2, <2>4
  <2>. QED  BY <2>3, <2>4
<1>5. BalInv'
  BY <1>1, <1>4, BalSame
<1>. QED  BY <1>3, <1>5 DEF MpInv

(* A step of p that gives its share back (a = -1) or takes one (a = 1). *)
LEMMA Share ==
    ASSUME MpInv, NEW p \in Procs, Alive(p), NEW d, NEW a \in Int,
           code' = [code EXCEPT ![p] = d], sock' = sock,
           adj' = [adj EXCEPT ![p] = @ + a], sem' = sem - a, sem - a \in Nat,
           slipped' \in BOOLEAN, slipped => slipped',
           Follows(d, code[p], slipped'), Depth(d) >= Depth(code[p]) + a,
           ~slipped' => Depth(d) = Depth(code[p]) + a
    PROVE  MpInv'
<1>1. StructInv /\ BalInv /\ DOMAIN code = Procs
  BY DEF MpInv, StructInv
<1>2. /\ DOMAIN code' = Procs /\ code'[p] = d
      /\ \A q \in Procs : q # p => code'[q] = code[q]
  BY <1>1
<1>3. StructInv'
  BY <1>1, <1>2, StructStep DEF Alive
<1>4. code' = [code EXCEPT ![p] = code'[p]]
  BY <1>2
<1>5. BalInv'
  BY <1>1, <1>2, <1>3, <1>4, BalStep, Zenon
<1>. QED  BY <1>3, <1>5 DEF MpInv

(* What a step of p that is not an exit makes of its code. *)
LEMMA Prefixed ==
    ASSUME NEW c, Form(c), c # <<>>, NEW s, Piece(s), NEW b
    PROVE  /\ Follows(s \o Tail(c), c, b)
           /\ Depth(s \o Tail(c)) = Depth(Tail(c))
           /\ Follows(s \o c, c, b)
           /\ Depth(s \o c) = Depth(c)
<1>1. Follows(Tail(c), c, b) /\ Follows(c, c, b) /\ Form(Tail(c))
  BY FollowsTail, FollowsSelf, TailForm
<1>2. Form(s) /\ Kinds(s) \cap (Marks \ {"flip"}) = {} /\ ("flip" \in Kinds(s) => b) /\ Depth(s) = 0
  BY DEF Piece, Marks
<1>3. Follows(s \o Tail(c), c, b) /\ Follows(s \o c, c, b)
  BY <1>1, <1>2, FollowsPiece, Zenon
<1>4. Depth(s \o Tail(c)) = 0 + Depth(Tail(c)) /\ Depth(s \o c) = 0 + Depth(c)
  BY <1>1, <1>2, ConcatDepth
<1>5. Depth(Tail(c)) \in Nat /\ Depth(c) \in Nat
  BY <1>1, EnteredFinite DEF Form
<1>. QED  BY <1>3, <1>4, <1>5

LEMMA HeadIs ==
    ASSUME StructInv, NEW p \in Procs, Alive(p)
    PROVE  Form(code[p]) /\ code[p] # <<>> /\ Now(p) = code[p][1] /\ Depth(code[p]) \in Nat
BY DepthNat, HeadTail DEF Form, Alive, Now

LEMMA PlainStep ==
    ASSUME MpInv, NEW p \in Procs, Alive(p), Now(p).do \in PlainOps,
           NEW s, Piece(s), Continue(p, s), UNCHANGED <<sem, adj, slipped, sock>>
    PROVE  MpInv'
<1>1. StructInv /\ slipped \in BOOLEAN /\ slipped' = slipped
  BY DEF MpInv, StructInv
<1>2. Form(code[p]) /\ code[p] # <<>> /\ Now(p) = code[p][1] /\ Depth(code[p]) \in Nat
  BY <1>1, HeadIs
<1>. DEFINE d == s \o Tail(code[p])
<1>3. Follows(d, code[p], slipped') /\ Depth(d) = Depth(Tail(code[p]))
  BY <1>2, Prefixed
<1>4. Depth(Tail(code[p])) = Depth(code[p])
  BY <1>2, Ops, PlainTail
<1>5. code' = [code EXCEPT ![p] = d]
  BY DEF Continue
<1>. HIDE DEF d
<1>6. Depth(d) >= Depth(code[p]) /\ Depth(d) = Depth(code[p])
  BY <1>2, <1>3, <1>4
<1>7. /\ UNCHANGED <<sem, adj>> /\ sock' = sock
      /\ slipped' \in BOOLEAN /\ (slipped => slipped')
  BY <1>1
<1>8. Follows(d, code[p], slipped')
  BY <1>3 DEF d
<1>. QED  BY <1>5, <1>6, <1>7, <1>8, Advance, Zenon

LEMMA LeaveStep ==
    ASSUME MpInv, NEW p \in Procs, Alive(p), Now(p).do \in Bodies,
           NEW s, Piece(s), Leave(p, s), sock' = sock
    PROVE  MpInv'
<1>1. StructInv /\ slipped \in BOOLEAN /\ slipped' = slipped /\ sem \in Nat
  BY DEF MpInv, StructInv, BalInv, Leave
<1>2. Form(code[p]) /\ code[p] # <<>> /\ Now(p) = code[p][1] /\ Depth(code[p]) \in Nat
  BY <1>1, HeadIs
<1>. DEFINE d == s \o Tail(code[p])
<1>3. Follows(d, code[p], slipped') /\ Depth(d) = Depth(Tail(code[p]))
  BY <1>2, Prefixed
<1>4. Depth(Tail(code[p])) = Depth(code[p]) - 1
  BY <1>2, BodyTail
<1>5. code' = [code EXCEPT ![p] = d] /\ sem' = sem + 1 /\ adj' = [adj EXCEPT ![p] = @ - 1]
  BY DEF Leave, Continue
<1>. HIDE DEF d
<1>6. adj' = [adj EXCEPT ![p] = @ + (-1)]
  <2>1. adj[p] \in Int
    BY DEF MpInv, BalInv
  <2>2. adj[p] - 1 = adj[p] + (-1)
    BY <2>1
  <2>. QED  BY <1>5, <2>2, Zenon
<1>7. sem' = sem - (-1) /\ sem - (-1) \in Nat /\ -1 \in Int
  BY <1>1, <1>5
<1>8. Depth(d) >= Depth(code[p]) + (-1) /\ Depth(d) = Depth(code[p]) + (-1)
  BY <1>2, <1>3, <1>4
<1>. QED  BY <1>1, <1>3, <1>5, <1>6, <1>7, <1>8, Share, Zenon

LEMMA KillStep ==
    ASSUME MpInv, NEW p \in Procs, Alive(p), Now(p).do \in PlainOps,
           NEW pid, NEW s \in Signals, Kill(p, pid, s, <<>>)
    PROVE  MpInv'
<1>. DEFINE targets == IF pid = -1 THEN {q \in Procs \ {p} : Alive(q)}
                       ELSE {q \in {pid} : Alive(q)}
            h == IF p \in targets /\ s \notin mask[p] THEN Handler(p, s) ELSE <<>>
<1>1. Continue(p, h \o <<>>) /\ UNCHANGED <<sem, adj, slipped, sock>>
  BY DEF Kill, local
<1>2. Piece(h)
  BY PieceHandler, PieceEmpty
<1>. HIDE DEF h
<1>3. Piece(h \o <<>>)
  BY <1>2, PieceEmpty, PieceConcat
<1>. QED  BY <1>1, <1>3, PlainStep

(* The signal is sent under the semaphore, which "signal" gives back. *)
LEMMA KillUsr2Step ==
    ASSUME MpInv, NEW p \in Procs, KillUsr2(p)
    PROVE  MpInv'
<1>. DEFINE pid == Now(p).pid
            targets == IF pid = -1 THEN {q \in Procs \ {p} : Alive(q)}
                       ELSE {q \in {pid} : Alive(q)}
            h == IF p \in targets /\ "usr2" \notin mask[p] THEN Handler(p, "usr2") ELSE <<>>
            g == <<Do("signal")>>
            c == code[p]
            d == (h \o g) \o Tail(c)
<1>1. /\ StructInv /\ slipped \in BOOLEAN /\ slipped' = slipped /\ sock' = sock
      /\ UNCHANGED <<sem, adj>> /\ Alive(p) /\ Now(p).do = "kill_usr2"
      /\ code' = [code EXCEPT ![p] = d]
  BY DEF MpInv, StructInv, KillUsr2, Kill, At, Now, Continue, local
<1>2. Form(c) /\ c # <<>> /\ Now(p) = c[1] /\ Depth(c) \in Nat
  BY <1>1, HeadIs
<1>3. Piece(h)
  <2>1. "usr2" \in Signals
    BY DEF Signals
  <2>. QED  BY <2>1, PieceHandler, PieceEmpty
<1>. HIDE DEF h
<1>4. Form(g) /\ Depth(g) = 1 /\ Kinds(g) = {"signal"}
  <2>1. Do("signal").do = "signal"
    BY DEF Do
  <2>. DEFINE x == Do("signal")
  <2>. HIDE DEF x
  <2>2. Sound(x) /\ x.do \in Bodies
    BY <2>1, Ops DEF Sound, x
  <2>3. DOMAIN <<x>> = {1} /\ <<x>>[1] = x
    BY Singleton
  <2>4. Kinds(<<x>>) = {x.do}
    BY <2>3 DEF Kinds
  <2>. QED  BY <2>1, <2>2, <2>4, Body DEF x
<1>. HIDE DEF g
<1>5. Form(h \o g) /\ Depth(h \o g) = 1 /\ Kinds(h \o g) \cap Marks = {}
  <2>1. Form(h \o g) /\ Depth(h \o g) = 0 + 1
    BY <1>3, <1>4, ConcatForm, ConcatDepth DEF Piece
  <2>2. Kinds(h \o g) = Kinds(h) \cup Kinds(g)
    BY <1>3, <1>4, KindsConcat DEF Piece, Form
  <2>3. "signal" \notin Marks
    BY DEF Marks, Starts
  <2>. QED  BY <1>3, <1>4, <2>1, <2>2, <2>3 DEF Piece
<1>6. Follows(Tail(c), c, slipped') /\ Form(Tail(c)) /\ Depth(Tail(c)) = Depth(c) - 1
  <2>1. "kill_usr2" \in Bodies
    BY DEF Bodies
  <2>. QED  BY <1>1, <1>2, <2>1, FollowsTail, TailForm, BodyTail
<1>. DEFINE s == h \o g
<1>. HIDE DEF s, c
<1>7. Follows(s \o Tail(c), c, slipped') /\ Depth(s \o Tail(c)) = Depth(s) + Depth(Tail(c))
  <2>1. Kinds(s) \cap (Marks \ {"flip"}) = {} /\ "flip" \notin Kinds(s)
    BY <1>5 DEF Marks, s
  <2>. QED  BY <1>5, <1>6, <2>1, FollowsPiece, ConcatDepth DEF s
<1>8. Follows(d, c, slipped') /\ Depth(d) = 1 + Depth(Tail(c))
  BY <1>5, <1>7 DEF s
<1>. HIDE DEF d
<1>9. Depth(d) >= Depth(c) /\ Depth(d) = Depth(c)
  BY <1>2, <1>6, <1>8
<1>. QED  BY <1>1, <1>8, <1>9, Advance, Zenon DEF c

LEMMA WaitStep ==
    ASSUME MpInv, NEW p \in Procs, Wait(p)
    PROVE  MpInv'
<1>1. /\ StructInv /\ slipped \in BOOLEAN /\ slipped' = slipped /\ sock' = sock
      /\ Alive(p) /\ Now(p).do = "wait" /\ sem \in Nat /\ sem > 0
      /\ sem' = sem - 1 /\ adj' = [adj EXCEPT ![p] = @ + 1]
      /\ code' = [code EXCEPT ![p] = <<>> \o Tail(code[p])]
  BY DEF MpInv, StructInv, BalInv, Wait, At, Now, Continue, shared
<1>2. Form(code[p]) /\ code[p] # <<>> /\ Now(p) = code[p][1] /\ Depth(code[p]) \in Nat
  BY <1>1, HeadIs
<1>. DEFINE d == <<>> \o Tail(code[p])
<1>3. Follows(d, code[p], slipped') /\ Depth(d) = Depth(Tail(code[p]))
  BY <1>2, PieceEmpty, Prefixed, Zenon
<1>4. Depth(Tail(code[p])) = Depth(code[p]) + 1
  BY <1>1, <1>2, WaitTail DEF Waits
<1>. HIDE DEF d
<1>5. sem - 1 \in Nat /\ 1 \in Int
  BY <1>1
<1>6. Depth(d) >= Depth(code[p]) + 1 /\ Depth(d) = Depth(code[p]) + 1
  BY <1>2, <1>3, <1>4
<1>7. code' = [code EXCEPT ![p] = d]
  BY <1>1 DEF d
<1>. QED  BY <1>1, <1>3, <1>5, <1>6, <1>7, Share, Zenon

LEMMA FlipStep ==
    ASSUME MpInv, NEW p \in Procs, Flip(p)
    PROVE  MpInv'
<1>1. /\ StructInv /\ slipped \in BOOLEAN /\ slipped' = slipped /\ sock' = sock
      /\ Alive(p) /\ Now(p).do = "flip" /\ sem \in Nat
      /\ sem' = sem + 1 /\ adj' = [adj EXCEPT ![p] = @ - 1]
      /\ code' = [code EXCEPT ![p] = <<>> \o Tail(code[p])]
  BY DEF MpInv, StructInv, BalInv, Flip, Leave, At, Now, Continue, shared
<1>2. Form(code[p]) /\ code[p] # <<>> /\ Now(p) = code[p][1] /\ Depth(code[p]) \in Nat
  BY <1>1, HeadIs
<1>. DEFINE d == <<>> \o Tail(code[p])
<1>3. Follows(d, code[p], slipped') /\ Depth(d) = Depth(Tail(code[p]))
  BY <1>2, PieceEmpty, Prefixed, Zenon
<1>4. Depth(Tail(code[p])) = Depth(code[p]) + 1
  BY <1>1, <1>2, WaitTail DEF Waits
<1>5. slipped'
  <2>1. 1 \in DOMAIN code[p]
    BY <1>2, HeadTail DEF Form
  <2>2. "flip" \in Kinds(code[p])
    BY <1>1, <1>2, <2>1 DEF Kinds
  <2>. QED  BY <1>1, <2>2 DEF StructInv
<1>. HIDE DEF d
<1>6. adj' = [adj EXCEPT ![p] = @ + (-1)]
  <2>1. adj[p] \in Int
    BY DEF MpInv, BalInv
  <2>2. adj[p] - 1 = adj[p] + (-1)
    BY <2>1
  <2>. QED  BY <1>1, <2>2, Zenon
<1>7. sem' = sem - (-1) /\ sem - (-1) \in Nat /\ -1 \in Int
  BY <1>1
<1>8. Depth(d) >= Depth(code[p]) + (-1)
  BY <1>2, <1>3, <1>4
<1>9. code' = [code EXCEPT ![p] = d]
  BY <1>1 DEF d
<1>. QED  BY <1>1, <1>3, <1>5, <1>6, <1>7, <1>8, <1>9, Share, Zenon

(* A signal: p goes on with the handler, then with one of the resumptions. *)
LEMMA DeliverStep ==
    ASSUME MpInv, NEW p \in Procs, NEW s \in Signals, Deliver(p, s)
    PROVE  MpInv'
<1>. DEFINE c == code[p]
<1>1. /\ StructInv /\ slipped \in BOOLEAN /\ sock' = sock
      /\ Alive(p) /\ UNCHANGED <<sem, adj>>
  BY DEF MpInv, StructInv, Deliver, shared
<1>2. Form(c) /\ c # <<>> /\ Now(p) = c[1] /\ Depth(c) \in Nat
  BY <1>1, HeadIs
<1>3. PICK r \in Resumptions(p, s) :
          /\ code' = [code EXCEPT ![p] = Handler(p, s) \o r]
          /\ slipped' = (slipped \/ r # c)
  BY Zenon DEF Deliver
<1>. DEFINE h == Handler(p, s)
<1>4. Piece(h)
  BY PieceHandler
<1>. HIDE DEF h
<1>5. (slipped' \in BOOLEAN) /\ (slipped => slipped')
  BY <1>1, <1>3
<1>6. \/ r = c
      \/ Now(p).do = "wait" /\ (r = <<Do("flip")>> \o Tail(c) \/ r = Tail(c))
  BY DEF Resumptions, At, Now
<1>7. /\ Follows(r, c, slipped') /\ Form(r) /\ Depth(r) \in Nat
      /\ Depth(r) >= Depth(c) /\ (~slipped' => Depth(r) = Depth(c))
  <2>1. CASE r = c
    BY <1>2, <2>1, FollowsSelf
  <2>2. CASE r # c
    <3>1. slipped' /\ c[1].do = "wait" /\ c[1].do \in Waits
      BY <1>2, <1>3, <1>6, <2>2, Zenon DEF Waits
    <3>2. CASE r = <<Do("flip")>> \o Tail(c)
      <4>1. Do("flip").do \in Waits
        BY DEF Do, Waits
      <4>. DEFINE x == Do("flip")
      <4>. HIDE DEF x, c
      <4>2. Form(<<x>> \o Tail(c)) /\ Depth(<<x>> \o Tail(c)) = Depth(c)
        BY <1>2, <3>1, <4>1, WaitTail DEF x
      <4>3. Follows(<<x>> \o Tail(c), c, slipped')
        BY <1>2, <3>1, FollowsFlip, Zenon DEF x
      <4>4. Form(r) /\ Depth(r) = Depth(c) /\ Follows(r, c, slipped')
        BY <3>2, <4>2, <4>3 DEF x
      <4>5. Depth(r) \in Nat /\ Depth(r) >= Depth(c)
        BY <1>2, <4>4
      <4>. QED  BY <4>4, <4>5
    <3>3. CASE r = Tail(c)
      <4>1. Follows(Tail(c), c, slipped') /\ Form(Tail(c)) /\ Depth(Tail(c)) = Depth(c) + 1
        BY <1>2, <3>1, FollowsTail, TailForm, WaitTail, Zenon
      <4>. HIDE DEF c
      <4>2. Form(r) /\ Depth(r) = Depth(c) + 1 /\ Follows(r, c, slipped')
        BY <3>3, <4>1
      <4>3. Depth(r) \in Nat /\ Depth(r) >= Depth(c)
        BY <1>2, <4>2
      <4>. QED  BY <3>1, <4>2, <4>3, Zenon
    <3>. QED  BY <1>6, <2>2, <3>2, <3>3
  <2>. QED  BY <2>1, <2>2
<1>. DEFINE d == h \o r
<1>8. Follows(d, c, slipped') /\ Depth(d) = 0 + Depth(r)
  <2>1. Form(h) /\ Depth(h) = 0 /\ Kinds(h) \cap (Marks \ {"flip"}) = {} /\ "flip" \notin Kinds(h)
    BY <1>4 DEF Piece, Marks
  <2>. HIDE DEF c
  <2>. QED  BY <1>7, <2>1, FollowsPiece, ConcatDepth
<1>9. code' = [code EXCEPT ![p] = d]
  BY <1>3 DEF h
<1>. HIDE DEF d
<1>10. Depth(d) >= Depth(c) /\ (~slipped' => Depth(d) = Depth(c))
  <2>. HIDE DEF c
  <2>. QED  BY <1>2, <1>7, <1>8
<1>. QED  BY <1>1, <1>5, <1>8, <1>9, <1>10, Advance, Zenon

(* The kernel undoes what p did to the semaphore; cut off at 0, it adds    *)
(* even more than p had taken. *)
LEMMA ExitStep ==
    ASSUME MpInv, NEW p \in Procs, Alive(p), Exit(p)
    PROVE  MpInv'
<1>. DEFINE D == Depth(code[p])
            a == adj[p]
<1>1. /\ StructInv /\ BalInv /\ DOMAIN code = Procs /\ adj \in [Procs -> Int] /\ sem \in Nat
      /\ slipped \in BOOLEAN /\ slipped' = slipped /\ sock' = sock
      /\ code' = [code EXCEPT ![p] = <<>>] /\ adj' = [adj EXCEPT ![p] = 0]
      /\ sem' = IF sem + a < 0 THEN 0 ELSE sem + a
  BY DEF MpInv, StructInv, BalInv, Exit
<1>2. /\ DOMAIN code' = Procs /\ code'[p] = <<>>
      /\ \A q \in Procs : q # p => code'[q] = code[q]
  BY <1>1
<1>3. StructInv'
  <2>1. (slipped' \in BOOLEAN) /\ (slipped => slipped')
    BY <1>1
  <2>2. Follows(code'[p], code[p], slipped')
    BY <1>2, FollowsNone
  <2>. QED  BY <1>1, <1>2, <2>1, <2>2, StructStep DEF Alive
<1>4. /\ adj' \in [Procs -> Int] /\ adj'[p] = 0 /\ a \in Int
      /\ \A q \in Procs : q # p => adj'[q] = adj[q]
  BY <1>1
<1>5. /\ Sum(adj') = Sum(adj) - a /\ Sum(adj) \in Int
  <2>1. ASSUME NEW f \in [Procs -> Int], NEW g \in [Procs -> Int], g[p] = 0,
               \A q \in Procs \ {p} : g[q] = f[q]
        PROVE  Sum(g) = Sum(f) - f[p] /\ Sum(f) \in Int
    <3>. DEFINE b == -f[p]
    <3>1. b \in Int /\ g[p] = f[p] + b
      BY <2>1
    <3>. HIDE DEF b
    <3>2. Sum(g) = Sum(f) + b /\ Sum(f) \in Int
      BY <2>1, <3>1, SumAdd, SumType
    <3>. QED  BY <3>2 DEF b
  <2>. QED  BY <1>1, <1>4, <2>1, Zenon
<1>6. D \in Nat /\ Depth(<<>>) = 0
  BY <1>1, DepthNat, Empty
<1>7. sem + Sum(adj) >= 1 /\ (~slipped => sem + Sum(adj) = 1 /\ a = D)
  BY <1>1 DEF BalInv
<1>. DEFINE T == Sum(adj)
            U == Sum(adj')
<1>. HIDE DEF T, U, D, a
<1>8. T \in Int /\ U = T - a /\ sem + T >= 1 /\ (~slipped => sem + T = 1 /\ a = D)
  BY <1>5, <1>7 DEF T, U
<1>9. sem' \in Nat /\ sem' + U >= 1
  <2>1. CASE sem + a < 0
    BY <1>1, <1>4, <1>8, <2>1
  <2>2. CASE ~(sem + a < 0)
    BY <1>1, <1>4, <1>8, <2>2
  <2>. QED  BY <2>1, <2>2
<1>10. ~slipped => sem' + U = 1
  <2>. SUFFICES ASSUME ~slipped PROVE sem' + U = 1
    OBVIOUS
  <2>1. a = D /\ sem + T = 1
    BY <1>8
  <2>2. ~(sem + a < 0)
    BY <1>1, <1>6, <2>1
  <2>. QED  BY <1>1, <1>4, <1>8, <2>1, <2>2
<1>11. \A q \in Procs : adj'[q] <= Depth(code'[q]) /\ (~slipped => adj'[q] = Depth(code'[q]))
  <2>. SUFFICES ASSUME NEW q \in Procs
                PROVE  adj'[q] <= Depth(code'[q]) /\ (~slipped => adj'[q] = Depth(code'[q]))
    OBVIOUS
  <2>1. CASE q = p
    BY <1>2, <1>4, <1>6, <2>1
  <2>2. CASE q # p
    BY <1>1, <1>2, <1>4, <2>2 DEF BalInv
  <2>. QED  BY <2>1, <2>2
<1>12. BalInv'
  BY <1>1, <1>4, <1>9, <1>10, <1>11 DEF BalInv, U
<1>. QED  BY <1>3, <1>12 DEF MpInv

LEMMA TypeStep ==
    ASSUME MpInv, NEW p \in Procs, Type(p)
    PROVE  MpInv'
<1>1. /\ StructInv /\ slipped \in BOOLEAN /\ slipped' = slipped /\ sock' = sock
      /\ UNCHANGED <<sem, adj>> /\ Alive(p)
  BY DEF MpInv, StructInv, Type, At
<1>2. Form(code[p]) /\ code[p] # <<>> /\ Depth(code[p]) \in Nat
  BY <1>1, HeadIs
<1>3. PICK c \in Commands : code' = [code EXCEPT ![p] = Command(c) \o code[p]]
  BY Zenon DEF Type
<1>. DEFINE s == Command(c)
            d == s \o code[p]
<1>4. Piece(s)
  BY PieceCommand
<1>. HIDE DEF s
<1>5. Follows(d, code[p], slipped') /\ Depth(d) = Depth(code[p])
  BY <1>2, <1>4, Prefixed
<1>6. code' = [code EXCEPT ![p] = d]
  BY <1>3 DEF s
<1>. HIDE DEF d
<1>7. Depth(d) >= Depth(code[p]) /\ (slipped' \in BOOLEAN) /\ (slipped => slipped')
  BY <1>1, <1>2, <1>5
<1>. QED  BY <1>1, <1>5, <1>6, <1>7, Advance, Zenon

(* A FIFO is opened at both ends: two processes move. *)
LEMMA OpenStep ==
    ASSUME MpInv, NEW p \in Procs, NEW q \in Procs, OpenBoth(p, q)
    PROVE  MpInv'
<1>. DEFINE x == [do |-> "set_sent", from |-> me[p], fd |-> fifo[<<me[p], me[q]>>]]
            d == Tail(code[p])
            e == <<x>> \o Tail(code[q])
<1>1. /\ StructInv /\ BalInv /\ DOMAIN code = Procs
      /\ slipped \in BOOLEAN /\ slipped' = slipped /\ sock' = sock /\ UNCHANGED <<sem, adj>>
      /\ Alive(p) /\ Now(p).do = "open_write" /\ Alive(q) /\ Now(q).do = "open_read"
      /\ code' = [code EXCEPT ![p] = Tail(@), ![q] = e]
  BY DEF MpInv, StructInv, OpenBoth, local, At, Now
<1>2. p # q
  BY <1>1
<1>3. /\ Form(code[p]) /\ code[p] # <<>> /\ Now(p) = code[p][1]
      /\ Form(code[q]) /\ code[q] # <<>> /\ Now(q) = code[q][1]
  BY <1>1, HeadIs
<1>4. "open_write" \notin Waits \cup Bodies /\ "open_read" \notin Waits \cup Bodies
  BY Ops DEF PlainOps
<1>5. Follows(d, code[p], slipped') /\ Depth(d) = Depth(code[p])
  BY <1>1, <1>3, <1>4, FollowsTail, PlainTail
<1>6. Piece(<<x>>)
  <2>1. x.do \in PlainOps
    BY DEF PlainOps
  <2>. HIDE DEF x
  <2>. QED  BY <2>1, OnePlain
<1>. HIDE DEF x
<1>7. Follows(e, code[q], slipped') /\ Depth(e) = Depth(code[q])
  <2>1. Follows(e, code[q], slipped') /\ Depth(e) = Depth(Tail(code[q]))
    BY <1>3, <1>6, Prefixed
  <2>2. Depth(Tail(code[q])) = Depth(code[q])
    BY <1>1, <1>3, <1>4, PlainTail
  <2>. QED  BY <2>1, <2>2
<1>. HIDE DEF e
<1>8. /\ DOMAIN code' = Procs /\ code'[p] = d /\ code'[q] = e
      /\ \A r \in Procs : r # p /\ r # q => code'[r] = code[r]
  BY <1>1, <1>2
<1>. HIDE DEF d
<1>9. StructInv'
  <2>1. (slipped' \in BOOLEAN) /\ (slipped => slipped')
    BY <1>1
  <2>2. ASSUME NEW r \in Procs
        PROVE  \/ code'[r] = code[r]
               \/ code[r] # <<>> /\ Follows(code'[r], code[r], slipped')
    BY <1>3, <1>5, <1>7, <1>8
  <2>. QED  BY <1>1, <1>8, <2>1, <2>2, StructStep, Zenon
<1>10. ASSUME NEW r \in Procs
       PROVE  /\ Depth(code[r]) \in Nat /\ Depth(code'[r]) \in Nat
              /\ Depth(code'[r]) >= Depth(code[r])
              /\ ~slipped' => Depth(code'[r]) = Depth(code[r])
  <2>1. Depth(code[r]) \in Nat
    BY <1>1, DepthNat
  <2>2. Depth(code'[r]) = Depth(code[r])
    BY <1>5, <1>7, <1>8
  <2>. QED  BY <2>1, <2>2
<1>11. BalInv'
  BY <1>1, <1>10, BalSame, Zenon
<1>. QED  BY <1>9, <1>11 DEF MpInv

----------------------------------------------------------------------------
(* The master. *)
LEMMA Pair ==
    ASSUME NEW x, NEW y
    PROVE  /\ IsSeq(<<x, y>>) /\ Len(<<x, y>>) = 2 /\ DOMAIN <<x, y>> = {1, 2}
           /\ <<x, y>>[1] = x /\ <<x, y>>[2] = y
           /\ Kinds(<<x, y>>) = {x.do, y.do}
<1>1. <<x, y>> \in Seq({x, y}) /\ Len(<<x, y>>) = 2 /\ DOMAIN <<x, y>> = 1..2
      /\ <<x, y>>[1] = x /\ <<x, y>>[2] = y
  OBVIOUS
<1>2. 1..2 = {1, 2}
  OBVIOUS
<1>3. IsSeq(<<x, y>>)
  BY <1>1, SeqIs, Zenon
<1>. DEFINE s == <<x, y>>
<1>. HIDE DEF s
<1>4. DOMAIN s = {1, 2} /\ s[1] = x /\ s[2] = y
  BY <1>1, <1>2 DEF s
<1>5. Kinds(s) = {x.do, y.do}
  BY <1>4 DEF Kinds
<1>. QED  BY <1>1, <1>3, <1>4, <1>5 DEF s

(* What the master puts before code without an account to open or a fork. *)
LEMMA OrderPair ==
    ASSUME NEW x, NEW y, x.do \notin Starts \cup {"accept"}, y.do # "accept",
           NEW r, IsSeq(r), Order(r), Pends(r) = {}
    PROVE  Order(<<x, y>> \o r)
<1>. DEFINE s == <<x, y>>
            d == s \o r
            m == Len(r)
<1>0. IsSeq(s)
  BY Pair
<1>1. Len(s) = 2 /\ s[1] = x /\ s[2] = y
  BY Pair
<1>. HIDE DEF s
<1>2. /\ IsSeq(d) /\ m \in Nat /\ DOMAIN r = 1..m /\ DOMAIN d = 1..2+m
      /\ (\A k \in 1..2 : d[k] = s[k]) /\ (\A k \in 1..m : d[2+k] = r[k])
  <2>1. /\ IsSeq(s \o r) /\ Len(r) \in Nat /\ DOMAIN r = 1..Len(r)
        /\ DOMAIN (s \o r) = 1..Len(s)+Len(r)
        /\ \A k \in 1..Len(s) : (s \o r)[k] = s[k]
        /\ \A k \in 1..Len(r) : (s \o r)[Len(s)+k] = r[k]
    <3>. HIDE DEF d, m
    <3>. QED  BY ONLY <1>0, IsSeq(r), Concat
  <2>. QED  BY <1>1, <2>1
<1>. HIDE DEF d
<1>3. Len(d) = 2 + m
  <2>1. Len(d) \in Nat /\ DOMAIN d = 1..Len(d)
    BY <1>2, LenProperties DEF IsSeq
  <2>2. 2 + m \in 1..Len(d) /\ Len(d) \in 1..2+m
    BY <1>2, <2>1
  <2>. QED  BY <1>2, <2>1, <2>2
<1>. HIDE DEF m
<1>4. d[1] = x /\ d[2] = y
  BY <1>1, <1>2
<1>5. ASSUME NEW k \in 1..2+m, k # 1, k # 2
      PROVE  k - 2 \in 1..m /\ d[k] = r[k-2] /\ d[k].do \notin Starts
  <2>1. k - 2 \in 1..m /\ 2 + (k - 2) = k
    BY <1>2, <1>5
  <2>2. d[k] = r[k-2]
    BY <1>2, <2>1
  <2>. QED  BY <1>2, <2>1, <2>2, Zenon DEF Pends
<1>6. ASSUME NEW k \in DOMAIN d, d[k].do = "accept" PROVE k = Len(d)
  <2>1. k # 1 /\ k # 2
    BY <1>4, <1>6
  <2>2. k - 2 \in 1..m /\ r[k-2].do = "accept"
    BY <1>2, <1>5, <1>6, <2>1
  <2>3. k - 2 = m
    BY <1>2, <2>2 DEF Order, m
  <2>4. k \in 1..2+m
    BY <1>2
  <2>. QED  BY <1>2, <1>3, <2>3, <2>4
<1>7. ASSUME NEW k \in Pends(d) PROVE k = 2
  BY <1>2, <1>4, <1>5, Zenon DEF Pends
<1>8. \A j, k \in Pends(d) : j = k
  BY <1>7
<1>9. Order(d)
  BY <1>6, <1>8 DEF Order
<1>. QED  BY <1>9 DEF d, s

LEMMA AcceptStep ==
    ASSUME MpInv, Accept
    PROVE  MpInv'
<1>. DEFINE c == code[Master]
            x == Do("wait")
            y == Do("client_init")
            d == <<x, y>> \o c
            n == sock[Master] + 1
<1>1. /\ StructInv /\ BalInv /\ DOMAIN code = Procs /\ DOMAIN sock = Procs
      /\ slipped \in BOOLEAN /\ slipped' = slipped /\ UNCHANGED <<sem, adj>>
      /\ Alive(Master) /\ Now(Master).do = "accept" /\ sock[Master] < MaxConn
      /\ code' = [code EXCEPT ![Master] = d]
      /\ sock' = [sock EXCEPT ![Master] = n]
  BY DEF MpInv, StructInv, Accept, At, Now, Section
<1>2. Form(c) /\ c # <<>> /\ c[1].do = "accept" /\ Depth(c) \in Nat
  BY <1>1, ProcsAre, HeadIs
<1>3. Order(c) /\ Pends(c) = {}
  BY <1>1, <1>2, FollowsTail, Zenon DEF StructInv
<1>4. x.do = "wait" /\ y.do = "client_init"
  BY DEF Do
<1>. HIDE DEF x, y, c
<1>5. Form(<<x, y>>) /\ Depth(<<x, y>>) = 0 /\ Kinds(<<x, y>>) = {"wait", "client_init"}
  <2>1. x.do \in Waits /\ y.do \in Bodies /\ Sound(y)
    BY <1>4 DEF Waits, Bodies, Sound
  <2>. QED  BY <1>4, <2>1, Guard, Pair
<1>6. Form(d) /\ Depth(d) = Depth(c)
  <2>1. Form(d) /\ Depth(d) = 0 + Depth(c)
    BY <1>2, <1>5, ConcatForm, ConcatDepth
  <2>. HIDE DEF d
  <2>. QED  BY <1>2, <2>1
<1>7. Order(d)
  <2>1. x.do \notin Starts \cup {"accept"} /\ y.do # "accept"
    BY <1>4 DEF Starts
  <2>. QED  BY <1>2, <1>3, <2>1, OrderPair DEF Form
<1>8. "flip" \in Kinds(d) => slipped'
  <2>1. Kinds(d) = {"wait", "client_init"} \cup Kinds(c)
    BY <1>2, <1>5, KindsConcat DEF Form
  <2>2. "flip" \in Kinds(c) => slipped
    BY <1>1, ProcsAre DEF StructInv, c
  <2>. QED  BY <1>1, <2>1, <2>2
<1>. HIDE DEF d
<1>9. /\ DOMAIN code' = Procs /\ code'[Master] = d
      /\ \A q \in Procs : q # Master => code'[q] = code[q]
  BY <1>1, ProcsAre
<1>10. n \in Conns /\ n > sock[Master] /\ DOMAIN sock' = Procs /\ sock'[Master] = n /\ n \in 0..MaxConn
  <2>1. sock[Master] \in 0..MaxConn
    BY <1>1 DEF StructInv
  <2>2. n \in Conns /\ n > sock[Master] /\ n \in 0..MaxConn
    BY <1>1, <2>1, Bounds
  <2>. HIDE DEF n
  <2>. QED  BY <1>1, <2>2, ProcsAre
<1>11. ASSUME NEW e \in Conns, e >= n PROVE code'[e] = <<>>
  <2>1. e > sock[Master]
    <3>1. sock[Master] \in Nat /\ e \in Nat
      <4>1. sock[Master] \in 0..MaxConn
        BY <1>1 DEF StructInv
      <4>. QED  BY <4>1, Bounds
    <3>. QED  BY <1>11, <3>1
  <2>2. code[e] = <<>> /\ e # Master /\ e \in Procs
    BY <1>1, <2>1, ProcsAre DEF StructInv
  <2>. QED  BY <1>9, <2>2
<1>12. StructInv'
  <2>1. \A p \in Procs : Form(code'[p]) /\ ("flip" \in Kinds(code'[p]) => slipped')
    BY <1>1, <1>6, <1>8, <1>9 DEF StructInv
  <2>2. \A e \in Conns : e > sock'[Master] => code'[e] = <<>>
    <3>1. \A e \in Conns : e > n => e >= n
      BY <1>10, Bounds
    <3>. HIDE DEF n
    <3>. QED  BY <1>10, <1>11, <3>1
  <2>3. code'[n] = <<>>
    <3>1. n >= n
      BY <1>10, Bounds
    <3>. HIDE DEF n
    <3>. QED  BY <1>10, <1>11, <3>1
  <2>. HIDE DEF n
  <2>. QED  BY <1>1, <1>7, <1>9, <1>10, <2>1, <2>2, <2>3 DEF StructInv
<1>13. BalInv'
  <2>1. ASSUME NEW r \in Procs
        PROVE  /\ Depth(code[r]) \in Nat /\ Depth(code'[r]) \in Nat
               /\ Depth(code'[r]) >= Depth(code[r])
               /\ ~slipped' => Depth(code'[r]) = Depth(code[r])
    <3>1. Depth(code[r]) \in Nat
      BY <1>1, DepthNat
    <3>2. Depth(code'[r]) = Depth(code[r])
      BY <1>6, <1>9 DEF c
    <3>. QED  BY <3>1, <3>2
  <2>. QED  BY <1>1, <2>1, BalSame
<1>. QED  BY <1>12, <1>13 DEF MpInv

(* An account opened: what follows is to register the socket and fork. *)
LEMMA ClientInitStep ==
    ASSUME MpInv, client_init
    PROVE  MpInv'
<1>. DEFINE c == code[Master]
            i == CHOOSE j \in Slots :
                     /\ ~all_clients[j].uid
                     /\ \A k \in 1..j-1 : all_clients[k].uid
            x == On("register", i)
            y == Do("fork")
            d == <<x, y>> \o Tail(c)
<1>1. /\ StructInv /\ slipped \in BOOLEAN /\ slipped' = slipped /\ sock' = sock
      /\ Alive(Master) /\ Now(Master).do = "client_init"
      /\ sem \in Nat /\ sem' = sem + 1 /\ adj' = [adj EXCEPT ![Master] = @ - 1]
      /\ code' = [code EXCEPT ![Master] = d]
  BY Zenon DEF MpInv, StructInv, BalInv, client_init, At, Now, Leave, Continue, local
<1>2. Form(c) /\ c # <<>> /\ c[1].do = "client_init" /\ Depth(c) \in Nat
  BY <1>1, ProcsAre, HeadIs
<1>3. x.do = "register" /\ y.do = "fork"
  BY DEF On, Do
<1>. HIDE DEF x, y, c
<1>4. Order(c) /\ Order(Tail(c)) /\ Pends(Tail(c)) = {} /\ Pends(c) # {} /\ Form(Tail(c))
      /\ Follows(Tail(c), c, slipped')
  <2>1. "client_init" \in Starts
    BY DEF Starts
  <2>2. Order(c)
    BY <1>1 DEF StructInv, c
  <2>3. Follows(Tail(c), c, slipped') /\ Pends(Tail(c)) = {}
    BY <1>2, <2>1, <2>2, FollowsTail
  <2>4. 1 \in Pends(c)
    BY <1>2, <2>1, HeadTail, Zenon DEF Pends, Form
  <2>. QED  BY <2>2, <2>3, <2>4 DEF Follows
<1>5. Form(<<x, y>>) /\ Depth(<<x, y>>) = 0 /\ Kinds(<<x, y>>) = {"register", "fork"}
  <2>1. x.do \notin Waits \cup Bodies /\ y.do \notin Waits \cup Bodies
    BY <1>3 DEF Waits, Bodies
  <2>. DEFINE s == <<x, y>>
  <2>2. IsSeq(s) /\ DOMAIN s = {1, 2} /\ s[1] = x /\ s[2] = y /\ Kinds(s) = {x.do, y.do}
    BY Pair
  <2>. HIDE DEF s
  <2>3. Form(s) /\ Depth(s) = 0
    BY <2>1, <2>2, PlainSeq
  <2>. QED  BY <1>3, <2>2, <2>3 DEF s
<1>6. Order(d) /\ Form(d) /\ Depth(d) = 0 + Depth(Tail(c))
  <2>1. x.do \notin Starts \cup {"accept"} /\ y.do # "accept"
    BY <1>3 DEF Starts
  <2>. QED  BY <1>4, <1>5, <2>1, OrderPair, ConcatForm, ConcatDepth DEF Form
<1>7. Follows(d, c, slipped')
  <2>1. Kinds(d) = {"register", "fork"} \cup Kinds(Tail(c))
    BY <1>4, <1>5, KindsConcat DEF Form
  <2>2. "flip" \in Kinds(d) => "flip" \in Kinds(c) \/ slipped'
    BY <1>4, <2>1 DEF Follows
  <2>. HIDE DEF d
  <2>. QED  BY <1>4, <1>6, <2>2 DEF Follows
<1>8. Depth(Tail(c)) = Depth(c) - 1
  BY <1>2, BodyTail DEF Bodies
<1>. HIDE DEF d
<1>9. adj' = [adj EXCEPT ![Master] = @ + (-1)]
  <2>1. adj[Master] \in Int
    BY ProcsAre DEF MpInv, BalInv
  <2>2. adj[Master] - 1 = adj[Master] + (-1)
    BY <2>1
  <2>. QED  BY <1>1, <2>2, Zenon
<1>10. sem' = sem - (-1) /\ sem - (-1) \in Nat /\ -1 \in Int
  BY <1>1
<1>11. Depth(d) >= Depth(c) + (-1) /\ Depth(d) = Depth(c) + (-1)
  BY <1>2, <1>6, <1>8
<1>12. (slipped' \in BOOLEAN) /\ (slipped => slipped') /\ Master \in Procs
  BY <1>1, ProcsAre
<1>. QED  BY <1>1, <1>7, <1>9, <1>10, <1>11, <1>12, Share, Zenon DEF c

(* The new process is the one whose connection was accepted last, and ran  *)
(* nothing before. *)
LEMMA ForkStep ==
    ASSUME MpInv, Fork
    PROVE  MpInv'
<1>. DEFINE c == code[Master]
            n == sock[Master]
            d == Tail(c)
<1>1. /\ StructInv /\ BalInv /\ DOMAIN code = Procs /\ DOMAIN sock = Procs
      /\ slipped \in BOOLEAN /\ slipped' = slipped /\ UNCHANGED <<sem, adj>>
      /\ Alive(Master) /\ Now(Master).do = "fork"
      /\ code' = [code EXCEPT ![Master] = Tail(@), ![n] = Child]
      /\ sock' = [sock EXCEPT ![n] = n]
  BY DEF MpInv, StructInv, Fork, At, Now
<1>2. Form(c) /\ c # <<>> /\ c[1].do = "fork" /\ Depth(c) \in Nat
  BY <1>1, ProcsAre, HeadIs
<1>3. "fork" \in Starts /\ "fork" \notin Waits \cup Bodies
  BY DEF Starts, Waits, Bodies
<1>. HIDE DEF c
<1>4. Order(c) /\ 1 \in Pends(c)
  BY <1>1, <1>2, <1>3, HeadTail, Zenon DEF StructInv, Pends, Form, c
<1>5. n \in Conns /\ code[n] = <<>> /\ n # Master /\ n \in Procs
  <2>1. n \in Conns /\ code[n] = <<>>
    BY <1>1, <1>4 DEF StructInv, c
  <2>. HIDE DEF n
  <2>. QED  BY <2>1, ProcsAre
<1>6. Follows(d, c, slipped') /\ Pends(d) = {} /\ Depth(d) = Depth(c)
  BY <1>2, <1>3, <1>4, FollowsTail, PlainTail
<1>. HIDE DEF n
<1>7. /\ DOMAIN code' = Procs /\ code'[Master] = d /\ code'[n] = Child
      /\ \A q \in Procs : q # Master /\ q # n => code'[q] = code[q]
      /\ DOMAIN sock' = Procs /\ sock'[Master] = n
  BY <1>1, <1>5, ProcsAre DEF c, n
<1>. HIDE DEF d
<1>8. Piece(Child) /\ "flip" \notin Kinds(Child)
  BY PieceChild DEF Piece, Marks
<1>9. StructInv'
  <2>1. ASSUME NEW q \in Procs
        PROVE  Form(code'[q]) /\ ("flip" \in Kinds(code'[q]) => slipped')
    <3>1. CASE q = Master
      <4>1. "flip" \in Kinds(c) => slipped
        BY <1>1, ProcsAre DEF StructInv, c
      <4>. QED  BY <1>1, <1>6, <1>7, <3>1, <4>1 DEF Follows
    <3>2. CASE q = n
      BY <1>7, <1>8, <3>2 DEF Piece
    <3>3. CASE q # Master /\ q # n
      BY <1>1, <1>7, <3>3 DEF StructInv
    <3>. QED  BY <3>1, <3>2, <3>3
  <2>2. Order(code'[Master]) /\ Pends(code'[Master]) = {}
    BY <1>4, <1>6, <1>7 DEF Follows
  <2>3. n \in 0..MaxConn
    BY <1>1 DEF StructInv, n
  <2>4. ASSUME NEW e \in Conns, e > n PROVE code'[e] = <<>>
    <3>1. code[e] = <<>>
      BY <1>1, <2>4 DEF StructInv, n
    <3>2. e # n
      BY <1>5, <2>4, Bounds
    <3>. QED  BY <1>7, <3>1, <3>2, ProcsAre
  <2>5. /\ DOMAIN code' = Procs /\ slipped' \in BOOLEAN
        /\ sock'[Master] = n /\ DOMAIN sock' = Procs
    BY <1>1, <1>7 DEF StructInv, n
  <2>. HIDE DEF n
  <2>. QED  BY <2>1, <2>2, <2>3, <2>4, <2>5 DEF StructInv
<1>10. ASSUME NEW r \in Procs
       PROVE  /\ Depth(code[r]) \in Nat /\ Depth(code'[r]) \in Nat
              /\ Depth(code'[r]) >= Depth(code[r])
              /\ ~slipped' => Depth(code'[r]) = Depth(code[r])
  <2>1. Depth(code[r]) \in Nat
    BY <1>1, DepthNat
  <2>2. Depth(code'[r]) = Depth(code[r])
    <3>1. CASE r = Master
      BY <1>6, <1>7, <3>1 DEF c
    <3>2. CASE r = n
      BY <1>5, <1>7, <1>8, <3>2, Empty DEF Piece
    <3>3. CASE r # Master /\ r # n
      BY <1>7, <3>3
    <3>. QED  BY <3>1, <3>2, <3>3
  <2>. QED  BY <2>1, <2>2
<1>11. BalInv'
  BY <1>1, <1>10, BalSame, Zenon
<1>. QED  BY <1>9, <1>11 DEF MpInv

----------------------------------------------------------------------------
(* Every step of a process keeps the invariant. *)
LEMMA StepKeeps ==
    ASSUME MpInv, NEW p \in Procs, Step(p)
    PROVE  MpInv'
<1>1. CASE Wait(p)
  BY <1>1, WaitStep
<1>2. CASE Flip(p)
  BY <1>2, FlipStep
<1>3. CASE Return(p)
  <2>1. /\ Alive(p) /\ Now(p).do \in PlainOps /\ Continue(p, <<>>)
        /\ UNCHANGED <<sem, adj, slipped, sock>>
    BY <1>3 DEF Return, At, Now, PlainOps, Plain, shared
  <2>2. Piece(<<>>)
    BY PieceEmpty
  <2>. QED  BY <2>1, <2>2, PlainStep
<1>4. CASE close_other_client_fd(p)
  <2>1. Alive(p) /\ Now(p).do \in Bodies /\ ((Leave(p, <<>>) /\ sock' = sock) \/ Exit(p))
    BY <1>4 DEF close_other_client_fd, At, Now, Bodies
  <2>. QED  BY <2>1, PieceEmpty, LeaveStep, ExitStep
<1>5. CASE client_login(p)
  <2>1. Alive(p) /\ Now(p).do \in Bodies /\ Leave(p, <<>>) /\ sock' = sock
    BY <1>5 DEF client_login, At, Now, Bodies, local
  <2>2. Piece(<<>>)
    BY PieceEmpty
  <2>. QED  BY <2>1, <2>2, LeaveStep
<1>6. CASE Bcast(p)
  <2>1. Alive(p) /\ Now(p).do \in Bodies /\ Leave(p, <<>>) /\ sock' = sock
    BY <1>6 DEF Bcast, At, Now, Bodies, local
  <2>2. Piece(<<>>)
    BY PieceEmpty
  <2>. QED  BY <2>1, <2>2, LeaveStep
<1>7. CASE Tell(p)
  <2>1. Alive(p) /\ Now(p).do \in Bodies /\ Leave(p, <<>>) /\ sock' = sock
    BY <1>7 DEF Tell, At, Now, Bodies, local
  <2>2. Piece(<<>>)
    BY PieceEmpty
  <2>. QED  BY <2>1, <2>2, LeaveStep
<1>8. CASE KillIf(p)
  <2>1. /\ Alive(p) /\ Now(p).do \in PlainOps
        /\ Continue(p, IF all_clients[Now(p).to].uid
                       THEN <<On("killslot", Now(p).to)>>
                       ELSE <<>>)
        /\ UNCHANGED <<sem, adj, slipped, sock>>
    BY <1>8 DEF KillIf, At, Now, PlainOps, Plain, shared
  <2>2. Piece(IF all_clients[Now(p).to].uid THEN <<On("killslot", Now(p).to)>> ELSE <<>>)
    <3>1. On("killslot", Now(p).to).do \in PlainOps
      BY DEF On, PlainOps
    <3>. QED  BY <3>1, OnePlain, PieceEmpty
  <2>. QED  BY <2>1, <2>2, PlainStep
<1>9. CASE KillSlot(p)
  <2>1. Alive(p) /\ Now(p).do \in PlainOps /\ "usr1" \in Signals
        /\ Kill(p, all_clients[Now(p).to].pid, "usr1", <<>>)
    BY <1>9 DEF KillSlot, At, Now, PlainOps, Signals
  <2>. QED  BY <2>1, KillStep
<1>10. CASE pass_message(p)
  <2>1. Alive(p) /\ Now(p).do \in Bodies /\ Leave(p, <<>>) /\ sock' = sock
    BY <1>10 DEF pass_message, At, Now, Bodies, local
  <2>2. Piece(<<>>)
    BY PieceEmpty
  <2>. QED  BY <2>1, <2>2, LeaveStep
<1>11. CASE PeekBody(p)
  <2>1. Alive(p) /\ Now(p).do \in Bodies /\ Leave(p, <<>>) /\ sock' = sock
    BY <1>11 DEF PeekBody, At, Now, Bodies, shared
  <2>2. Piece(<<>>)
    BY PieceEmpty
  <2>. QED  BY <2>1, <2>2, LeaveStep
<1>12. CASE name_exists(p)
  <2>. DEFINE x == [do |-> "set_name", name |-> Now(p).name,
                    checked |-> [i \in Slots |-> all_clients[i].nickname]]
              taken == \E i \in Slots : all_clients[i].nickname = Now(p).name
  <2>1. /\ Alive(p) /\ Now(p).do \in Bodies /\ sock' = sock
        /\ Leave(p, IF taken THEN <<>> ELSE Section(x))
    BY <1>12 DEF name_exists, At, Now, Bodies, shared
  <2>2. ~taken => Piece(Section(x))
    <3>1. ~taken => Sound(x)
      BY DEF Sound
    <3>2. x.do \in Bodies \ Marks
      BY DEF Bodies, Marks, Starts
    <3>. HIDE DEF x, taken
    <3>. QED  BY <3>1, <3>2, PieceSection
  <2>3. Piece(IF taken THEN <<>> ELSE Section(x))
    BY <2>2, PieceEmpty
  <2>. HIDE DEF x, taken
  <2>. QED  BY <2>1, <2>3, LeaveStep
<1>13. CASE Rename(p)
  <2>1. /\ Alive(p) /\ Now(p).do \in Bodies
        /\ Leave(p, Peek \o Peek \o broadcast)
        /\ sock' = sock
    BY <1>13 DEF Rename, At, Now, Bodies, local
  <2>2. Piece(Peek \o Peek \o broadcast)
    BY PiecePeek, PieceBroadcast, PieceConcat
  <2>. QED  BY <2>1, <2>2, LeaveStep
<1>14. CASE out_exists(p)
  <2>1. /\ Alive(p) /\ Now(p).do \in Bodies
        /\ Leave(p, IF all_clients[Now(p).to].uid
                    THEN <<On("out_fifo", Now(p).to)>>
                    ELSE <<>>)
        /\ sock' = sock
    BY <1>14 DEF out_exists, At, Now, Bodies, shared
  <2>2. Piece(IF all_clients[Now(p).to].uid THEN <<On("out_fifo", Now(p).to)>> ELSE <<>>)
    <3>1. On("out_fifo", Now(p).to).do \in PlainOps
      BY DEF On, PlainOps
    <3>. QED  BY <3>1, OnePlain, PieceEmpty
  <2>. QED  BY <2>1, <2>2, LeaveStep
<1>15. CASE OutFifo(p)
  <2>1. /\ Alive(p) /\ Now(p).do \in PlainOps
        /\ Continue(p, IF fifo[<<me[p], Now(p).to>>] # 0 THEN <<>>
                     ELSE Peek \o Peek \o Section(On("set_sender", Now(p).to)))
        /\ UNCHANGED <<sem, adj, slipped, sock>>
    BY <1>15 DEF OutFifo, At, Now, PlainOps, Plain, shared
  <2>2. Piece(IF fifo[<<me[p], Now(p).to>>] # 0 THEN <<>>
                     ELSE Peek \o Peek \o Section(On("set_sender", Now(p).to)))
    <3>1. On("set_sender", Now(p).to).do \in Bodies \ {"client_init", "set_name"}
      BY DEF On, Bodies
    <3>2. Piece(Section(On("set_sender", Now(p).to))) /\ Piece(Peek \o Peek)
      BY <3>1, SafeSection, PiecePeek, PieceConcat
    <3>3. Piece(Peek \o Peek \o Section(On("set_sender", Now(p).to)))
      BY <3>2, PieceConcat
    <3>. QED  BY <3>3, PieceEmpty
  <2>. QED  BY <2>1, <2>2, PlainStep
<1>16. CASE SetSender(p)
  <2>. DEFINE i == Now(p).to
              x == On("mkfifo", i)
              y == [do |-> "kill_usr2", pid |-> all_clients[i].pid]
              z == [do |-> "open_write", to |-> i, pid |-> all_clients[i].pid]
              w == Do("job")
              s == <<x>> \o Section(y) \o <<z>> \o broadcast \o <<w>>
  <2>1. Alive(p) /\ Now(p).do \in Bodies /\ Leave(p, s) /\ sock' = sock
    BY <1>16 DEF SetSender, At, Now, Bodies, local
  <2>2. /\ x.do \in PlainOps /\ z.do \in PlainOps /\ w.do \in PlainOps
        /\ y.do \in Bodies \ {"client_init", "set_name"}
    BY DEF On, Do, PlainOps, Bodies
  <2>. HIDE DEF x, y, z, w
  <2>3. Piece(<<x>>) /\ Piece(Section(y)) /\ Piece(<<z>>) /\ Piece(<<w>>)
    BY <2>2, OnePlain, SafeSection
  <2>4. Piece(<<x>> \o Section(y))
    BY <2>3, PieceConcat
  <2>5. Piece(<<x>> \o Section(y) \o <<z>>)
    BY <2>3, <2>4, PieceConcat
  <2>6. Piece(<<x>> \o Section(y) \o <<z>> \o broadcast)
    BY <2>5, PieceBroadcast, PieceConcat
  <2>7. Piece(s)
    BY <2>3, <2>6, PieceConcat
  <2>. HIDE DEF s
  <2>. QED  BY <2>1, <2>7, LeaveStep
<1>17. CASE MkFifo(p)
  <2>1. /\ Alive(p) /\ Now(p).do \in PlainOps /\ Continue(p, <<>>)
        /\ UNCHANGED <<sem, adj, slipped, sock>>
    BY <1>17 DEF MkFifo, At, Now, PlainOps, Plain, local
  <2>2. Piece(<<>>)
    BY PieceEmpty
  <2>. QED  BY <2>1, <2>2, PlainStep
<1>18. CASE KillUsr2(p)
  BY <1>18, KillUsr2Step
<1>19. CASE KillAlrm(p)
  <2>1. Alive(p) /\ Now(p).do \in PlainOps /\ "alrm" \in Signals
        /\ Kill(p, Now(p).pid, "alrm", <<>>)
    BY <1>19 DEF KillAlrm, At, Now, PlainOps, Signals
  <2>. QED  BY <2>1, KillStep
<1>20. CASE SemSignal(p)
  <2>1. Alive(p) /\ Now(p).do \in Bodies /\ Leave(p, <<>>) /\ sock' = sock
    BY <1>20 DEF SemSignal, At, Now, Bodies, shared
  <2>2. Piece(<<>>)
    BY PieceEmpty
  <2>. QED  BY <2>1, <2>2, LeaveStep
<1>21. CASE StartJob(p)
  <2>1. /\ Alive(p) /\ Now(p).do \in PlainOps /\ Continue(p, <<>>)
        /\ UNCHANGED <<sem, adj, slipped, sock>>
    BY <1>21 DEF StartJob, At, Now, PlainOps, Plain, local
  <2>2. Piece(<<>>)
    BY PieceEmpty
  <2>. QED  BY <2>1, <2>2, PlainStep
<1>22. CASE user_pipe_handler(p)
  <2>1. /\ Alive(p) /\ Now(p).do \in PlainOps
        /\ Continue(p, <<On("open_read", all_clients[me[p]].sender_id)>>)
        /\ UNCHANGED <<sem, adj, slipped, sock>>
    BY <1>22 DEF user_pipe_handler, At, Now, PlainOps, Plain, local
  <2>2. Piece(<<On("open_read", all_clients[me[p]].sender_id)>>)
    <3>1. On("open_read", all_clients[me[p]].sender_id).do \in PlainOps
      BY DEF On, PlainOps
    <3>. QED  BY <3>1, OnePlain
  <2>. QED  BY <2>1, <2>2, PlainStep
<1>23. CASE OpenReadFails(p)
  <2>1. /\ Alive(p) /\ Now(p).do \in PlainOps /\ Continue(p, <<>>)
        /\ UNCHANGED <<sem, adj, slipped, sock>>
    BY <1>23 DEF OpenReadFails, At, Now, PlainOps, Plain, shared
  <2>2. Piece(<<>>)
    BY PieceEmpty
  <2>. QED  BY <2>1, <2>2, PlainStep
<1>24. CASE SetSentFd(p)
  <2>1. /\ Alive(p) /\ Now(p).do \in PlainOps /\ Continue(p, <<>>)
        /\ UNCHANGED <<sem, adj, slipped, sock>>
    BY <1>24 DEF SetSentFd, At, Now, PlainOps, Plain, local
  <2>2. Piece(<<>>)
    BY PieceEmpty
  <2>. QED  BY <2>1, <2>2, PlainStep
<1>25. CASE in_exists(p)
  <2>1. Alive(p) /\ Now(p).do \in Bodies /\ Leave(p, IF all_clients[Now(p).to].uid
                    THEN <<[do |-> "in_fifo", to |-> Now(p).to, bad |-> Now(p).bad]>>
                    ELSE <<>>) /\ sock' = sock
    BY <1>25 DEF in_exists, At, Now, Bodies, shared
  <2>2. Piece(IF all_clients[Now(p).to].uid
                    THEN <<[do |-> "in_fifo", to |-> Now(p).to, bad |-> Now(p).bad]>>
                    ELSE <<>>)
    <3>. DEFINE x == [do |-> "in_fifo", to |-> Now(p).to, bad |-> Now(p).bad]
    <3>1. x.do \in PlainOps
      BY DEF PlainOps
    <3>. HIDE DEF x
    <3>2. Piece(<<x>>)
      BY <3>1, OnePlain
    <3>. QED  BY <3>2, PieceEmpty DEF x
  <2>. QED  BY <2>1, <2>2, LeaveStep
<1>26. CASE InFifo(p)
  <2>1. /\ Alive(p) /\ Now(p).do \in PlainOps
        /\ Continue(p, IF fifo[<<Now(p).to, me[p]>>] = 0 THEN <<>>
                     ELSE Section([do |-> "take_fd", to |-> Now(p).to, bad |-> Now(p).bad]))
        /\ UNCHANGED <<sem, adj, slipped, sock>>
    BY <1>26 DEF InFifo, At, Now, PlainOps, Plain, shared
  <2>2. Piece(IF fifo[<<Now(p).to, me[p]>>] = 0 THEN <<>>
                     ELSE Section([do |-> "take_fd", to |-> Now(p).to, bad |-> Now(p).bad]))
    <3>. DEFINE x == [do |-> "take_fd", to |-> Now(p).to, bad |-> Now(p).bad]
    <3>1. x.do \in Bodies \ {"client_init", "set_name"}
      BY DEF Bodies
    <3>. HIDE DEF x
    <3>2. Piece(Section(x))
      BY <3>1, SafeSection
    <3>. QED  BY <3>2, PieceEmpty DEF x
  <2>. QED  BY <2>1, <2>2, PlainStep
<1>27. CASE TakeFd(p)
  <2>. DEFINE i == Now(p).to
              x == [do |-> "close_in", from |-> i, fd |-> all_clients[me[p]].sent_fd[i]]
              last == IF Now(p).bad THEN <<>> ELSE <<x>>
              s == Peek \o Peek \o broadcast \o last
  <2>1. Alive(p) /\ Now(p).do \in Bodies /\ Leave(p, s) /\ sock' = sock
    BY <1>27 DEF TakeFd, At, Now, Bodies, local
  <2>2. x.do \in PlainOps
    BY DEF PlainOps
  <2>. HIDE DEF x
  <2>3. Piece(last)
    BY <2>2, OnePlain, PieceEmpty
  <2>. HIDE DEF last
  <2>4. Piece(Peek \o Peek \o broadcast)
    BY PiecePeek, PieceBroadcast, PieceConcat
  <2>5. Piece(s)
    BY <2>3, <2>4, PieceConcat
  <2>. HIDE DEF s
  <2>. QED  BY <2>1, <2>5, LeaveStep
<1>28. CASE CloseIn(p)
  <2>. DEFINE x == Unlink(Now(p).from, me[p])
  <2>1. /\ Alive(p) /\ Now(p).do \in PlainOps
        /\ (Continue(p, <<x>>) /\ UNCHANGED <<sem, adj, slipped, sock>>) \/ Exit(p)
    BY <1>28 DEF CloseIn, At, Now, PlainOps, Plain, local
  <2>2. x.do \in PlainOps
    BY DEF Unlink, PlainOps
  <2>. HIDE DEF x
  <2>. QED  BY <2>1, <2>2, OnePlain, PlainStep, ExitStep
<1>29. CASE UnlinkFifo(p)
  <2>1. /\ Alive(p) /\ Now(p).do \in PlainOps /\ Continue(p, <<>>)
        /\ UNCHANGED <<sem, adj, slipped, sock>>
    BY <1>29 DEF UnlinkFifo, At, Now, PlainOps, Plain, local
  <2>2. Piece(<<>>)
    BY PieceEmpty
  <2>. QED  BY <2>1, <2>2, PlainStep
<1>30. CASE user_pipe_clear(p)
  <2>1. /\ Alive(p) /\ Now(p).do \in PlainOps
        /\ Continue(p, Section(On("read_fds", Now(p).to)))
        /\ UNCHANGED <<sem, adj, slipped, sock>>
    BY <1>30 DEF user_pipe_clear, At, Now, PlainOps, Plain, shared
  <2>2. Piece(Section(On("read_fds", Now(p).to)))
    <3>1. On("read_fds", Now(p).to).do \in Bodies \ {"client_init", "set_name"}
      BY DEF On, Bodies
    <3>. QED  BY <3>1, SafeSection
  <2>. QED  BY <2>1, <2>2, PlainStep
<1>31. CASE ReadFds(p)
  <2>. DEFINE i == Now(p).to
              s == IF all_clients[me[p]].sent_fd[i] > 0 THEN <<Unlink(i, me[p])>> ELSE <<>>
              t == IF all_clients[i].sent_fd[me[p]] > 0 THEN Section(On("mark_clear", i)) ELSE <<>>
  <2>1. Alive(p) /\ Now(p).do \in Bodies /\ Leave(p, s \o t) /\ sock' = sock
    BY <1>31 DEF ReadFds, At, Now, Bodies, shared
  <2>2. Unlink(i, me[p]).do \in PlainOps /\ On("mark_clear", i).do \in Bodies \ {"client_init", "set_name"}
    BY DEF Unlink, On, PlainOps, Bodies
  <2>3. Piece(s) /\ Piece(t)
    BY <2>2, OnePlain, SafeSection, PieceEmpty
  <2>. HIDE DEF s, t
  <2>4. Piece(s \o t)
    BY <2>3, PieceConcat
  <2>. QED  BY <2>1, <2>4, LeaveStep
<1>32. CASE MarkClear(p)
  <2>. DEFINE i == Now(p).to
              x == [do |-> "kill_alrm", pid |-> all_clients[i].pid]
              y == On("reset_sent", i)
              z == Unlink(me[p], i)
              s == <<x>> \o Section(y) \o <<z>>
  <2>1. Alive(p) /\ Now(p).do \in Bodies /\ Leave(p, s) /\ sock' = sock
    BY <1>32 DEF MarkClear, At, Now, Bodies, local
  <2>2. x.do \in PlainOps /\ z.do \in PlainOps /\ y.do \in Bodies \ {"client_init", "set_name"}
    BY DEF Unlink, On, PlainOps, Bodies
  <2>. HIDE DEF x, y, z
  <2>3. Piece(<<x>>) /\ Piece(Section(y)) /\ Piece(<<z>>)
    BY <2>2, OnePlain, SafeSection
  <2>4. Piece(<<x>> \o Section(y))
    BY <2>3, PieceConcat
  <2>5. Piece(s)
    BY <2>3, <2>4, PieceConcat
  <2>. HIDE DEF s
  <2>. QED  BY <2>1, <2>5, LeaveStep
<1>33. CASE ResetSent(p)
  <2>1. Alive(p) /\ Now(p).do \in Bodies /\ Leave(p, <<>>) /\ sock' = sock
    BY <1>33 DEF ResetSent, At, Now, Bodies, local
  <2>2. Piece(<<>>)
    BY PieceEmpty
  <2>. QED  BY <2>1, <2>2, LeaveStep
<1>34. CASE user_exit_clear(p)
  <2>1. Alive(p) /\ Now(p).do \in Bodies /\ Leave(p, <<>>) /\ sock' = sock
    BY <1>34 DEF user_exit_clear, At, Now, Bodies, local
  <2>2. Piece(<<>>)
    BY PieceEmpty
  <2>. QED  BY <2>1, <2>2, LeaveStep
<1>35. CASE ClearSlot(p)
  <2>1. Alive(p) /\ Now(p).do \in Bodies /\ Leave(p, <<>>) /\ sock' = sock
    BY <1>35 DEF ClearSlot, At, Now, Bodies, local
  <2>2. Piece(<<>>)
    BY PieceEmpty
  <2>. QED  BY <2>1, <2>2, LeaveStep
<1>36. CASE CloseSock(p)
  <2>1. /\ Alive(p) /\ Now(p).do \in PlainOps /\ Continue(p, <<>>)
        /\ UNCHANGED <<sem, adj, slipped, sock>>
    BY <1>36 DEF CloseSock, At, Now, PlainOps, Plain, local
  <2>2. Piece(<<>>)
    BY PieceEmpty
  <2>. QED  BY <2>1, <2>2, PlainStep
<1>37. CASE ExitProcess(p)
  <2>1. Alive(p) /\ Exit(p)
    BY <1>37 DEF ExitProcess, At
  <2>. QED  BY <2>1, ExitStep
<1>. QED  BY <1>1, <1>2, <1>3, <1>4, <1>5, <1>6, <1>7, <1>8, <1>9, <1>10, <1>11, <1>12,
             <1>13, <1>14, <1>15, <1>16, <1>17, <1>18, <1>19, <1>20, <1>21, <1>22, <1>23,
             <1>24, <1>25, <1>26, <1>27, <1>28, <1>29, <1>30, <1>31, <1>32, <1>33, <1>34,
             <1>35, <1>36, <1>37 DEF Step

LEMMA MasterKeeps ==
    ASSUME MpInv, MasterStep
    PROVE  MpInv'
<1>0. Master \in Procs
  BY ProcsAre
<1>1. CASE client_init
  BY <1>1, ClientInitStep
<1>2. CASE Register
  <2>1. /\ Alive(Master) /\ Now(Master).do \in PlainOps /\ Continue(Master, <<>>)
        /\ UNCHANGED <<sem, adj, slipped, sock>>
    BY <1>2 DEF Register, At, Now, PlainOps, Plain
  <2>. QED  BY <1>0, <2>1, PieceEmpty, PlainStep
<1>3. CASE Fork
  BY <1>3, ForkStep
<1>4. CASE close_unused_fd
  <2>1. Alive(Master) /\ Now(Master).do \in Bodies /\ Leave(Master, <<>>) /\ sock' = sock
    BY <1>4 DEF close_unused_fd, At, Now, Bodies
  <2>. QED  BY <1>0, <2>1, PieceEmpty, LeaveStep
<1>. QED  BY <1>1, <1>2, <1>3, <1>4 DEF MasterStep

LEMMA QuietKeeps ==
    ASSUME MpInv, UNCHANGED <<code, sem, adj, sock, slipped>>
    PROVE  MpInv'
BY DEF MpInv, StructInv, BalInv

LEMMA NextKeeps ==
    ASSUME MpInv, [Next]_vars
    PROVE  MpInv'
<1>1. CASE Accept
  BY <1>1, AcceptStep
<1>2. CASE MasterStep
  BY <1>2, MasterKeeps
<1>3. ASSUME NEW p \in Procs, Step(p) PROVE MpInv'
  BY <1>3, StepKeeps
<1>4. ASSUME NEW p \in Procs, NEW q \in Procs, OpenBoth(p, q) PROVE MpInv'
  BY <1>4, OpenStep
<1>5. ASSUME NEW p \in Procs, NEW s \in Signals, Deliver(p, s) PROVE MpInv'
  BY <1>5, DeliverStep
<1>6. ASSUME NEW p \in Procs, JobDone(p) PROVE MpInv'
  BY <1>6, QuietKeeps DEF JobDone, local
<1>7. ASSUME NEW p \in Procs, Type(p) PROVE MpInv'
  BY <1>7, TypeStep
<1>8. ASSUME NEW p \in Procs, Quit(p) PROVE MpInv'
  <2>1. /\ Alive(p) /\ Now(p).do \in PlainOps /\ Continue(p, client_logout)
        /\ UNCHANGED <<sem, adj, slipped, sock>>
    BY <1>8 DEF Quit, At, Now, PlainOps
  <2>. QED  BY <2>1, PieceLogout, PlainStep
<1>9. CASE UNCHANGED vars
  BY <1>9, QuietKeeps DEF vars
<1>. QED  BY <1>1, <1>2, <1>3, <1>4, <1>5, <1>6, <1>7, <1>8, <1>9 DEF Next, System

LEMMA InitHolds ==
    Init => MpInv
<1>. SUFFICES ASSUME Init PROVE MpInv
  OBVIOUS
<1>. DEFINE x == Do("accept")
            y == Do("prompt")
            n == Cardinality(Started)
<1>1. /\ code = [p \in Procs |-> IF p = Master THEN <<x>> ELSE IF p \in Started THEN <<y>> ELSE <<>>]
      /\ sem = 1 /\ adj = [p \in Procs |-> 0] /\ slipped = FALSE
      /\ DOMAIN sock = Procs /\ sock[Master] = n
  BY ProcsAre DEF Init
<1>2. x.do = "accept" /\ y.do = "prompt"
  BY DEF Do
<1>. HIDE DEF x, y
<1>3. /\ Form(<<x>>) /\ Depth(<<x>>) = 0 /\ DOMAIN <<x>> = {1} /\ <<x>>[1] = x
      /\ Form(<<y>>) /\ Depth(<<y>>) = 0 /\ Kinds(<<x>>) = {x.do} /\ Kinds(<<y>>) = {y.do}
  <2>1. x.do \notin Waits \cup Bodies /\ y.do \notin Waits \cup Bodies
    BY <1>2 DEF Waits, Bodies
  <2>2. /\ IsSeq(<<x>>) /\ DOMAIN <<x>> = {1} /\ <<x>>[1] = x
        /\ IsSeq(<<y>>) /\ DOMAIN <<y>> = {1} /\ <<y>>[1] = y
    BY Singleton
  <2>3. Form(<<x>>) /\ Depth(<<x>>) = 0 /\ Form(<<y>>) /\ Depth(<<y>>) = 0
    BY <2>1, <2>2, PlainSeq
  <2>. QED  BY <2>2, <2>3 DEF Kinds
<1>4. n \in 0..MaxConn /\ Started = 1..n
  <2>1. IsFiniteSet(Conns)
    BY Bounds, FS_Interval
  <2>2. Started \subseteq Conns /\ Started = 1..n
    BY MultiProcAssumption, Zenon
  <2>3. IsFiniteSet(Started)
    BY <2>1, <2>2, FS_Subset
  <2>4. n \in Nat
    BY <2>3, FS_CardinalityType
  <2>. HIDE DEF n
  <2>5. n # 0 => n \in Conns
    BY <2>2, <2>4
  <2>. QED  BY <2>2, <2>4, <2>5, Bounds
<1>. HIDE DEF n
<1>5. \A p \in Procs : Form(code[p]) /\ "flip" \notin Kinds(code[p]) /\ Depth(code[p]) = 0
  <2>1. "flip" \notin Kinds(<<>>)
    BY PieceEmpty DEF Piece, Marks
  <2>. QED  BY <1>1, <1>2, <1>3, <2>1, Empty
<1>6. code[Master] = <<x>>
  BY <1>1, ProcsAre
<1>7. Pends(<<x>>) = {} /\ Order(<<x>>)
  <2>1. Pends(<<x>>) = {}
    BY <1>2, <1>3 DEF Pends, Starts
  <2>2. Len(<<x>>) = 1
    OBVIOUS
  <2>. QED  BY <1>3, <2>1, <2>2 DEF Order
<1>8. \A c \in Conns : c > n => code[c] = <<>>
  <2>. SUFFICES ASSUME NEW c \in Conns, c > n PROVE code[c] = <<>>
    OBVIOUS
  <2>1. c \in Procs /\ c # Master
    BY ProcsAre
  <2>2. c \notin Started
    BY <1>4, Bounds
  <2>. QED  BY <1>1, <2>1, <2>2
<1>9. StructInv
  BY <1>1, <1>4, <1>5, <1>6, <1>7, <1>8, Zenon DEF StructInv
<1>10. BalInv
  <2>1. Sum(adj) = 0 /\ adj \in [Procs -> Int] /\ \A p \in Procs : adj[p] = 0
    BY <1>1, SumZero
  <2>2. \A p \in Procs : adj[p] <= Depth(code[p]) /\ adj[p] = Depth(code[p])
    BY <1>5, <2>1
  <2>3. sem \in Nat /\ sem + Sum(adj) = 1 /\ sem + Sum(adj) >= 1
    BY <1>1, <2>1
  <2>. QED  BY <2>1, <2>2, <2>3 DEF BalInv
<1>. QED  BY <1>9, <1>10 DEF MpInv

LEMMA MpInvHolds == Spec => []MpInv
<1>1. MpInv /\ [Next]_vars => MpInv'
  BY NextKeeps
<1>. QED  BY InitHolds, <1>1, PTL DEF Spec

(***************************************************************************)
(* The semaphore of semaphore.cpp does its work: as long as no signal has  *)
(* made a wait fail, at most one process is between sem_wait and           *)
(* sem_signal, and none twice.  And what SEM_UNDO gives back when a server *)
(* exits makes up for any wait that did fail: the semaphore is 0 only      *)
(* while somebody is in a section, so no process is shut out for good by   *)
(* one that is not there any more.  For any number of clients and slots,   *)
(* any commands, and signals and exits anywhere.                           *)
(***************************************************************************)
THEOREM SectionsExclude == Spec => []Exclusion
<1>1. MpInv => Exclusion
  <2>. SUFFICES ASSUME MpInv PROVE Exclusion
    OBVIOUS
  <2>1. /\ StructInv /\ BalInv /\ sem \in Nat /\ adj \in [Procs -> Int]
        /\ \A p \in Procs : adj[p] <= Depth(code[p])
        /\ sem + Sum(adj) >= 1
        /\ ~slipped => sem + Sum(adj) = 1 /\ \A p \in Procs : adj[p] = Depth(code[p])
    BY DEF MpInv, BalInv
  <2>2. ASSUME NEW p \in Procs PROVE Inside(p) = Entered(code[p])
    BY DEF Inside, Entered, Waits
  <2>. DEFINE f == [p \in Procs |-> Cardinality(Inside(p))]
  <2>3. ~slipped => sem + Sum(f) = 1
    <3>. SUFFICES ASSUME ~slipped PROVE sem + Sum(f) = 1
      OBVIOUS
    <3>1. f = [p \in Procs |-> adj[p]]
      BY <2>1, <2>2 DEF Depth
    <3>2. f = adj
      <4>. HIDE DEF f
      <4>. QED  BY <2>1, <3>1
    <3>. HIDE DEF f
    <3>. QED  BY <2>1, <3>2
  <2>4. sem = 0 => \E p \in Procs : Inside(p) # {}
    <3>. SUFFICES ASSUME sem = 0, \A p \in Procs : Inside(p) = {} PROVE FALSE
      OBVIOUS
    <3>1. \A p \in Procs : adj[p] <= 0
      BY <2>1, <2>2, FS_EmptySet DEF Depth
    <3>2. \A g \in [Procs -> Int] : (\A p \in Procs : g[p] <= 0) => Sum(g) <= 0 /\ Sum(g) \in Int
      BY SumSign, SumType
    <3>3. Sum(adj) <= 0 /\ Sum(adj) \in Int
      BY <2>1, <3>1, <3>2
    <3>. QED  BY <2>1, <3>3
  <2>. QED  BY <2>1, <2>3, <2>4 DEF Exclusion
<1>. QED  BY <1>1, MpInvHolds, PTL

(***************************************************************************)
(* name looks the nickname up in one section and sets it in another, so    *)
(* two users can get the same one; but only if the other took it between   *)
(* the two, whatever else happens meanwhile.                               *)
(***************************************************************************)
THEOREM NamesClashByRaceOnly == Spec => NameClash
<1>1. MpInv => \A p \in Conns : Rename(p) =>
          \A i \in Slots : all_clients[i].nickname = Now(p).name
                                => Now(p).checked[i] # Now(p).name
  <2>. SUFFICES ASSUME MpInv, NEW p \in Conns, Rename(p), NEW i \in Slots
                PROVE  Now(p).checked[i] # Now(p).name
    OBVIOUS
  <2>1. StructInv /\ p \in Procs /\ Alive(p) /\ Now(p).do = "set_name"
    BY ProcsAre DEF MpInv, Rename, At, Now
  <2>2. Form(code[p]) /\ Now(p) = code[p][1] /\ 1 \in DOMAIN code[p]
    BY <2>1, HeadIs, HeadTail DEF Form
  <2>. QED  BY <2>1, <2>2 DEF Form, Checked
<1>2. MpInv => [\A p \in Conns : Rename(p) =>
          \A i \in Slots : all_clients[i].nickname = Now(p).name
                                => Now(p).checked[i] # Now(p).name]_vars
  BY <1>1
<1>. QED  BY <1>2, MpInvHolds, PTL DEF NameClash

----------------------------------------------------------------------------
(************************ Slots, sockets and users ************************)

(* Instructions that decide to whom a slot belongs.  A server that runs    *)
(* "<n" may exit in the middle of it, so these count where there are none. *)
InOps == {"in_exists", "in_fifo", "take_fd", "close_in"}
Owners == {"close_other", "prompt", "clear_slot"}
MasterOps == {"accept", "client_init", "register", "fork"}
ServerOps == Owners \cup {"close", "exit"}
Main(p) ==
    MasterOps \cup ServerOps \cup (IF "in" \in Menu /\ p # Master THEN {} ELSE InOps)

Lasts == {"accept", "prompt", "exit"}
Onces == {"client_init", "fork", "close_other", "clear_slot"}

Registered(c) == {c[k].to : k \in {j \in DOMAIN c : c[j].do = "register"}}

(* How the instructions of Main stand to each other. *)
Tidy(c) ==
    /\ \A k \in DOMAIN c : c[k].do \in Lasts => k = Len(c)
    /\ \A j, k \in DOMAIN c : c[j].do \in Onces /\ c[k].do \in Onces => j = k
    /\ \A k \in DOMAIN c : c[k].do = "register" => k + 1 \in DOMAIN c /\ c[k+1].do = "fork"
    /\ "close_other" \in Kinds(c) => "prompt" \in Kinds(c)
    /\ {"clear_slot", "close"} \cap Kinds(c) # {} => "exit" \in Kinds(c)

SameMain(p, d, c) == Kinds(d) \cap Main(p) = Kinds(c) \cap Main(p) /\ Registered(d) = Registered(c)

LEMMA MainOps ==
  ASSUME NEW p
  PROVE
    /\ Onces \subseteq Main(p) /\ Lasts \subseteq Main(p) /\ Owners \subseteq ServerOps
    /\ ServerOps \subseteq Main(p) /\ MasterOps \subseteq Main(p)
    /\ "register" \in Main(p) /\ "fork" \in Onces /\ "register" \notin Onces \cup Lasts
    /\ Onces \cap Lasts = {} /\ "close" \notin Onces \cup Lasts
    /\ MasterOps \cap ServerOps = {}
    /\ {"close_other", "clear_slot", "close", "exit", "prompt", "fork", "client_init"} \subseteq Main(p)
BY DEF Main, MasterOps, ServerOps, Owners, Lasts, Onces

LEMMA KindsTail ==
    ASSUME NEW c, IsSeq(c), c # <<>>
    PROVE  /\ Kinds(c) = {c[1].do} \cup Kinds(Tail(c))
           /\ c[1].do # "register" => Registered(Tail(c)) = Registered(c)
           /\ c[1].do = "register" => Registered(c) = {c[1].to} \cup Registered(Tail(c))
<1>. DEFINE t == Tail(c)
            l == Len(c)
<1>1. /\ l \in Nat \ {0} /\ DOMAIN c = 1..l /\ 1 \in DOMAIN c
      /\ DOMAIN t = 1..l-1 /\ \A k \in 1..l-1 : t[k] = c[k+1]
  BY HeadTail
<1>. HIDE DEF t, l
<1>2. \A k \in 1..l-1 : k + 1 \in 1..l
  BY <1>1
<1>3. ASSUME NEW k \in 1..l, k # 1 PROVE k - 1 \in 1..l-1 /\ c[k] = t[k-1]
  <2>1. k - 1 \in 1..l-1 /\ (k - 1) + 1 = k
    BY <1>1, <1>3
  <2>. QED  BY <1>1, <2>1
<1>4. Kinds(t) \subseteq Kinds(c) /\ c[1].do \in Kinds(c)
  BY <1>1, <1>2, Zenon DEF Kinds
<1>5. Kinds(c) \subseteq {c[1].do} \cup Kinds(t)
  <2>. SUFFICES ASSUME NEW k \in 1..l PROVE c[k].do \in {c[1].do} \cup Kinds(t)
    BY <1>1 DEF Kinds
  <2>1. CASE k = 1
    BY <2>1
  <2>2. CASE k # 1
    BY <1>1, <1>3, <2>2, Zenon DEF Kinds
  <2>. QED  BY <2>1, <2>2
<1>6. Registered(t) \subseteq Registered(c)
  BY <1>1, <1>2, Zenon DEF Registered
<1>7. ASSUME NEW x \in Registered(c)
      PROVE  x \in Registered(t) \/ (c[1].do = "register" /\ x = c[1].to)
  <2>1. PICK k \in 1..l : c[k].do = "register" /\ x = c[k].to
    BY <1>1 DEF Registered
  <2>2. CASE k = 1
    BY <2>1, <2>2
  <2>3. CASE k # 1
    <3>1. k - 1 \in 1..l-1 /\ c[k] = t[k-1]
      BY <1>3, <2>3
    <3>2. k - 1 \in DOMAIN t /\ t[k-1].do = "register" /\ x = t[k-1].to
      BY <1>1, <2>1, <3>1
    <3>. QED  BY <3>2 DEF Registered
  <2>. QED  BY <2>2, <2>3
<1>8. c[1].do = "register" => c[1].to \in Registered(c)
  BY <1>1 DEF Registered
<1>. QED  BY <1>4, <1>5, <1>6, <1>7, <1>8, Zenon DEF t

LEMMA TidyTail ==
    ASSUME NEW p, NEW c, IsSeq(c), c # <<>>, Tidy(c)
    PROVE  /\ Tidy(Tail(c))
           /\ c[1].do \notin Main(p) => SameMain(p, Tail(c), c)
           /\ c[1].do \in Onces => Kinds(Tail(c)) \cap Onces = {}
           /\ c[1].do \in Lasts => Tail(c) = <<>>
           /\ "fork" \notin Kinds(Tail(c)) => Registered(Tail(c)) = {}
<1>. DEFINE t == Tail(c)
            l == Len(c)
<1>1. /\ l \in Nat \ {0} /\ DOMAIN c = 1..l /\ 1 \in DOMAIN c /\ IsSeq(t)
      /\ Len(t) = l - 1 /\ DOMAIN t = 1..l-1 /\ \A k \in 1..l-1 : t[k] = c[k+1]
  BY HeadTail, Zenon
<1>2. Kinds(c) = {c[1].do} \cup Kinds(t)
  BY KindsTail
<1>2a. c[1].do \notin Main(p) => SameMain(p, t, c)
  BY KindsTail, MainOps DEF SameMain
<1>. HIDE DEF t
<1>3. \A k \in 1..l-1 : k + 1 \in 1..l /\ k + 1 # 1 /\ (k + 1 = l <=> k = l - 1)
  BY <1>1
<1>4. \A k \in 1..l-1 : t[k].do \in Lasts => k = Len(t)
  BY <1>1, <1>3, Zenon DEF Tidy
<1>5. ASSUME NEW j \in 1..l-1, NEW k \in 1..l-1, t[j].do \in Onces, t[k].do \in Onces
      PROVE  j = k
  <2>1. j + 1 = k + 1
    BY <1>1, <1>3, <1>5, Zenon DEF Tidy
  <2>. QED  BY <2>1
<1>6. ASSUME NEW k \in 1..l-1, t[k].do = "register"
      PROVE  k + 1 \in 1..l-1 /\ t[k+1].do = "fork"
  <2>1. k + 1 + 1 \in 1..l /\ c[k+1+1].do = "fork"
    BY <1>1, <1>3, <1>6, Zenon DEF Tidy
  <2>2. k + 1 \in 1..l-1
    BY <1>1, <2>1
  <2>. QED  BY <1>1, <2>1, <2>2
<1>7. ASSUME NEW x \in Lasts, x \in Kinds(c), t # <<>>
      PROVE  x \in Kinds(t)
  <2>1. PICK k \in 1..l : c[k].do = x
    BY <1>1, <1>7 DEF Kinds
  <2>2. k = l
    BY <1>1, <1>7, <2>1, Zenon DEF Tidy
  <2>3. l # 1
    <3>1. l = 1 => DOMAIN t = {}
      BY <1>1
    <3>2. DOMAIN t = {} => t = <<>>
      BY <1>1 DEF IsSeq
    <3>. QED  BY <1>7, <3>1, <3>2
  <2>4. l - 1 \in 1..l-1 /\ l - 1 + 1 = l
    BY <1>1, <2>3
  <2>. QED  BY <1>1, <2>1, <2>2, <2>4 DEF Kinds
<1>8. t = <<>> => Kinds(t) = {}
  BY DEF Kinds
<1>9. /\ "close_other" \in Kinds(t) => "prompt" \in Kinds(t)
      /\ {"clear_slot", "close"} \cap Kinds(t) # {} => "exit" \in Kinds(t)
  <2>1. "prompt" \in Lasts /\ "exit" \in Lasts
    BY DEF Lasts
  <2>. QED  BY <1>2, <1>7, <1>8, <2>1 DEF Tidy
<1>10. Tidy(t)
  BY <1>1, <1>4, <1>5, <1>6, <1>9, Zenon DEF Tidy
<1>11. c[1].do \in Onces => Kinds(t) \cap Onces = {}
  <2>. SUFFICES ASSUME c[1].do \in Onces, NEW k \in 1..l-1, t[k].do \in Onces PROVE FALSE
    BY <1>1 DEF Kinds
  <2>1. k + 1 = 1
    BY <1>1, <1>3 DEF Tidy
  <2>. QED  BY <1>3, <2>1
<1>12. c[1].do \in Lasts => t = <<>>
  <2>. SUFFICES ASSUME c[1].do \in Lasts PROVE t = <<>>
    OBVIOUS
  <2>1. 1 = l
    BY <1>1 DEF Tidy
  <2>2. l = 1 => DOMAIN t = {}
    BY <1>1
  <2>. QED  BY <1>1, <2>1, <2>2 DEF IsSeq
<1>13. "fork" \notin Kinds(t) => Registered(t) = {}
  BY <1>1, <1>6, Zenon DEF Registered, Kinds
<1>. QED  BY <1>2a, <1>10, <1>11, <1>12, <1>13 DEF t

(* What is put before the rest: at most one of Onces in both together, the *)
(* rest holds the last instruction that belongs to it. *)
LEMMA TidyConcat ==
    ASSUME NEW s, NEW r, IsSeq(s), IsSeq(r), Tidy(r),
           Kinds(s) \cap Lasts = {},
           \A j, k \in DOMAIN s : s[j].do \in Onces /\ s[k].do \in Onces => j = k,
           Kinds(s) \cap Onces # {} => Kinds(r) \cap Onces = {},
           \A k \in DOMAIN s : s[k].do = "register" => k + 1 \in DOMAIN s /\ s[k+1].do = "fork",
           "close_other" \in Kinds(s) => "prompt" \in Kinds(r),
           {"clear_slot", "close"} \cap Kinds(s) # {} => "exit" \in Kinds(r)
    PROVE  Tidy(s \o r)
<1>. DEFINE t == s \o r
            l == Len(s)
            m == Len(r)
<1>0. Kinds(t) = Kinds(s) \cup Kinds(r)
  BY KindsConcat
<1>1. /\ l \in Nat /\ m \in Nat
      /\ DOMAIN s = 1..l /\ DOMAIN r = 1..m /\ DOMAIN t = 1..l+m
      /\ \A k \in 1..l : t[k] = s[k]
      /\ \A k \in 1..m : t[l+k] = r[k]
      /\ IsSeq(t)
  BY Concat
<1>. HIDE DEF t
<1>2. Len(t) = l + m
  <2>1. Len(t) \in Nat /\ DOMAIN t = 1..Len(t)
    BY <1>1, LenProperties DEF IsSeq
  <2>. HIDE DEF l, m
  <2>2. Len(t) # 0 => Len(t) \in 1..l+m
    BY <1>1, <2>1
  <2>3. l + m # 0 => l + m \in 1..Len(t)
    BY <1>1, <2>1
  <2>. QED  BY <1>1, <2>1, <2>2, <2>3
<1>. HIDE DEF l
<1>3. ASSUME NEW k \in 1..l+m, k \notin 1..l
      PROVE  k - l \in 1..m /\ t[k] = r[k-l]
  <2>1. k - l \in 1..m /\ l + (k - l) = k
    <3>. HIDE DEF m
    <3>. QED  BY <1>1, <1>3
  <2>. QED  BY <1>1, <2>1
<1>4. ASSUME NEW k \in 1..l+m, t[k].do \in Lasts PROVE k = l + m
  <2>1. k \notin 1..l
    BY <1>1, <1>4, Zenon DEF Kinds
  <2>2. k - l \in 1..m /\ k - l = m
    BY <1>1, <1>3, <1>4, <2>1, Zenon DEF Tidy
  <2>. HIDE DEF m
  <2>. QED  BY <1>1, <2>2
<1>5. ASSUME NEW j \in 1..l+m, NEW k \in 1..l+m, t[j].do \in Onces, t[k].do \in Onces
      PROVE  j = k
  <2>1. CASE j \in 1..l /\ k \in 1..l
    BY <1>1, <1>5, <2>1
  <2>2. CASE j \notin 1..l /\ k \notin 1..l
    <3>1. j - l = k - l
      BY <1>1, <1>3, <1>5, <2>2, Zenon DEF Tidy
    <3>. HIDE DEF m
    <3>. QED  BY <1>1, <3>1
  <2>3. ASSUME NEW a \in 1..l, NEW b \in 1..l+m, b \notin 1..l, t[a].do \in Onces, t[b].do \in Onces
        PROVE  FALSE
    <3>1. t[a].do \in Kinds(s)
      BY <1>1, <2>3, Zenon DEF Kinds
    <3>2. b - l \in 1..m /\ t[b] = r[b-l]
      BY <1>3, <2>3
    <3>3. t[b].do \in Kinds(r)
      BY <1>1, <3>2, Zenon DEF Kinds
    <3>. QED  BY <2>3, <3>1, <3>3
  <2>4. CASE j \in 1..l /\ k \notin 1..l
    BY <1>5, <2>3, <2>4
  <2>5. CASE j \notin 1..l /\ k \in 1..l
    BY <1>5, <2>3, <2>5
  <2>. QED  BY <2>1, <2>2, <2>4, <2>5
<1>6. ASSUME NEW k \in 1..l+m, t[k].do = "register"
      PROVE  k + 1 \in 1..l+m /\ t[k+1].do = "fork"
  <2>1. CASE k \in 1..l
    <3>1. k + 1 \in 1..l /\ s[k+1].do = "fork"
      BY <1>1, <1>6, <2>1
    <3>2. k + 1 \in 1..l+m
      <4>. HIDE DEF m
      <4>. QED  BY <1>1, <3>1
    <3>. QED  BY <1>1, <3>1, <3>2
  <2>2. CASE k \notin 1..l
    <3>1. k - l + 1 \in 1..m /\ r[k-l+1].do = "fork"
      BY <1>1, <1>3, <1>6, <2>2, Zenon DEF Tidy
    <3>2. k + 1 \in 1..l+m /\ k + 1 = l + (k - l + 1)
      <4>. HIDE DEF m
      <4>. QED  BY <1>1, <3>1
    <3>. QED  BY <1>1, <3>1, <3>2, Zenon
  <2>. QED  BY <2>1, <2>2
<1>7. /\ "close_other" \in Kinds(t) => "prompt" \in Kinds(t)
      /\ {"clear_slot", "close"} \cap Kinds(t) # {} => "exit" \in Kinds(t)
  BY <1>0 DEF Tidy
<1>8. Tidy(t)
  <2>. HIDE DEF m
  <2>. QED  BY <1>1, <1>2, <1>4, <1>5, <1>6, <1>7, Zenon DEF Tidy
<1>. QED  BY <1>8 DEF t

LEMMA RegisteredConcat ==
    ASSUME NEW s, NEW r, IsSeq(s), IsSeq(r)
    PROVE  Registered(s \o r) = Registered(s) \cup Registered(r)
<1>. DEFINE t == s \o r
            l == Len(s)
            m == Len(r)
<1>1. /\ l \in Nat /\ m \in Nat
      /\ DOMAIN s = 1..l /\ DOMAIN r = 1..m /\ DOMAIN t = 1..l+m
      /\ \A k \in 1..l : t[k] = s[k]
      /\ \A k \in 1..m : t[l+k] = r[k]
  BY Concat
<1>. HIDE DEF t, l, m
<1>2. \A k \in 1..l : k \in 1..l+m
  BY <1>1
<1>3. \A k \in 1..m : l + k \in 1..l+m
  BY <1>1
<1>4. ASSUME NEW k \in 1..l+m, k \notin 1..l PROVE k - l \in 1..m /\ l + (k - l) = k
  BY <1>1, <1>4
<1>5. Registered(s) \subseteq Registered(t)
  BY <1>1, <1>2 DEF Registered
<1>6. Registered(r) \subseteq Registered(t)
  <2>. SUFFICES ASSUME NEW k \in 1..m, r[k].do = "register" PROVE r[k].to \in Registered(t)
    BY <1>1 DEF Registered
  <2>1. t[l+k] = r[k] /\ l + k \in DOMAIN t
    BY <1>1, <1>3
  <2>. QED  BY <2>1 DEF Registered
<1>7. ASSUME NEW k \in 1..l+m, t[k].do = "register"
      PROVE  t[k].to \in Registered(s) \cup Registered(r)
  <2>1. CASE k \in 1..l
    BY <1>1, <1>7, <2>1 DEF Registered
  <2>2. CASE k \notin 1..l
    <3>1. k - l \in 1..m /\ t[k] = r[k-l]
      BY <1>1, <1>4, <2>2
    <3>2. k - l \in DOMAIN r /\ r[k-l].do = "register" /\ t[k].to = r[k-l].to
      BY <1>1, <1>7, <3>1
    <3>. QED  BY <3>2 DEF Registered
  <2>. QED  BY <2>1, <2>2
<1>8. Registered(t) \subseteq Registered(s) \cup Registered(r)
  <2>. SUFFICES ASSUME NEW k \in DOMAIN t, t[k].do = "register"
                PROVE  t[k].to \in Registered(s) \cup Registered(r)
    BY DEF Registered
  <2>1. k \in 1..l+m
    BY <1>1
  <2>. QED  BY <1>7, <2>1
<1>. QED  BY <1>5, <1>6, <1>8 DEF t

(* Code that has nothing to do with slots. *)
Aside(p, s) == IsSeq(s) /\ Kinds(s) \cap Main(p) = {}

LEMMA AsideBefore ==
    ASSUME NEW p, NEW s, Aside(p, s), NEW r, IsSeq(r), Tidy(r)
    PROVE  Tidy(s \o r) /\ SameMain(p, s \o r, r)
<1>1. \A k \in DOMAIN s : s[k].do \notin Main(p)
  BY DEF Aside, Kinds
<1>2. Registered(s) = {}
  BY <1>1, MainOps DEF Registered
<1>3. SameMain(p, s \o r, r)
  BY <1>2, KindsConcat, RegisteredConcat DEF Aside, SameMain
<1>4. Tidy(s \o r)
  <2>1. Kinds(s) \cap Lasts = {} /\ Kinds(s) \cap Onces = {}
        /\ "close_other" \notin Kinds(s) /\ {"clear_slot", "close"} \cap Kinds(s) = {}
    BY MainOps DEF Aside
  <2>2. \A k \in DOMAIN s : s[k].do # "register" /\ s[k].do \notin Onces
    BY <1>1, MainOps
  <2>. QED  BY <2>1, <2>2, TidyConcat DEF Aside
<1>. QED  BY <1>3, <1>4

SideOps ==
    {"wait", "flip", "return", "killif", "killslot", "out_fifo", "mkfifo", "open_write",
     "job", "user_pipe_handler", "open_read", "set_sent", "unlink", "user_pipe_clear",
     "kill_alrm", "close_unused_fd", "set_pid", "bcast", "tell", "pass_message", "peek",
     "name_exists", "set_name", "out_exists", "set_sender", "kill_usr2", "signal",
     "read_fds", "mark_clear", "reset_sent", "user_exit_clear"}

LEMMA Sides ==
    ASSUME NEW p
    PROVE  SideOps \cap Main(p) = {} /\ ("in" \in Menu /\ p # Master => InOps \cap Main(p) = {})
BY DEF SideOps, InOps, Main, MasterOps, ServerOps, Owners

LEMMA AsideEmpty == ASSUME NEW p PROVE Aside(p, <<>>)
<1>1. DOMAIN <<>> = {}
  OBVIOUS
<1>. QED  BY <1>1, Empty DEF Aside, Kinds, Form

LEMMA AsideConcat ==
    ASSUME NEW p, NEW s, NEW t, Aside(p, s), Aside(p, t)
    PROVE  Aside(p, s \o t)
BY KindsConcat, Concat DEF Aside

LEMMA AsideOne ==
    ASSUME NEW p, NEW x, x.do \notin Main(p)
    PROVE  Aside(p, <<x>>)
<1>1. IsSeq(<<x>>) /\ DOMAIN <<x>> = {1} /\ <<x>>[1] = x
  BY Singleton
<1>. QED  BY <1>1 DEF Aside, Kinds

LEMMA AsideSection ==
    ASSUME NEW p, NEW y, y.do \notin Main(p)
    PROVE  Aside(p, Section(y))
<1>. DEFINE x == Do("wait")
<1>1. x.do \notin Main(p)
  BY Sides DEF SideOps, Do
<1>. HIDE DEF x
<1>2. IsSeq(<<x, y>>) /\ Kinds(<<x, y>>) = {x.do, y.do}
  BY Pair
<1>. QED  BY <1>1, <1>2 DEF Aside, Section, x

LEMMA AsideEach ==
    ASSUME NEW p, NEW op, op \notin Main(p)
    PROVE  Aside(p, [i \in Slots |-> On(op, i)])
<1>. DEFINE s == [i \in Slots |-> On(op, i)]
            S == {On(op, i) : i \in Slots}
<1>1. Slots = 1..MAX_CLIENTS /\ MAX_CLIENTS \in Nat
  BY MultiProcAssumption, Zenon DEF Slots
<1>2. s \in [1..MAX_CLIENTS -> S]
  BY <1>1
<1>3. s \in UNION {[1..n -> S] : n \in Nat}
  <2>. HIDE DEF s, S
  <2>. QED  BY <1>1, <1>2
<1>4. s \in Seq(S)
  <2>. HIDE DEF s, S
  <2>. QED  BY <1>3, SeqDef
<1>5. \A k \in DOMAIN s : s[k].do = op
  BY DEF On
<1>. HIDE DEF s, S
<1>6. IsSeq(s)
  BY <1>4, SeqIs
<1>. QED  BY <1>5, <1>6 DEF Aside, Kinds, s

LEMMA AsidePeek == ASSUME NEW p PROVE Aside(p, Peek)
<1>1. Do("peek").do \notin Main(p)
  BY Sides DEF SideOps, Do
<1>. QED  BY <1>1, AsideSection DEF Peek

LEMMA AsideBroadcast == ASSUME NEW p PROVE Aside(p, broadcast)
<1>1. Do("bcast").do \notin Main(p) /\ "killif" \notin Main(p)
  BY Sides DEF SideOps, Do
<1>. QED  BY <1>1, AsideSection, AsideEach, AsideConcat DEF broadcast

LEMMA AsideHandler ==
    ASSUME NEW p \in Procs, NEW s \in Signals
    PROVE  Aside(p, Handler(p, s))
<1>. DEFINE h == CASE s = "usr1" -> Section(Do("pass_message"))
                   [] s = "usr2" -> <<Do("user_pipe_handler")>>
                   [] s = "alrm" -> Section(Do("user_exit_clear"))
                   [] s = "chld" -> IF p = Master THEN Section(Do("close_unused_fd")) ELSE <<>>
            r == [do |-> "return", sig |-> s]
<1>1. /\ Do("pass_message").do \notin Main(p) /\ Do("user_exit_clear").do \notin Main(p)
      /\ Do("close_unused_fd").do \notin Main(p) /\ Do("user_pipe_handler").do \notin Main(p)
      /\ r.do \notin Main(p)
  BY Sides DEF SideOps, Do
<1>2. /\ Aside(p, Section(Do("pass_message"))) /\ Aside(p, Section(Do("user_exit_clear")))
      /\ Aside(p, Section(Do("close_unused_fd"))) /\ Aside(p, <<Do("user_pipe_handler")>>)
      /\ Aside(p, <<r>>) /\ Aside(p, <<>>)
  BY <1>1, AsideSection, AsideOne, AsideEmpty
<1>3. Aside(p, h)
  <2>1. s = "usr1" \/ s = "usr2" \/ s = "alrm" \/ s = "chld"
    BY DEF Signals
  <2>. QED  BY <1>2, <2>1
<1>. HIDE DEF h
<1>4. Handler(p, s) = h \o <<r>>
  BY DEF Handler, h
<1>. QED  BY <1>2, <1>3, <1>4, AsideConcat

LEMMA AsideCommand ==
    ASSUME NEW p, p # Master, NEW c \in Commands
    PROVE  Aside(p, Command(c))
<1>1. c.cmd \in {"who", "tell", "yell", "name", "out", "in"} /\ (c.cmd = "in" => "in" \in Menu)
  BY Zenon DEF Commands
<1>2. CASE c.cmd = "who"
  BY <1>2, AsidePeek DEF Command
<1>3. CASE c.cmd = "tell"
  <2>1. On("tell", c.to).do \notin Main(p) /\ On("killif", c.to).do \notin Main(p)
    BY Sides DEF SideOps, On
  <2>2. Aside(p, Section(On("tell", c.to)) \o <<On("killif", c.to)>>)
    BY <2>1, AsideSection, AsideOne, AsideConcat
  <2>. QED  BY <1>3, <2>2 DEF Command
<1>4. CASE c.cmd = "yell"
  BY <1>4, AsidePeek, AsideBroadcast, AsideConcat DEF Command
<1>5. CASE c.cmd = "name"
  <2>. DEFINE x == [do |-> "name_exists", name |-> c.name]
  <2>1. x.do \notin Main(p)
    BY Sides DEF SideOps
  <2>. QED  BY <1>5, <2>1, AsideSection DEF Command
<1>6. CASE c.cmd = "out"
  <2>1. On("out_exists", c.to).do \notin Main(p)
    BY Sides DEF SideOps, On
  <2>. QED  BY <1>6, <2>1, AsideSection DEF Command
<1>7. CASE c.cmd = "in"
  <2>. DEFINE x == [do |-> "in_exists", to |-> c.to, bad |-> c.bad]
  <2>1. x.do \notin Main(p)
    BY <1>1, <1>7, Sides DEF InOps
  <2>. QED  BY <1>7, <2>1, AsideSection DEF Command
<1>. QED  BY <1>1, <1>2, <1>3, <1>4, <1>5, <1>6, <1>7

LEMMA TidyOne ==
    ASSUME NEW x, x.do \in Lasts
    PROVE  IsSeq(<<x>>) /\ Tidy(<<x>>) /\ Kinds(<<x>>) = {x.do} /\ Registered(<<x>>) = {}
<1>. DEFINE s == <<x>>
<1>1. IsSeq(s) /\ DOMAIN s = {1} /\ s[1] = x /\ Len(s) = 1
  BY Singleton
<1>. HIDE DEF s
<1>2. Kinds(s) = {x.do} /\ Registered(s) = {}
  BY <1>1 DEF Kinds, Registered, Lasts
<1>3. x.do \notin Onces /\ x.do \notin {"register", "close_other", "clear_slot", "close"}
  BY DEF Onces, Lasts
<1>. QED  BY <1>1, <1>2, <1>3 DEF Tidy, s

(* A section that counts, before code that does not have another. *)
LEMMA TidySection ==
    ASSUME NEW y, y.do \in Onces, NEW r, IsSeq(r), Tidy(r), Kinds(r) \cap Onces = {},
           y.do = "close_other" => "prompt" \in Kinds(r),
           y.do = "clear_slot" => "exit" \in Kinds(r)
    PROVE  /\ IsSeq(Section(y) \o r) /\ Tidy(Section(y) \o r)
           /\ Kinds(Section(y) \o r) = {"wait", y.do} \cup Kinds(r)
           /\ Registered(Section(y) \o r) = Registered(r)
<1>. DEFINE x == Do("wait")
            s == <<x, y>>
<1>1. x.do = "wait"
  BY DEF Do
<1>2. "wait" \notin Lasts \cup Onces \cup {"register", "close_other", "clear_slot", "close"}
  BY DEF Lasts, Onces
<1>3. y.do \notin Lasts /\ y.do \notin {"register", "close"}
  BY DEF Lasts, Onces
<1>4. Section(y) = s
  BY DEF Section
<1>. HIDE DEF x
<1>5. IsSeq(s) /\ DOMAIN s = {1, 2} /\ s[1] = x /\ s[2] = y /\ Kinds(s) = {x.do, y.do}
  BY Pair
<1>. HIDE DEF s
<1>6. \A k \in DOMAIN s : s[k].do # "register" /\ (s[k].do \in Onces => k = 2)
  BY <1>1, <1>2, <1>3, <1>5
<1>7. Registered(s) = {}
  BY <1>6 DEF Registered
<1>8. IsSeq(s \o r) /\ Kinds(s \o r) = Kinds(s) \cup Kinds(r) /\ Registered(s \o r) = Registered(r)
  <2>1. IsSeq(s \o r)
    BY <1>5, Concat
  <2>2. Kinds(s \o r) = Kinds(s) \cup Kinds(r)
    BY <1>5, KindsConcat
  <2>3. Registered(s \o r) = Registered(s) \cup Registered(r)
    BY <1>5, RegisteredConcat
  <2>. QED  BY <1>7, <2>1, <2>2, <2>3
<1>9. Kinds(s) \cap Lasts = {} /\ "close" \notin Kinds(s)
      /\ ("close_other" \in Kinds(s) => "prompt" \in Kinds(r))
      /\ ("clear_slot" \in Kinds(s) => "exit" \in Kinds(r))
  BY <1>1, <1>2, <1>3, <1>5
<1>10. Tidy(s \o r)
  BY <1>5, <1>6, <1>9, TidyConcat
<1>. QED  BY <1>1, <1>4, <1>5, <1>8, <1>10

Associates(s, t, u) == (s \o t) \o u = s \o (t \o u)

LEMMA Assoc ==
    ASSUME NEW s, NEW t, NEW u, IsSeq(s), IsSeq(t), IsSeq(u)
    PROVE  Associates(s, t, u)
<1>. DEFINE S == {s[k] : k \in DOMAIN s} \cup {t[k] : k \in DOMAIN t} \cup {u[k] : k \in DOMAIN u}
<1>1. s \in Seq(S) /\ t \in Seq(S) /\ u \in Seq(S)
  BY DEF IsSeq
<1>. HIDE DEF S
<1>. QED  BY <1>1, ConcatAssociative DEF Associates

LEMMA TidyChild ==
    ASSUME NEW p
    PROVE  Tidy(Child) /\ Kinds(Child) \cap Main(p) = {"close_other", "prompt"}
<1>. DEFINE a == Section(Do("close_other"))
            b == Section(Do("set_pid"))
            d == <<Do("prompt")>>
            y == Do("close_other")
<1>1. IsSeq(d) /\ Tidy(d) /\ Kinds(d) = {"prompt"}
  <2>1. Do("prompt").do = "prompt" /\ "prompt" \in Lasts
    BY DEF Do, Lasts
  <2>. QED  BY <2>1, TidyOne
<1>2. Aside(p, b) /\ Aside(p, broadcast)
  <2>1. Do("set_pid").do \notin Main(p)
    BY Sides DEF SideOps, Do
  <2>. QED  BY <2>1, AsideSection, AsideBroadcast
<1>3. IsSeq(a) /\ y.do = "close_other"
  <2>1. IsSeq(<<Do("wait"), Do("close_other")>>)
    BY Pair
  <2>. QED  BY <2>1 DEF Section, Do
<1>4. Child = ((a \o b) \o broadcast) \o d
  BY DEF Child
<1>. HIDE DEF d, b
<1>5. Aside(p, b \o broadcast)
  BY <1>2, AsideConcat
<1>. DEFINE r == (b \o broadcast) \o d
<1>6. IsSeq(r) /\ Tidy(r) /\ Kinds(r) \cap Main(p) = {"prompt"}
  <2>1. Tidy(r) /\ SameMain(p, r, d)
    BY <1>1, <1>5, AsideBefore
  <2>2. IsSeq(r)
    BY <1>1, <1>5, Concat DEF Aside
  <2>. QED  BY <1>1, <2>1, <2>2, MainOps DEF SameMain
<1>. HIDE DEF r
<1>7. Kinds(r) \cap Onces = {} /\ "prompt" \in Kinds(r)
  BY <1>6, MainOps DEF Onces
<1>8. Tidy(Section(y) \o r) /\ Kinds(Section(y) \o r) = {"wait", y.do} \cup Kinds(r)
  <2>1. y.do \in Onces /\ y.do # "clear_slot"
    BY <1>3 DEF Onces
  <2>. HIDE DEF y
  <2>. QED  BY <1>6, <1>7, <2>1, TidySection
<1>. HIDE DEF a
<1>9. Child = a \o r
  <2>1. IsSeq(a) /\ IsSeq(b) /\ IsSeq(broadcast) /\ IsSeq(d)
    BY <1>1, <1>2, <1>3 DEF Aside
  <2>2. IsSeq(b \o broadcast)
    BY <1>5 DEF Aside
  <2>3. Associates(a, b, broadcast)
    BY <2>1, Assoc
  <2>4. Associates(a, b \o broadcast, d)
    BY <2>1, <2>2, Assoc
  <2>. QED  BY <1>4, <2>3, <2>4 DEF Associates, r
<1>10. "wait" \notin Main(p)
  BY Sides DEF SideOps
<1>11. Kinds(a \o r) = {"wait", "close_other"} \cup Kinds(r) /\ Tidy(a \o r)
  BY <1>3, <1>8 DEF a
<1>. QED  BY <1>6, <1>9, <1>10, <1>11, MainOps

LEMMA TidyLogout ==
    ASSUME NEW p
    PROVE  Tidy(client_logout) /\ Kinds(client_logout) \cap Main(p) = {"clear_slot", "close", "exit"}
<1>. DEFINE a == (Peek \o broadcast) \o [i \in Slots |-> On("user_pipe_clear", i)]
            y == Do("clear_slot")
            v == Do("close")
            w == Do("exit")
            d == <<v, w>>
            r == Section(y) \o d
<1>1. v.do = "close" /\ w.do = "exit" /\ y.do = "clear_slot"
  BY DEF Do
<1>2. client_logout = (a \o Section(y)) \o d
  BY DEF client_logout
<1>3. Aside(p, a)
  <2>1. "user_pipe_clear" \notin Main(p)
    BY Sides DEF SideOps
  <2>. QED  BY <2>1, AsidePeek, AsideBroadcast, AsideEach, AsideConcat
<1>4. IsSeq(Section(y))
  BY Pair DEF Section
<1>. HIDE DEF a, y, v, w
<1>5. IsSeq(d) /\ Len(d) = 2 /\ DOMAIN d = {1, 2} /\ d[1] = v /\ d[2] = w /\ Kinds(d) = {v.do, w.do}
  BY Pair
<1>. HIDE DEF d
<1>6. Tidy(d) /\ Kinds(d) \cap Onces = {} /\ "exit" \in Kinds(d)
  <2>1. "close" \notin Lasts \cup Onces /\ "exit" \notin Onces
    BY DEF Lasts, Onces
  <2>2. \A k \in DOMAIN d : /\ d[k].do \in Lasts => k = Len(d)
                            /\ d[k].do \notin Onces /\ d[k].do # "register"
    BY <1>1, <1>5, <2>1
  <2>. QED  BY <1>1, <1>5, <2>1, <2>2 DEF Tidy
<1>7. IsSeq(r) /\ Tidy(r) /\ Kinds(r) = {"wait", "clear_slot", "close", "exit"}
  <2>1. y.do \in Onces /\ y.do # "close_other"
    BY <1>1 DEF Onces
  <2>2. IsSeq(r) /\ Tidy(r) /\ Kinds(r) = {"wait", y.do} \cup Kinds(d)
    BY <1>5, <1>6, <2>1, TidySection
  <2>. QED  BY <1>1, <1>5, <2>2
<1>8. client_logout = a \o r
  <2>1. IsSeq(a) /\ IsSeq(Section(y)) /\ IsSeq(d)
    BY <1>3, <1>4, <1>5 DEF Aside
  <2>2. Associates(a, Section(y), d)
    BY <2>1, Assoc
  <2>. QED  BY <1>2, <2>2 DEF Associates
<1>. HIDE DEF r
<1>9. Tidy(a \o r) /\ SameMain(p, a \o r, r)
  BY <1>3, <1>7, AsideBefore
<1>10. "wait" \notin Main(p)
  BY Sides DEF SideOps
<1>. QED  BY <1>7, <1>8, <1>9, <1>10, MainOps DEF SameMain

(***************************************************************************)
(* The invariant on slots.  Roles: the master accepts, opens accounts and  *)
(* forks, a server logs in, serves its prompt and logs out, each once and  *)
(* in this order.  Accounts: a slot is taken while it holds a socket, each *)
(* socket is in one slot.  Opening: what the master is about to do with    *)
(* the connection it has accepted last.  Sockets: the master holds every   *)
(* socket of the table and looks for each of them in the right slot; so    *)
(* does a new server, unless the master has accepted another meanwhile.    *)
(* Users: a server that has not logged out owns its slot; one that has     *)
(* neither a slot to give back nor a prompt has left none, or else was     *)
(* overtaken.  Marked: socket, message and pid in a slot are those of a    *)
(* process that has, or had, this slot.                                    *)
(***************************************************************************)
Roles ==
    /\ \A p \in Procs : Tidy(code[p])
    /\ Kinds(code[Master]) \cap (ServerOps \cup InOps) = {}
    /\ \A c \in Conns : Kinds(code[c]) \cap MasterOps = {}
    /\ "in" \notin Menu => \A p \in Procs : Kinds(code[p]) \cap InOps = {}

Fields == {"uid", "pid", "fd", "message"}

Accounts ==
    /\ DOMAIN all_clients = Slots /\ DOMAIN me = Procs
    /\ DOMAIN fds = Procs /\ DOMAIN used_fd = Slots
    /\ \A i \in Slots :
          /\ Fields \subseteq DOMAIN all_clients[i]
          /\ all_clients[i].uid => all_clients[i].fd \in 1..sock[Master]
          /\ ~all_clients[i].uid => all_clients[i].fd = -1
          /\ all_clients[i].message \in {0} \cup Conns
          /\ used_fd[i] \in -1..sock[Master]
    /\ \A i, j \in Slots : all_clients[i].uid /\ all_clients[i].fd = all_clients[j].fd => i = j

Opening ==
    /\ "client_init" \in Kinds(code[Master]) =>
          /\ \E i \in Slots : ~all_clients[i].uid
          /\ \A i \in Slots : all_clients[i].fd # sock[Master] /\ used_fd[i] # sock[Master]
          /\ sock[Master] \in fds[Master]
    /\ \A i \in Registered(code[Master]) : i \in Slots /\ all_clients[i].fd = sock[Master]
    /\ "fork" \in Kinds(code[Master]) /\ Registered(code[Master]) = {} =>
          me[Master] \in Slots /\ all_clients[me[Master]].fd = sock[Master]
    /\ {"client_init", "fork"} \cap Kinds(code[Master]) # {} => me[sock[Master]] = -1
    /\ \A c \in Conns : c > sock[Master] => me[c] = -1

Sockets ==
    /\ \A i \in Slots : all_clients[i].uid => all_clients[i].fd \in fds[Master]
    /\ \A i, j \in Slots : used_fd[i] > 0 /\ all_clients[j].fd = used_fd[i] => i = j
    /\ "close_other" \in Kinds(code[sock[Master]]) =>
          \A i \in Slots : all_clients[i].uid => all_clients[i].fd \in fds[sock[Master]]

Users ==
    /\ \A c \in Conns : Kinds(code[c]) \cap Owners # {} =>
          me[c] \in Slots /\ all_clients[me[c]].fd = c
    /\ "in" \notin Menu =>
          \A c \in Conns : Kinds(code[c]) \cap Owners = {} /\ me[c] # -1 =>
              sock[Master] > c \/ \A i \in Slots : all_clients[i].fd # c

Marked ==
    \A i \in Slots, c \in Conns :
        /\ all_clients[i].fd = c => me[c] \in {i, -1}
        /\ all_clients[i].message = c => me[c] = i \/ (me[c] = -1 /\ all_clients[i].fd = c)
        /\ all_clients[i].pid = c => me[c] = i

SlotInv == Roles /\ Accounts /\ Opening /\ Sockets /\ Users /\ Marked

(* A step that is nobody's login or logout. *)
SlotsKept ==
    /\ DOMAIN all_clients' = Slots
    /\ \A i \in Slots :
          /\ Fields \subseteq DOMAIN all_clients'[i]
          /\ all_clients'[i].uid = all_clients[i].uid /\ all_clients'[i].fd = all_clients[i].fd
          /\ \/ all_clients'[i].message \in {all_clients[i].message, 0}
             \/ all_clients[i].uid /\ all_clients'[i].message = all_clients[i].fd
          /\ \/ all_clients'[i].pid = all_clients[i].pid
             \/ i = me[all_clients'[i].pid]

(* Sockets closed by the master were nobody's. *)
FilesKept ==
    /\ DOMAIN fds' = Procs /\ DOMAIN used_fd' = Slots
    /\ \A i \in Slots : used_fd'[i] \in {used_fd[i], -1}
    /\ \A c \in Conns : fds'[c] = fds[c]
    /\ \A x \in fds[Master] \ fds'[Master] :
          /\ \A i \in Slots : all_clients[i].fd # x
          /\ "client_init" \in Kinds(code[Master]) => x # sock[Master]

CodeKept == \A p \in Procs : Tidy(code'[p]) /\ SameMain(p, code'[p], code[p])

LEMMA SlotIs == \A i \in Slots : i \in Nat \ {0} /\ i # -1
<1>1. MAX_CLIENTS \in Nat
  BY MultiProcAssumption, Zenon
<1>. QED  BY <1>1 DEF Slots

LEMMA KeptInv ==
    ASSUME MpInv, MpInv', SlotInv, SlotsKept, FilesKept, CodeKept, UNCHANGED <<me, sock>>
    PROVE  SlotInv'
<1>1. \A p \in Procs : /\ Kinds(code'[p]) \cap Main(p) = Kinds(code[p]) \cap Main(p)
                       /\ Registered(code'[p]) = Registered(code[p])
  BY DEF CodeKept, SameMain
<1>2. \A p \in Procs : \A op \in Main(p) : op \in Kinds(code'[p]) <=> op \in Kinds(code[p])
  BY <1>1
<1>3. Master \in Procs /\ Conns \subseteq Procs /\ sock[Master] \in Procs
  BY ProcsAre, Bounds DEF MpInv, StructInv
<1>4. Roles'
  <2>1. \A p \in Procs : "in" \notin Menu \/ p = Master => InOps \subseteq Main(p)
    BY DEF Main
  <2>2. \A p \in Procs : ServerOps \subseteq Main(p) /\ MasterOps \subseteq Main(p)
    BY MainOps
  <2>3. Kinds(code'[Master]) \cap (ServerOps \cup InOps) = {}
    BY <1>2, <1>3, <2>1, <2>2 DEF SlotInv, Roles
  <2>4. \A c \in Conns : Kinds(code'[c]) \cap MasterOps = {}
    BY <1>2, <1>3, <2>2 DEF SlotInv, Roles
  <2>5. "in" \notin Menu => \A p \in Procs : Kinds(code'[p]) \cap InOps = {}
    BY <1>2, <2>1 DEF SlotInv, Roles
  <2>. QED  BY <2>3, <2>4, <2>5 DEF Roles, CodeKept
<1>5. /\ sock' = sock /\ me' = me
      /\ \A i \in Slots : all_clients'[i].uid = all_clients[i].uid /\ all_clients'[i].fd = all_clients[i].fd
  BY DEF SlotsKept
<1>5a. /\ \A i \in Slots : used_fd'[i] = used_fd[i] \/ used_fd'[i] = -1
       /\ \A i \in Slots : all_clients[i].uid => all_clients[i].fd \in fds'[Master]
       /\ \A c \in Conns : fds'[c] = fds[c]
       /\ sock[Master] # -1
  BY <1>3, Bounds DEF FilesKept, SlotInv, Sockets
<1>6. \A i \in Slots : all_clients[i].uid => all_clients[i].fd \in Conns
  <2>1. sock[Master] \in 0..MaxConn
    BY DEF MpInv, StructInv
  <2>2. 1..sock[Master] \subseteq Conns
    BY <2>1, Bounds
  <2>. QED  BY <2>2 DEF SlotInv, Accounts
<1>7. Accounts'
  <2>1. \A i \in Slots : all_clients'[i].message \in {0} \cup Conns
    BY <1>6 DEF SlotsKept, SlotInv, Accounts
  <2>2. \A i \in Slots : used_fd'[i] \in -1..sock[Master]
    <3>1. -1 \in -1..sock[Master]
      BY <1>3, Bounds
    <3>. QED  BY <1>5a, <3>1 DEF SlotInv, Accounts
  <2>. QED  BY <1>5, <2>1, <2>2 DEF SlotInv, Accounts, SlotsKept, FilesKept
<1>8. Opening'
  <2>1. {"client_init", "fork"} \subseteq Main(Master)
    BY MainOps
  <2>2. /\ "client_init" \in Kinds(code'[Master]) <=> "client_init" \in Kinds(code[Master])
        /\ "fork" \in Kinds(code'[Master]) <=> "fork" \in Kinds(code[Master])
        /\ Registered(code'[Master]) = Registered(code[Master])
    BY <1>1, <1>2, <1>3, <2>1
  <2>3. "fork" \in Kinds(code[Master]) /\ Registered(code[Master]) = {} =>
          me[Master] \in Slots /\ all_clients'[me[Master]].fd = sock[Master]
    BY <1>5 DEF SlotInv, Opening
  <2>4. "client_init" \in Kinds(code[Master]) =>
          /\ \E i \in Slots : ~all_clients[i].uid
          /\ \A i \in Slots : all_clients[i].fd # sock[Master] /\ used_fd'[i] # sock[Master]
          /\ sock[Master] \in fds'[Master]
    BY <1>5a DEF SlotInv, Opening, FilesKept
  <2>. QED  BY <1>5, <2>2, <2>3, <2>4 DEF SlotInv, Opening
<1>9. Sockets'
  <2>1. "close_other" \in Kinds(code'[sock[Master]]) <=> "close_other" \in Kinds(code[sock[Master]])
    BY <1>2, <1>3, MainOps
  <2>2. "close_other" \in Kinds(code[sock[Master]]) => fds'[sock[Master]] = fds[sock[Master]]
    <3>1. "close_other" \notin Kinds(code[Master])
      BY DEF SlotInv, Roles, ServerOps, Owners
    <3>. QED  BY <1>3, <1>5a, <3>1 DEF Procs
  <2>3. \A i, j \in Slots : used_fd'[i] > 0 /\ all_clients[j].fd = used_fd'[i] => i = j
    <3>1. \A i \in Slots : used_fd'[i] > 0 => used_fd'[i] = used_fd[i]
      BY <1>5a
    <3>. QED  BY <3>1 DEF SlotInv, Sockets
  <2>. QED  BY <1>5, <1>5a, <2>1, <2>2, <2>3 DEF SlotInv, Sockets
<1>10. Users'
  <2>1. \A c \in Conns : Kinds(code'[c]) \cap Owners = Kinds(code[c]) \cap Owners
    BY <1>2, <1>3, MainOps
  <2>. QED  BY <1>5, <2>1 DEF SlotInv, Users
<1>11. Marked'
  <2>. SUFFICES ASSUME NEW i \in Slots, NEW c \in Conns
                PROVE  /\ all_clients'[i].fd = c => me[c] \in {i, -1}
                       /\ all_clients'[i].message = c => me[c] = i \/ (me[c] = -1 /\ all_clients'[i].fd = c)
                       /\ all_clients'[i].pid = c => me[c] = i
    BY <1>5 DEF Marked
  <2>1. c # 0
    BY Bounds
  <2>. QED  BY <1>5, <2>1 DEF SlotsKept, SlotInv, Marked
<1>. QED  BY <1>4, <1>7, <1>8, <1>9, <1>10, <1>11 DEF SlotInv

LEMMA SlotsKeptInv ==
    ASSUME MpInv, MpInv', SlotInv, SlotsKept, CodeKept, UNCHANGED <<me, sock, used_fd, fds>>
    PROVE  SlotInv'
<1>1. FilesKept
  BY DEF FilesKept, SlotInv, Accounts
<1>. QED  BY <1>1, KeptInv

(* What a step of p that is not of Main does to everybody's code. *)
LEMMA CodeMoves ==
    ASSUME MpInv, SlotInv, NEW p \in Procs, Alive(p), NEW s, Aside(p, s),
           \/ Now(p).do \notin Main(p) /\ code' = [code EXCEPT ![p] = s \o Tail(code[p])]
           \/ code' = [code EXCEPT ![p] = s \o code[p]]
    PROVE  CodeKept
<1>1. DOMAIN code = Procs /\ IsSeq(code[p]) /\ code[p] # <<>> /\ Now(p) = code[p][1] /\ Tidy(code[p])
  BY HeadIs DEF MpInv, StructInv, Form, SlotInv, Roles
<1>2. Tidy(Tail(code[p])) /\ IsSeq(Tail(code[p]))
      /\ (code[p][1].do \notin Main(p) => SameMain(p, Tail(code[p]), code[p]))
  BY <1>1, TidyTail, HeadTail, Zenon
<1>3. /\ Tidy(s \o Tail(code[p])) /\ SameMain(p, s \o Tail(code[p]), Tail(code[p]))
      /\ Tidy(s \o code[p]) /\ SameMain(p, s \o code[p], code[p])
  BY <1>1, <1>2, AsideBefore
<1>4. Tidy(code'[p]) /\ SameMain(p, code'[p], code[p])
  BY <1>1, <1>2, <1>3, Zenon DEF SameMain
<1>5. \A q \in Procs : q # p => code'[q] = code[q]
  BY <1>1
<1>6. \A q \in Procs : q # p => Tidy(code'[q]) /\ SameMain(q, code'[q], code[q])
  BY <1>5 DEF SameMain, SlotInv, Roles
<1>. QED  BY <1>4, <1>6 DEF CodeKept

LEMMA SlotsSame ==
    ASSUME SlotInv, UNCHANGED all_clients
    PROVE  SlotsKept
BY DEF SlotInv, Accounts, SlotsKept

(* The step of p that is not of Main and leaves slots alone, or keeps them *)
(* in the sense above. *)
LEMMA AsideStep ==
    ASSUME MpInv, MpInv', SlotInv, SlotsKept, NEW p \in Procs, Alive(p), Now(p).do \notin Main(p),
           NEW s, Aside(p, s), Continue(p, s), UNCHANGED <<me, sock, used_fd, fds>>
    PROVE  SlotInv'
<1>1. code' = [code EXCEPT ![p] = s \o Tail(code[p])]
  BY DEF Continue
<1>. QED  BY <1>1, CodeMoves, SlotsKeptInv, Zenon

(* Steps that write one field of one slot, or the messages. *)
LEMMA SlotFacts ==
    ASSUME SlotInv
    PROVE  /\ DOMAIN all_clients = Slots
           /\ \A i \in Slots : {"uid", "pid", "fd", "message"} \subseteq DOMAIN all_clients[i]
BY DEF SlotInv, Accounts, Fields

LEMMA WritesKeep ==
    ASSUME SlotInv, NEW p \in Procs,
           \/ client_login(p) \/ Bcast(p) \/ Tell(p) \/ pass_message(p) \/ Rename(p)
           \/ SetSender(p) \/ user_pipe_handler(p) \/ SetSentFd(p) \/ TakeFd(p)
           \/ MarkClear(p) \/ ResetSent(p) \/ user_exit_clear(p)
    PROVE  SlotsKept
<1>1. CASE client_login(p)
  <2>1. all_clients' = [all_clients EXCEPT ![me[p]].pid = p]
    BY <1>1 DEF client_login, Clients
  <2>. QED  BY <2>1, SlotFacts DEF SlotsKept, Fields
<1>2. CASE Bcast(p)
  <2>1. all_clients' = [i \in Slots |->
            IF all_clients[i].uid
            THEN [all_clients[i] EXCEPT !.message = all_clients[i].fd]
            ELSE all_clients[i]]
    BY <1>2 DEF Bcast, Clients
  <2>. QED  BY <2>1, SlotFacts DEF SlotsKept, Fields
<1>3. CASE Tell(p)
  <2>. DEFINE i == Now(p).to
  <2>1. \/ all_clients' = all_clients
        \/ all_clients[i].uid /\ all_clients' = [all_clients EXCEPT ![i].message = all_clients[i].fd]
    BY <1>3 DEF Tell, Clients
  <2>. HIDE DEF i
  <2>. QED  BY <2>1, SlotFacts DEF SlotsKept, Fields
<1>4. CASE pass_message(p)
  <2>1. all_clients' = [all_clients EXCEPT ![me[p]].message = 0]
    BY <1>4 DEF pass_message, Clients
  <2>. QED  BY <2>1, SlotFacts DEF SlotsKept, Fields
<1>5. CASE Rename(p)
  <2>1. all_clients' = [all_clients EXCEPT ![me[p]].nickname = Now(p).name]
    BY <1>5 DEF Rename, Clients
  <2>. QED  BY <2>1, SlotFacts DEF SlotsKept, Fields
<1>6. CASE SetSender(p)
  <2>. DEFINE i == Now(p).to
  <2>1. all_clients' = [all_clients EXCEPT ![i].sender_id = me[p]]
    BY <1>6 DEF SetSender, Clients
  <2>. HIDE DEF i
  <2>. QED  BY <2>1, SlotFacts DEF SlotsKept, Fields
<1>7. CASE user_pipe_handler(p)
  <2>1. all_clients' = [all_clients EXCEPT ![me[p]].sender_id = -1]
    BY <1>7 DEF user_pipe_handler, Clients
  <2>. QED  BY <2>1, SlotFacts DEF SlotsKept, Fields
<1>8. CASE SetSentFd(p)
  <2>1. all_clients' = [all_clients EXCEPT ![me[p]].sent_fd[Now(p).from] = Now(p).fd]
    BY <1>8 DEF SetSentFd, Clients
  <2>. QED  BY <2>1, SlotFacts DEF SlotsKept, Fields
<1>9. CASE TakeFd(p)
  <2>1. all_clients' = [all_clients EXCEPT ![me[p]].sent_fd[Now(p).to] = -1]
    BY <1>9 DEF TakeFd, Clients
  <2>. QED  BY <2>1, SlotFacts DEF SlotsKept, Fields
<1>10. CASE MarkClear(p)
  <2>. DEFINE i == Now(p).to
  <2>1. all_clients' = [all_clients EXCEPT ![i].clear_id = me[p]]
    BY <1>10 DEF MarkClear, Clients
  <2>. HIDE DEF i
  <2>. QED  BY <2>1, SlotFacts DEF SlotsKept, Fields
<1>11. CASE ResetSent(p)
  <2>. DEFINE i == Now(p).to
  <2>1. all_clients' = [all_clients EXCEPT ![i].sent_fd[me[p]] = -1]
    BY <1>11 DEF ResetSent, Clients
  <2>. HIDE DEF i
  <2>. QED  BY <2>1, SlotFacts DEF SlotsKept, Fields
<1>12. CASE user_exit_clear(p)
  <2>1. all_clients' = [all_clients EXCEPT ![me[p]].clear_id = -1]
    BY <1>12 DEF user_exit_clear, Clients
  <2>. QED  BY <2>1, SlotFacts DEF SlotsKept, Fields
<1>. QED  BY <1>1, <1>2, <1>3, <1>4, <1>5, <1>6, <1>7, <1>8, <1>9, <1>10, <1>11, <1>12

(* A step of p that neither logs it in nor out and does not end it. *)
Goes(p, s) ==
    /\ Aside(p, s) /\ Continue(p, s) /\ Alive(p) /\ Now(p).do \notin Main(p)
    /\ UNCHANGED <<me, sock, used_fd, fds>>

LEMMA KillGoes ==
    ASSUME NEW p \in Procs, Alive(p), Now(p).do \notin Main(p),
           NEW pid, NEW s \in Signals, NEW g, Aside(p, g), Kill(p, pid, s, g)
    PROVE  (\E t : Goes(p, t)) /\ UNCHANGED all_clients
<1>. DEFINE targets == IF pid = -1 THEN {q \in Procs \ {p} : Alive(q)}
                       ELSE {q \in {pid} : Alive(q)}
            h == IF p \in targets /\ s \notin mask[p] THEN Handler(p, s) ELSE <<>>
<1>1. Continue(p, h \o g) /\ UNCHANGED <<all_clients, me, sock, used_fd, fds>>
  BY DEF Kill, local
<1>2. Aside(p, h)
  BY AsideHandler, AsideEmpty
<1>. HIDE DEF h
<1>3. Aside(p, h \o g)
  BY <1>2, AsideConcat
<1>. QED  BY <1>1, <1>3 DEF Goes

(* The steps that take no instruction more than their own. *)
LEMMA ShortGoes ==
    ASSUME NEW p \in Procs,
           \/ Wait(p) \/ Flip(p) \/ Return(p) \/ client_login(p) \/ Bcast(p) \/ Tell(p)
           \/ pass_message(p) \/ PeekBody(p) \/ MkFifo(p) \/ SemSignal(p) \/ StartJob(p)
           \/ OpenReadFails(p) \/ SetSentFd(p) \/ UnlinkFifo(p) \/ ResetSent(p) \/ user_exit_clear(p)
    PROVE  \E s : Goes(p, s)
<1>1. UNCHANGED <<me, sock, used_fd, fds>>
  BY DEF Wait, Flip, Return, client_login, Bcast, Tell, pass_message, PeekBody, MkFifo, SemSignal,
         StartJob, OpenReadFails, SetSentFd, UnlinkFifo, ResetSent, user_exit_clear, shared, local
<1>2. Continue(p, <<>>)
  BY DEF Wait, Flip, Return, client_login, Bcast, Tell, pass_message, PeekBody, MkFifo, SemSignal,
         StartJob, OpenReadFails, SetSentFd, UnlinkFifo, ResetSent, user_exit_clear, Leave, Plain
<1>3. Alive(p) /\ Now(p).do \in SideOps
  BY Zenon DEF Wait, Flip, Return, client_login, Bcast, Tell, pass_message, PeekBody, MkFifo,
               SemSignal,
         StartJob, OpenReadFails, SetSentFd, UnlinkFifo, ResetSent, user_exit_clear, At, Now, SideOps
<1>. QED  BY <1>1, <1>2, <1>3, AsideEmpty, Sides DEF Goes

(* Those of "<n". *)
LEMMA InputGoes ==
    ASSUME MpInv, SlotInv, NEW p \in Procs,
           in_exists(p) \/ InFifo(p) \/ TakeFd(p)
    PROVE  \E s : Goes(p, s)
<1>1. Alive(p) /\ Now(p).do \in InOps
  BY DEF in_exists, InFifo, TakeFd, At, Now, InOps
<1>2. Now(p) = code[p][1] /\ 1 \in DOMAIN code[p]
  BY <1>1, HeadIs, HeadTail DEF MpInv, Form
<1>3. "in" \in Menu /\ p # Master
  BY <1>1, <1>2 DEF SlotInv, Roles, Kinds
<1>4. \A op \in InOps : op \notin Main(p)
  BY <1>3, Sides
<1>5. Aside(p, Peek \o Peek \o broadcast)
  BY AsidePeek, AsideBroadcast, AsideConcat
<1>6. CASE in_exists(p)
  <2>. DEFINE x == [do |-> "in_fifo", to |-> Now(p).to, bad |-> Now(p).bad]
              s == IF all_clients[Now(p).to].uid THEN <<x>> ELSE <<>>
  <2>1. x.do \in InOps
    BY DEF InOps
  <2>2. Continue(p, s) /\ UNCHANGED <<me, sock, used_fd, fds>>
    BY <1>6 DEF in_exists, Leave, shared
  <2>. HIDE DEF x
  <2>3. Aside(p, s)
    BY <1>4, <2>1, AsideOne, AsideEmpty
  <2>. QED  BY <1>1, <1>4, <2>2, <2>3 DEF Goes
<1>7. CASE InFifo(p)
  <2>. DEFINE x == [do |-> "take_fd", to |-> Now(p).to, bad |-> Now(p).bad]
              s == IF fifo[<<Now(p).to, me[p]>>] = 0 THEN <<>> ELSE Section(x)
  <2>1. x.do \in InOps
    BY DEF InOps
  <2>2. Continue(p, s) /\ UNCHANGED <<me, sock, used_fd, fds>>
    BY <1>7 DEF InFifo, Plain, shared
  <2>. HIDE DEF x
  <2>3. Aside(p, s)
    BY <1>4, <2>1, AsideSection, AsideEmpty
  <2>. QED  BY <1>1, <1>4, <2>2, <2>3 DEF Goes
<1>8. CASE TakeFd(p)
  <2>. DEFINE x == [do |-> "close_in", from |-> Now(p).to,
                    fd |-> all_clients[me[p]].sent_fd[Now(p).to]]
              t == IF Now(p).bad THEN <<>> ELSE <<x>>
              s == Peek \o Peek \o broadcast \o t
  <2>1. x.do \in InOps
    BY DEF InOps
  <2>2. Continue(p, s) /\ UNCHANGED <<me, sock, used_fd, fds>>
    BY <1>8 DEF TakeFd, Leave, local
  <2>. HIDE DEF x
  <2>3. Aside(p, t)
    BY <1>4, <2>1, AsideOne, AsideEmpty
  <2>. HIDE DEF t
  <2>4. Aside(p, s)
    BY <1>5, <2>3, AsideConcat
  <2>. QED  BY <1>1, <1>4, <2>2, <2>4 DEF Goes
<1>. QED  BY <1>6, <1>7, <1>8

(* Those that send messages, set up a pipe to a user or clear one. *)
LEMMA LongGoes ==
    ASSUME NEW p \in Procs,
           \/ KillIf(p) \/ KillSlot(p) \/ name_exists(p) \/ Rename(p) \/ out_exists(p)
           \/ OutFifo(p) \/ SetSender(p) \/ KillUsr2(p) \/ KillAlrm(p) \/ user_pipe_handler(p)
           \/ user_pipe_clear(p) \/ ReadFds(p) \/ MarkClear(p)
    PROVE  \E s : Goes(p, s)
<1>1. Alive(p) /\ Now(p).do \notin Main(p)
  <2>1. Alive(p) /\ Now(p).do \in SideOps
    BY Zenon DEF KillIf, KillSlot, name_exists, Rename, out_exists, OutFifo, SetSender, KillUsr2,
                 KillAlrm,
           user_pipe_handler, user_pipe_clear, ReadFds, MarkClear, At, Now, SideOps
  <2>. QED  BY <2>1, Sides
<1>. DEFINE i == Now(p).to
<1>2. CASE KillIf(p)
  <2>. DEFINE s == IF all_clients[i].uid THEN <<On("killslot", i)>> ELSE <<>>
  <2>1. Continue(p, s) /\ UNCHANGED <<me, sock, used_fd, fds>>
    BY <1>2 DEF KillIf, Plain, shared
  <2>2. On("killslot", i).do \notin Main(p)
    BY Sides DEF SideOps, On
  <2>3. Aside(p, s)
    BY <2>2, AsideOne, AsideEmpty
  <2>. QED  BY <1>1, <2>1, <2>3 DEF Goes
<1>3. CASE KillSlot(p)
  <2>1. Kill(p, all_clients[i].pid, "usr1", <<>>) /\ "usr1" \in Signals
    BY <1>3 DEF KillSlot, Signals
  <2>. QED  BY <1>1, <2>1, AsideEmpty, KillGoes
<1>4. CASE name_exists(p)
  <2>. DEFINE x == [do |-> "set_name", name |-> Now(p).name,
                    checked |-> [j \in Slots |-> all_clients[j].nickname]]
              s == IF \E j \in Slots : all_clients[j].nickname = Now(p).name THEN <<>> ELSE Section(x)
  <2>1. Continue(p, s) /\ UNCHANGED <<me, sock, used_fd, fds>>
    BY <1>4 DEF name_exists, Leave, shared
  <2>2. x.do \notin Main(p)
    BY Sides DEF SideOps
  <2>. HIDE DEF x
  <2>3. Aside(p, s)
    BY <2>2, AsideSection, AsideEmpty
  <2>. QED  BY <1>1, <2>1, <2>3 DEF Goes
<1>5. CASE Rename(p)
  <2>1. Continue(p, Peek \o Peek \o broadcast) /\ UNCHANGED <<me, sock, used_fd, fds>>
    BY <1>5 DEF Rename, Leave, local
  <2>2. Aside(p, Peek \o Peek \o broadcast)
    BY AsidePeek, AsideBroadcast, AsideConcat
  <2>. QED  BY <1>1, <2>1, <2>2 DEF Goes
<1>6. CASE out_exists(p)
  <2>. DEFINE s == IF all_clients[i].uid THEN <<On("out_fifo", i)>> ELSE <<>>
  <2>1. Continue(p, s) /\ UNCHANGED <<me, sock, used_fd, fds>>
    BY <1>6 DEF out_exists, Leave, shared
  <2>2. On("out_fifo", i).do \notin Main(p)
    BY Sides DEF SideOps, On
  <2>3. Aside(p, s)
    BY <2>2, AsideOne, AsideEmpty
  <2>. QED  BY <1>1, <2>1, <2>3 DEF Goes
<1>7. CASE OutFifo(p)
  <2>. DEFINE s == IF fifo[<<me[p], i>>] # 0 THEN <<>>
                   ELSE Peek \o Peek \o Section(On("set_sender", i))
  <2>1. Continue(p, s) /\ UNCHANGED <<me, sock, used_fd, fds>>
    BY <1>7 DEF OutFifo, Plain, shared
  <2>2. On("set_sender", i).do \notin Main(p)
    BY Sides DEF SideOps, On
  <2>3. Aside(p, s)
    BY <2>2, AsideSection, AsidePeek, AsideConcat, AsideEmpty
  <2>. QED  BY <1>1, <2>1, <2>3 DEF Goes
<1>8. CASE SetSender(p)
  <2>. DEFINE x == On("mkfifo", i)
              y == [do |-> "kill_usr2", pid |-> all_clients[i].pid]
              z == [do |-> "open_write", to |-> i, pid |-> all_clients[i].pid]
              w == Do("job")
              s == <<x>> \o Section(y) \o <<z>> \o broadcast \o <<w>>
  <2>1. Continue(p, s) /\ UNCHANGED <<me, sock, used_fd, fds>>
    BY <1>8 DEF SetSender, Leave, local
  <2>2. x.do \notin Main(p) /\ y.do \notin Main(p) /\ z.do \notin Main(p) /\ w.do \notin Main(p)
    BY Sides DEF SideOps, On, Do
  <2>. HIDE DEF x, y, z, w
  <2>3. Aside(p, <<x>>) /\ Aside(p, Section(y)) /\ Aside(p, <<z>>) /\ Aside(p, <<w>>)
    BY <2>2, AsideOne, AsideSection
  <2>4. Aside(p, <<x>> \o Section(y) \o <<z>>)
    BY <2>3, AsideConcat
  <2>5. Aside(p, s)
    BY <2>3, <2>4, AsideBroadcast, AsideConcat
  <2>. QED  BY <1>1, <2>1, <2>5 DEF Goes
<1>9. CASE KillUsr2(p)
  <2>1. Kill(p, Now(p).pid, "usr2", <<Do("signal")>>) /\ "usr2" \in Signals
    BY <1>9 DEF KillUsr2, Signals
  <2>2. Do("signal").do \notin Main(p)
    BY Sides DEF SideOps, Do
  <2>3. Aside(p, <<Do("signal")>>)
    BY <2>2, AsideOne
  <2>. QED  BY <1>1, <2>1, <2>3, KillGoes
<1>10. CASE KillAlrm(p)
  <2>1. Kill(p, Now(p).pid, "alrm", <<>>) /\ "alrm" \in Signals
    BY <1>10 DEF KillAlrm, Signals
  <2>. QED  BY <1>1, <2>1, AsideEmpty, KillGoes
<1>11. CASE user_pipe_handler(p)
  <2>. DEFINE x == On("open_read", all_clients[me[p]].sender_id)
  <2>1. Continue(p, <<x>>) /\ UNCHANGED <<me, sock, used_fd, fds>>
    BY <1>11 DEF user_pipe_handler, Plain, local
  <2>2. x.do \notin Main(p)
    BY Sides DEF SideOps, On
  <2>. HIDE DEF x
  <2>3. Aside(p, <<x>>)
    BY <2>2, AsideOne
  <2>. QED  BY <1>1, <2>1, <2>3 DEF Goes
<1>12. CASE user_pipe_clear(p)
  <2>1. Continue(p, Section(On("read_fds", i))) /\ UNCHANGED <<me, sock, used_fd, fds>>
    BY <1>12 DEF user_pipe_clear, Plain, shared
  <2>2. On("read_fds", i).do \notin Main(p)
    BY Sides DEF SideOps, On
  <2>3. Aside(p, Section(On("read_fds", i)))
    BY <2>2, AsideSection
  <2>. QED  BY <1>1, <2>1, <2>3 DEF Goes
<1>13. CASE ReadFds(p)
  <2>. DEFINE s == IF all_clients[me[p]].sent_fd[i] > 0 THEN <<Unlink(i, me[p])>> ELSE <<>>
              t == IF all_clients[i].sent_fd[me[p]] > 0 THEN Section(On("mark_clear", i)) ELSE <<>>
  <2>1. Continue(p, s \o t) /\ UNCHANGED <<me, sock, used_fd, fds>>
    BY <1>13 DEF ReadFds, Leave, shared
  <2>2. On("mark_clear", i).do \notin Main(p) /\ Unlink(i, me[p]).do \notin Main(p)
    BY Sides DEF SideOps, On, Unlink
  <2>3. Aside(p, s) /\ Aside(p, t)
    BY <2>2, AsideOne, AsideSection, AsideEmpty
  <2>. HIDE DEF s, t
  <2>4. Aside(p, s \o t)
    BY <2>3, AsideConcat
  <2>. QED  BY <1>1, <2>1, <2>4 DEF Goes
<1>14. CASE MarkClear(p)
  <2>. DEFINE x == [do |-> "kill_alrm", pid |-> all_clients[i].pid]
              y == On("reset_sent", i)
              z == Unlink(me[p], i)
  <2>1. Continue(p, <<x>> \o Section(y) \o <<z>>) /\ UNCHANGED <<me, sock, used_fd, fds>>
    BY <1>14 DEF MarkClear, Leave, local
  <2>2. x.do \notin Main(p) /\ y.do \notin Main(p) /\ z.do \notin Main(p)
    BY Sides DEF SideOps, On, Unlink
  <2>. HIDE DEF x, y, z
  <2>3. Aside(p, <<x>> \o Section(y) \o <<z>>)
    BY <2>2, AsideOne, AsideSection, AsideConcat
  <2>. QED  BY <1>1, <2>1, <2>3 DEF Goes
<1>. QED  BY <1>2, <1>3, <1>4, <1>5, <1>6, <1>7, <1>8, <1>9, <1>10, <1>11, <1>12, <1>13, <1>14

(* All of these keep the invariant. *)
LEMMA GoesKeeps ==
    ASSUME MpInv, MpInv', SlotInv, NEW p \in Procs,
           \/ Wait(p) \/ Flip(p) \/ Return(p) \/ client_login(p) \/ Bcast(p) \/ Tell(p)
           \/ pass_message(p) \/ PeekBody(p) \/ MkFifo(p) \/ SemSignal(p) \/ StartJob(p)
           \/ OpenReadFails(p) \/ SetSentFd(p) \/ UnlinkFifo(p) \/ ResetSent(p) \/ user_exit_clear(p)
           \/ KillIf(p) \/ KillSlot(p) \/ name_exists(p) \/ Rename(p) \/ out_exists(p)
           \/ OutFifo(p) \/ SetSender(p) \/ KillUsr2(p) \/ KillAlrm(p) \/ user_pipe_handler(p)
           \/ user_pipe_clear(p) \/ ReadFds(p) \/ MarkClear(p)
           \/ in_exists(p) \/ InFifo(p) \/ TakeFd(p)
    PROVE  SlotInv'
<1>1. \E s : Goes(p, s)
  BY ShortGoes, LongGoes, InputGoes
<1>2. SlotsKept
  <2>1. CASE \/ client_login(p) \/ Bcast(p) \/ Tell(p) \/ pass_message(p) \/ Rename(p)
             \/ SetSender(p) \/ user_pipe_handler(p) \/ SetSentFd(p) \/ TakeFd(p)
             \/ MarkClear(p) \/ ResetSent(p) \/ user_exit_clear(p)
    BY <2>1, WritesKeep
  <2>2. CASE \/ Wait(p) \/ Flip(p) \/ Return(p) \/ PeekBody(p) \/ MkFifo(p) \/ SemSignal(p)
             \/ StartJob(p) \/ OpenReadFails(p) \/ UnlinkFifo(p) \/ KillIf(p) \/ KillSlot(p)
             \/ name_exists(p) \/ out_exists(p) \/ OutFifo(p) \/ KillUsr2(p) \/ KillAlrm(p)
             \/ user_pipe_clear(p) \/ ReadFds(p) \/ in_exists(p) \/ InFifo(p)
    <3>1. UNCHANGED all_clients
      BY <2>2, Zenon DEF Wait, Flip, Return, PeekBody, MkFifo, SemSignal, StartJob, OpenReadFails,
                  UnlinkFifo, KillIf, KillSlot, name_exists, out_exists, OutFifo, KillUsr2,
                  KillAlrm, Kill, user_pipe_clear, ReadFds, in_exists, InFifo, shared
    <3>. QED  BY <3>1, SlotsSame
  <2>. QED  BY <2>1, <2>2
<1>. QED  BY <1>1, <1>2, AsideStep DEF Goes

(* A server that ends: nothing it would have done is left. *)
LEMMA ExitKeeps ==
    ASSUME MpInv, MpInv', SlotInv, NEW p \in Conns, Alive(p), Exit(p),
           "in" \notin Menu /\ me[p] # -1 => sock[Master] > p \/ \A i \in Slots : all_clients[i].fd # p
    PROVE  SlotInv'
<1>1. /\ UNCHANGED <<all_clients, me, sock, used_fd>>
      /\ code' = [code EXCEPT ![p] = <<>>] /\ fds' = [fds EXCEPT ![p] = {}]
  BY DEF Exit
<1>2. DOMAIN code = Procs /\ DOMAIN fds = Procs /\ p \in Procs /\ p # Master
      /\ Master \in Procs /\ Conns \subseteq Procs /\ sock[Master] \in Procs
  BY ProcsAre, Bounds DEF MpInv, StructInv, SlotInv, Accounts
<1>3. /\ code'[p] = <<>> /\ \A q \in Procs : q # p => code'[q] = code[q] /\ fds'[q] = fds[q]
      /\ DOMAIN fds' = Procs
  BY <1>1, <1>2
<1>4. Kinds(<<>>) = {} /\ Tidy(<<>>)
  <2>1. DOMAIN <<>> = {}
    OBVIOUS
  <2>2. Kinds(<<>>) = {}
    BY <2>1 DEF Kinds
  <2>. QED  BY <2>1, <2>2 DEF Tidy
<1>5. Roles'
  BY <1>2, <1>3, <1>4 DEF SlotInv, Roles
<1>6. Accounts'
  BY <1>1, <1>3 DEF SlotInv, Accounts
<1>7. Opening'
  BY <1>1, <1>2, <1>3 DEF SlotInv, Opening
<1>8. Sockets'
  BY <1>1, <1>2, <1>3, <1>4 DEF SlotInv, Sockets
<1>9. Users'
  BY <1>1, <1>2, <1>3, <1>4 DEF SlotInv, Users
<1>10. Marked'
  BY <1>1 DEF SlotInv, Marked
<1>. QED  BY <1>5, <1>6, <1>7, <1>8, <1>9, <1>10 DEF SlotInv

(* Where a process is that executes one of the instructions that count. *)
LEMMA ServerAt ==
    ASSUME MpInv, SlotInv, NEW p \in Procs, Alive(p)
    PROVE  /\ Now(p) = code[p][1] /\ IsSeq(code[p]) /\ code[p] # <<>> /\ Tidy(code[p])
           /\ Now(p).do \in Kinds(code[p])
           /\ Kinds(code[p]) = {Now(p).do} \cup Kinds(Tail(code[p]))
           /\ Now(p).do \in ServerOps \cup InOps => p \in Conns
           /\ Now(p).do \in MasterOps => p = Master
<1>1. Now(p) = code[p][1] /\ IsSeq(code[p]) /\ code[p] # <<>> /\ Tidy(code[p]) /\ 1 \in DOMAIN code[p]
  BY HeadIs, HeadTail, Zenon DEF MpInv, Form, SlotInv, Roles
<1>2. Now(p).do \in Kinds(code[p])
  BY <1>1 DEF Kinds
<1>3. Kinds(code[p]) = {Now(p).do} \cup Kinds(Tail(code[p]))
  BY <1>1, KindsTail
<1>4. p = Master \/ p \in Conns
  BY DEF Procs
<1>. QED  BY <1>1, <1>2, <1>3, <1>4 DEF SlotInv, Roles

(* What is left of the sockets a new server holds. *)
LEMMA CloseOtherKeeps ==
    ASSUME MpInv, MpInv', SlotInv, NEW p \in Procs, close_other_client_fd(p)
    PROVE  SlotInv'
<1>1. Alive(p) /\ Now(p).do = "close_other"
  BY DEF close_other_client_fd, At, Now
<1>2. p \in Conns /\ "close_other" \in Kinds(code[p])
  BY <1>1, ServerAt DEF ServerOps, Owners
<1>. DEFINE others == {all_clients[i].fd : i \in {j \in Slots :
                          (all_clients[j].uid => j # me[p]) /\ all_clients[j].fd > 0}}
            t == Tail(code[p])
<1>3. /\ UNCHANGED <<all_clients, me, sock, used_fd>>
      /\ \/ Exit(p) /\ ~(others \subseteq fds[p])
         \/ Leave(p, <<>>) /\ fds' = [fds EXCEPT ![p] = @ \ others]
  BY DEF close_other_client_fd, Exit
<1>4. CASE Exit(p) /\ ~(others \subseteq fds[p])
  <2>1. me[p] # -1
    BY <1>2, SlotIs DEF SlotInv, Users, Owners
  <2>2. sock[Master] # p
    <3>. SUFFICES ASSUME sock[Master] = p PROVE others \subseteq fds[p]
      BY <1>4
    <3>1. \A i \in Slots : all_clients[i].uid => all_clients[i].fd \in fds[p]
      BY <1>2 DEF SlotInv, Sockets
    <3>2. \A i \in Slots : all_clients[i].fd > 0 => all_clients[i].uid
      BY DEF SlotInv, Accounts
    <3>. QED  BY <3>1, <3>2
  <2>3. sock[Master] >= p
    <3>1. ~(p > sock[Master])
      BY <1>2, <2>1 DEF SlotInv, Opening
    <3>. QED  BY <1>2, <3>1, Bounds DEF MpInv, StructInv
  <2>4. sock[Master] > p
    BY <1>2, <2>2, <2>3, Bounds DEF MpInv, StructInv
  <2>. HIDE DEF others
  <2>. QED  BY <1>1, <1>2, <1>4, <2>4, ExitKeeps
<1>5. CASE Leave(p, <<>>) /\ fds' = [fds EXCEPT ![p] = @ \ others]
  <2>. HIDE DEF others
  <2>1. /\ DOMAIN code = Procs /\ DOMAIN fds = Procs /\ p \in Procs /\ p # Master
        /\ Master \in Procs /\ Conns \subseteq Procs /\ sock[Master] \in Procs
    BY <1>2, ProcsAre, Bounds DEF MpInv, StructInv, SlotInv, Accounts
  <2>2. IsSeq(code[p]) /\ code[p] # <<>> /\ Tidy(code[p]) /\ code[p][1].do = "close_other"
        /\ Kinds(code[p]) = {"close_other"} \cup Kinds(t) /\ IsSeq(t)
    BY <1>1, ServerAt, HeadTail, Zenon
  <2>3. Tidy(t) /\ "close_other" \notin Kinds(t) /\ "prompt" \in Kinds(t)
    <3>1. "prompt" \in Kinds(code[p])
      BY <2>2 DEF Tidy
    <3>. QED  BY <2>2, <3>1, TidyTail DEF Onces
  <2>4. code'[p] = t /\ DOMAIN fds' = Procs
        /\ \A q \in Procs : q # p => code'[q] = code[q] /\ fds'[q] = fds[q]
    <3>1. <<>> \o t = t
      BY <2>2 DEF IsSeq
    <3>2. code' = [code EXCEPT ![p] = <<>> \o t]
      BY <1>5 DEF Leave, Continue
    <3>. HIDE DEF t
    <3>. QED  BY <1>5, <2>1, <3>1, <3>2
  <2>. HIDE DEF t
  <2>5. Roles'
    BY <2>1, <2>2, <2>3, <2>4 DEF SlotInv, Roles
  <2>6. Accounts'
    BY <1>3, <2>4 DEF SlotInv, Accounts
  <2>7. Opening'
    BY <1>3, <2>1, <2>4 DEF SlotInv, Opening
  <2>8. Sockets'
    BY <1>3, <2>1, <2>3, <2>4 DEF SlotInv, Sockets
  <2>9. Users'
    <3>1. \A c \in Conns : Kinds(code'[c]) \cap Owners = {} <=> Kinds(code[c]) \cap Owners = {}
      BY <2>1, <2>2, <2>3, <2>4, Zenon DEF Owners
    <3>. QED  BY <1>3, <3>1 DEF SlotInv, Users
  <2>10. Marked'
    BY <1>3 DEF SlotInv, Marked
  <2>. QED  BY <2>5, <2>6, <2>7, <2>8, <2>9, <2>10 DEF SlotInv
<1>. QED  BY <1>3, <1>4, <1>5

(* A server gives its slot back: the slot was its own, and nobody else's. *)
LEMMA ClearKeeps ==
    ASSUME MpInv, MpInv', SlotInv, NEW p \in Procs, ClearSlot(p)
    PROVE  SlotInv'
<1>1. /\ Alive(p) /\ Now(p).do = "clear_slot" /\ UNCHANGED <<me, sock, fds, used_fd>>
      /\ code' = [code EXCEPT ![p] = <<>> \o Tail(code[p])]
      /\ all_clients' = [all_clients EXCEPT ![me[p]] =
                            [FreeSlot EXCEPT !.message = all_clients[me[p]].message]]
  BY DEF ClearSlot, At, Now, local, Leave, Continue, Clients
<1>. DEFINE t == Tail(code[p])
            i == me[p]
            x == [FreeSlot EXCEPT !.message = all_clients[i].message]
<1>2. p \in Conns /\ "clear_slot" \in Kinds(code[p])
  BY <1>1, ServerAt DEF ServerOps, Owners
<1>3. /\ DOMAIN code = Procs /\ p \in Procs /\ p # Master
      /\ Master \in Procs /\ Conns \subseteq Procs /\ sock[Master] \in Procs
      /\ DOMAIN all_clients = Slots
  BY <1>2, ProcsAre, Bounds DEF MpInv, StructInv, SlotInv, Accounts
<1>4. IsSeq(code[p]) /\ code[p] # <<>> /\ Tidy(code[p]) /\ code[p][1].do = "clear_slot"
      /\ Kinds(code[p]) = {"clear_slot"} \cup Kinds(t) /\ IsSeq(t)
  BY <1>1, ServerAt, HeadTail, Zenon
<1>5. Tidy(t) /\ Kinds(t) \cap Owners = {}
  <2>1. Tidy(t) /\ "close_other" \notin Kinds(t) /\ "clear_slot" \notin Kinds(t)
    BY <1>4, TidyTail DEF Onces
  <2>2. "exit" \in Kinds(t)
    BY <1>4 DEF Tidy
  <2>3. "prompt" \notin Kinds(t)
    <3>. SUFFICES ASSUME "prompt" \in Kinds(t) PROVE FALSE
      OBVIOUS
    <3>1. PICK j \in DOMAIN t : t[j].do = "prompt"
      BY DEF Kinds
    <3>2. PICK k \in DOMAIN t : t[k].do = "exit"
      BY <2>2 DEF Kinds
    <3>. HIDE DEF t
    <3>3. j = Len(t) /\ k = Len(t)
      BY <2>1, <3>1, <3>2 DEF Tidy, Lasts
    <3>. QED  BY <3>1, <3>2, <3>3
  <2>. QED  BY <2>1, <2>3 DEF Owners
<1>6. i \in Slots /\ all_clients[i].fd = p /\ i # -1 /\ p # -1 /\ p # 0
  BY <1>2, SlotIs, Bounds DEF SlotInv, Users, Owners
<1>7. /\ code'[p] = t /\ \A q \in Procs : q # p => code'[q] = code[q]
  <2>1. <<>> \o t = t
    BY <1>4 DEF IsSeq
  <2>. HIDE DEF t
  <2>2. code' = [code EXCEPT ![p] = <<>> \o t]
    BY <1>1 DEF t
  <2>. QED  BY <1>3, <2>1, <2>2
<1>. HIDE DEF t
<1>8. /\ Fields \subseteq DOMAIN x /\ x.uid = FALSE /\ x.fd = -1 /\ x.pid = -1
      /\ x.message = all_clients[i].message
  BY DEF FreeSlot, Fields
<1>. HIDE DEF x
<1>9. /\ DOMAIN all_clients' = Slots /\ all_clients'[i] = x
      /\ \A j \in Slots : j # i => all_clients'[j] = all_clients[j]
  BY <1>1, <1>3, <1>6 DEF x
<1>10. \A j \in Slots : all_clients[j].fd = p => j = i
  <2>1. all_clients[i].uid
    BY <1>6 DEF SlotInv, Accounts
  <2>. QED  BY <1>6, <2>1 DEF SlotInv, Accounts
<1>. HIDE DEF i
<1>11. \A j \in Slots : all_clients'[j].fd # p /\ (all_clients'[j].uid => j # i)
  BY <1>6, <1>8, <1>9, <1>10
<1>12. Roles'
  BY <1>3, <1>4, <1>5, <1>7 DEF SlotInv, Roles
<1>13. Accounts'
  <2>1. ASSUME NEW j \in Slots
        PROVE  /\ Fields \subseteq DOMAIN all_clients'[j]
               /\ all_clients'[j].uid => all_clients'[j].fd \in 1..sock[Master]
               /\ ~all_clients'[j].uid => all_clients'[j].fd = -1
               /\ all_clients'[j].message \in {0} \cup Conns
    <3>1. CASE j = i
      BY <1>6, <1>8, <1>9, <3>1 DEF SlotInv, Accounts
    <3>2. CASE j # i
      BY <1>9, <3>2 DEF SlotInv, Accounts
    <3>. QED  BY <3>1, <3>2
  <2>2. ASSUME NEW j \in Slots, NEW k \in Slots, all_clients'[j].uid, all_clients'[j].fd = all_clients'[k].fd
        PROVE  j = k
    <3>1. j # i /\ all_clients'[j] = all_clients[j]
      BY <1>9, <1>11, <2>2
    <3>2. all_clients[j].fd # -1
      BY <2>2, <3>1 DEF SlotInv, Accounts
    <3>3. k # i
      BY <1>8, <1>9, <2>2, <3>1, <3>2
    <3>. QED  BY <1>9, <2>2, <3>1, <3>3 DEF SlotInv, Accounts
  <2>. QED  BY <1>1, <1>9, <2>1, <2>2 DEF SlotInv, Accounts
<1>14. {"client_init", "fork"} \cap Kinds(code[Master]) # {} => sock[Master] # p
  BY <1>6 DEF SlotInv, Opening, i
<1>15. Opening'
  <2>1. ASSUME "client_init" \in Kinds(code[Master])
        PROVE  /\ \E j \in Slots : ~all_clients'[j].uid
               /\ \A j \in Slots : all_clients'[j].fd # sock[Master] /\ used_fd[j] # sock[Master]
               /\ sock[Master] \in fds[Master]
    <3>1. sock[Master] # -1
      BY <1>3, Bounds
    <3>. QED  BY <1>6, <1>8, <1>9, <2>1, <3>1 DEF SlotInv, Opening
  <2>2. Registered(code[Master]) # {} => sock[Master] # p
    <3>1. Registered(code[Master]) # {} => "fork" \in Kinds(code[Master])
      BY <1>3 DEF SlotInv, Roles, Tidy, Registered, Kinds
    <3>. QED  BY <1>14, <3>1
  <2>3. \A j \in Slots : all_clients[j].fd = sock[Master] /\ sock[Master] # p => all_clients'[j].fd = sock[Master]
    BY <1>6, <1>9
  <2>4. \A j \in Registered(code[Master]) : j \in Slots /\ all_clients'[j].fd = sock[Master]
    BY <2>2, <2>3 DEF SlotInv, Opening
  <2>5. "fork" \in Kinds(code[Master]) /\ Registered(code[Master]) = {} =>
          me[Master] \in Slots /\ all_clients'[me[Master]].fd = sock[Master]
    BY <1>14, <2>3 DEF SlotInv, Opening
  <2>. QED  BY <1>1, <1>3, <1>7, <2>1, <2>4, <2>5 DEF SlotInv, Opening
<1>16. Sockets'
  <2>1. \A j \in Slots : all_clients'[j].uid => all_clients'[j] = all_clients[j]
    BY <1>9, <1>11
  <2>2. ASSUME NEW j \in Slots, NEW k \in Slots, used_fd[j] > 0, all_clients'[k].fd = used_fd[j]
        PROVE  j = k
    <3>1. k # i
      BY <1>8, <1>9, <2>2
    <3>. QED  BY <1>9, <2>2, <3>1 DEF SlotInv, Sockets
  <2>3. "close_other" \in Kinds(code'[sock[Master]]) => "close_other" \in Kinds(code[sock[Master]])
    BY <1>3, <1>4, <1>7
  <2>. QED  BY <1>1, <2>1, <2>2, <2>3, Zenon DEF SlotInv, Sockets
<1>17. Users'
  <2>1. ASSUME NEW c \in Conns, Kinds(code'[c]) \cap Owners # {}
        PROVE  me[c] \in Slots /\ all_clients'[me[c]].fd = c
    <3>1. c # p /\ code'[c] = code[c]
      BY <1>3, <1>5, <1>7, <2>1
    <3>2. me[c] \in Slots /\ all_clients[me[c]].fd = c
      BY <2>1, <3>1 DEF SlotInv, Users
    <3>3. me[c] # i
      BY <1>6, <3>1, <3>2
    <3>. QED  BY <1>9, <3>2, <3>3
  <2>2. ASSUME "in" \notin Menu, NEW c \in Conns, Kinds(code'[c]) \cap Owners = {}, me[c] # -1
        PROVE  sock[Master] > c \/ \A j \in Slots : all_clients'[j].fd # c
    <3>1. CASE c = p
      BY <1>11, <3>1
    <3>2. CASE c # p
      <4>1. sock[Master] > c \/ \A j \in Slots : all_clients[j].fd # c
        BY <1>3, <1>7, <2>2, <3>2 DEF SlotInv, Users
      <4>2. c # -1
        BY Bounds
      <4>. QED  BY <1>8, <1>9, <4>1, <4>2
    <3>. QED  BY <3>1, <3>2
  <2>. QED  BY <1>1, <2>1, <2>2 DEF Users
<1>18. Marked'
  <2>. SUFFICES ASSUME NEW j \in Slots, NEW c \in Conns
                PROVE  /\ all_clients'[j].fd = c => me[c] \in {j, -1}
                       /\ all_clients'[j].message = c => me[c] = j \/ (me[c] = -1 /\ all_clients'[j].fd = c)
                       /\ all_clients'[j].pid = c => me[c] = j
    BY <1>1 DEF Marked
  <2>1. CASE j # i
    BY <1>9, <2>1 DEF SlotInv, Marked
  <2>2. CASE j = i
    <3>1. c # -1
      BY Bounds
    <3>2. all_clients[i].message = c => me[c] = i \/ (me[c] = -1 /\ c = p)
      BY <1>6 DEF SlotInv, Marked
    <3>3. me[p] # -1
      BY <1>6 DEF i
    <3>. QED  BY <1>8, <1>9, <2>2, <3>1, <3>2, <3>3
  <2>. QED  BY <2>1, <2>2
<1>. QED  BY <1>12, <1>13, <1>15, <1>16, <1>17, <1>18 DEF SlotInv

(* A server that goes on, and still has, or has not, its slot to give back. *)
LEMMA ServerKeeps ==
    ASSUME MpInv, MpInv', SlotInv, NEW p \in Conns, NEW d,
           code' = [code EXCEPT ![p] = d], Tidy(d), Kinds(d) \cap MasterOps = {},
           "in" \notin Menu => Kinds(d) \cap InOps = {},
           Kinds(d) \cap Owners = {} <=> Kinds(code[p]) \cap Owners = {},
           "close_other" \notin Kinds(d),
           DOMAIN fds' = Procs, \A q \in Procs : q # p => fds'[q] = fds[q],
           UNCHANGED <<all_clients, me, sock, used_fd>>
    PROVE  SlotInv'
<1>1. /\ DOMAIN code = Procs /\ p \in Procs /\ p # Master
      /\ Master \in Procs /\ Conns \subseteq Procs /\ sock[Master] \in Procs
  BY ProcsAre, Bounds DEF MpInv, StructInv
<1>2. code'[p] = d /\ \A q \in Procs : q # p => code'[q] = code[q]
  BY <1>1
<1>3. Roles'
  BY <1>1, <1>2 DEF SlotInv, Roles
<1>4. Accounts'
  BY DEF SlotInv, Accounts
<1>5. Opening'
  BY <1>1, <1>2 DEF SlotInv, Opening
<1>6. Sockets'
  BY <1>1, <1>2 DEF SlotInv, Sockets
<1>7. Users'
  <2>1. \A c \in Conns : Kinds(code'[c]) \cap Owners = {} <=> Kinds(code[c]) \cap Owners = {}
    BY <1>1, <1>2
  <2>. QED  BY <2>1 DEF SlotInv, Users
<1>8. Marked'
  BY DEF SlotInv, Marked
<1>. QED  BY <1>3, <1>4, <1>5, <1>6, <1>7, <1>8 DEF SlotInv

(* Only one instruction can be the last. *)
LEMMA OneLast ==
    ASSUME NEW c, Tidy(c), NEW x \in Lasts, NEW y \in Lasts, x \in Kinds(c), y \in Kinds(c)
    PROVE  x = y
<1>1. PICK j \in DOMAIN c : c[j].do = x
  BY DEF Kinds
<1>2. PICK k \in DOMAIN c : c[k].do = y
  BY DEF Kinds
<1>3. j = Len(c) /\ k = Len(c)
  BY <1>1, <1>2 DEF Tidy
<1>. QED  BY <1>1, <1>2, <1>3

(* With the exit ahead there is no prompt any more, nor a login. *)
LEMMA ExitAhead ==
    ASSUME NEW c, Tidy(c), "exit" \in Kinds(c)
    PROVE  "prompt" \notin Kinds(c) /\ "close_other" \notin Kinds(c)
<1>1. "prompt" \notin Kinds(c)
  BY OneLast DEF Lasts
<1>. QED  BY <1>1 DEF Tidy

LEMMA CloseKeeps ==
    ASSUME MpInv, MpInv', SlotInv, NEW p \in Procs, CloseSock(p)
    PROVE  SlotInv'
<1>. DEFINE t == Tail(code[p])
<1>1. /\ Alive(p) /\ Now(p).do = "close" /\ UNCHANGED <<all_clients, me, sock, used_fd>>
      /\ code' = [code EXCEPT ![p] = <<>> \o t]
      /\ fds' = [fds EXCEPT ![p] = @ \ {p}]
  BY DEF CloseSock, At, Now, Plain, Continue
<1>2. /\ IsSeq(code[p]) /\ code[p] # <<>> /\ Tidy(code[p]) /\ code[p][1].do = "close"
      /\ Kinds(code[p]) = {"close"} \cup Kinds(t) /\ "close" \in Kinds(code[p])
      /\ p \in Conns /\ IsSeq(t)
  <2>1. "close" \in ServerOps
    BY DEF ServerOps
  <2>2. /\ IsSeq(code[p]) /\ code[p] # <<>> /\ Tidy(code[p]) /\ code[p][1].do = "close"
        /\ Kinds(code[p]) = {"close"} \cup Kinds(t) /\ "close" \in Kinds(code[p]) /\ p \in Conns
    BY <1>1, <2>1, ServerAt, Zenon
  <2>3. IsSeq(t)
    BY <2>2, HeadTail, Zenon
  <2>. QED  BY <2>2, <2>3
<1>3. Tidy(t)
  BY <1>2, TidyTail
<1>4. "exit" \in Kinds(t)
  <2>1. "exit" \in Kinds(code[p])
    BY <1>2, Zenon DEF Tidy
  <2>. QED  BY <1>2, <2>1
<1>5. "close_other" \notin Kinds(t)
  BY <1>3, <1>4, ExitAhead
<1>6. <<>> \o t = t
  BY <1>2 DEF IsSeq
<1>. HIDE DEF t
<1>7. code' = [code EXCEPT ![p] = t]
  BY <1>1, <1>6
<1>8. DOMAIN fds' = Procs /\ \A q \in Procs : q # p => fds'[q] = fds[q]
  BY <1>1 DEF SlotInv, Accounts
<1>9. Kinds(t) \cap MasterOps = {}
  BY <1>2 DEF SlotInv, Roles
<1>9a. "in" \notin Menu => Kinds(t) \cap InOps = {}
  BY <1>2, ProcsAre DEF SlotInv, Roles
<1>10. Kinds(t) \cap Owners = {} <=> Kinds(code[p]) \cap Owners = {}
  BY <1>2 DEF Owners
<1>. QED  BY <1>1, <1>2, <1>3, <1>5, <1>7, <1>8, <1>9, <1>9a, <1>10, ServerKeeps, Zenon

LEMMA QuitKeeps ==
    ASSUME MpInv, MpInv', SlotInv, NEW p \in Procs, Quit(p)
    PROVE  SlotInv'
<1>. DEFINE d == client_logout
<1>1. /\ Alive(p) /\ Now(p).do = "prompt" /\ UNCHANGED <<all_clients, me, sock, used_fd, fds>>
      /\ code' = [code EXCEPT ![p] = d \o Tail(code[p])]
  BY DEF Quit, At, Now, Continue
<1>2. /\ IsSeq(code[p]) /\ code[p] # <<>> /\ Tidy(code[p]) /\ code[p][1].do = "prompt"
      /\ "prompt" \in Kinds(code[p]) /\ p \in Conns
  BY <1>1, ServerAt, HeadTail DEF ServerOps, Owners
<1>3. Tail(code[p]) = <<>>
  BY <1>2, TidyTail, Zenon DEF Lasts
<1>4. Piece(d) /\ Tidy(d) /\ Kinds(d) \cap Main(p) = {"clear_slot", "close", "exit"}
  BY PieceLogout, TidyLogout
<1>. HIDE DEF d
<1>5. d \o <<>> = d
  BY <1>4 DEF Piece, Form, IsSeq
<1>6. code' = [code EXCEPT ![p] = d]
  BY <1>1, <1>3, <1>5, Zenon
<1>7. Kinds(d) \cap MasterOps = {} /\ "close_other" \notin Kinds(d)
  <2>1. "close_other" \notin {"clear_slot", "close", "exit"}
        /\ {"clear_slot", "close", "exit"} \cap MasterOps = {}
    BY DEF MasterOps
  <2>. QED  BY <1>4, <2>1, MainOps
<1>8. Kinds(d) \cap Owners # {} /\ Kinds(code[p]) \cap Owners # {}
  BY <1>2, <1>4 DEF Owners
<1>9. "in" \notin Menu => Kinds(d) \cap InOps = {}
  <2>1. {"clear_slot", "close", "exit"} \cap InOps = {}
    BY DEF InOps
  <2>2. "in" \notin Menu => InOps \subseteq Main(p)
    BY DEF Main
  <2>. QED  BY <1>4, <2>1, <2>2
<1>10. DOMAIN fds' = Procs /\ \A q \in Procs : q # p => fds'[q] = fds[q]
  BY <1>1 DEF SlotInv, Accounts
<1>. QED  BY <1>1, <1>2, <1>4, <1>6, <1>7, <1>8, <1>9, <1>10, ServerKeeps, Zenon

LEMMA ExitProcessKeeps ==
    ASSUME MpInv, MpInv', SlotInv, NEW p \in Procs, ExitProcess(p)
    PROVE  SlotInv'
<1>1. Alive(p) /\ Now(p).do = "exit" /\ Exit(p)
  BY DEF ExitProcess, At, Now
<1>2. /\ IsSeq(code[p]) /\ code[p] # <<>> /\ Tidy(code[p]) /\ code[p][1].do = "exit"
      /\ Kinds(code[p]) = {"exit"} \cup Kinds(Tail(code[p])) /\ p \in Conns
  BY <1>1, ServerAt DEF ServerOps
<1>3. Tail(code[p]) = <<>>
  BY <1>2, TidyTail, Zenon DEF Lasts
<1>4. Kinds(code[p]) \cap Owners = {}
  <2>1. DOMAIN <<>> = {}
    OBVIOUS
  <2>. QED  BY <1>2, <1>3, <2>1, Zenon DEF Kinds, Owners
<1>5. "in" \notin Menu /\ me[p] # -1 => sock[Master] > p \/ \A i \in Slots : all_clients[i].fd # p
  BY <1>2, <1>4 DEF SlotInv, Users
<1>. QED  BY <1>1, <1>2, <1>5, ExitKeeps

LEMMA CloseInKeeps ==
    ASSUME MpInv, MpInv', SlotInv, NEW p \in Procs, CloseIn(p)
    PROVE  SlotInv'
<1>1. Alive(p) /\ Now(p).do = "close_in"
  BY DEF CloseIn, At, Now
<1>2. "in" \in Menu /\ p \in Conns
  BY <1>1, ServerAt, Zenon DEF SlotInv, Roles, InOps
<1>3. CASE Exit(p)
  BY <1>1, <1>2, <1>3, ExitKeeps
<1>4. CASE Plain(p, <<Unlink(Now(p).from, me[p])>>) /\ UNCHANGED <<all_clients, local>>
  <2>. DEFINE x == Unlink(Now(p).from, me[p])
  <2>1. Continue(p, <<x>>) /\ UNCHANGED <<all_clients, me, sock, used_fd, fds>>
    BY <1>4 DEF Plain, local
  <2>2. x.do \notin Main(p) /\ Now(p).do \notin Main(p)
    BY <1>1, <1>2, ProcsAre, Sides DEF SideOps, Unlink, InOps
  <2>. HIDE DEF x
  <2>3. Aside(p, <<x>>)
    BY <2>2, AsideOne
  <2>. QED  BY <1>1, <2>1, <2>2, <2>3, SlotsSame, AsideStep
<1>. QED  BY <1>3, <1>4 DEF CloseIn

LEMMA TypeKeeps ==
    ASSUME MpInv, MpInv', SlotInv, NEW p \in Procs, Type(p)
    PROVE  SlotInv'
<1>1. /\ Alive(p) /\ Now(p).do = "prompt" /\ UNCHANGED <<all_clients, me, sock, used_fd, fds>>
      /\ \E c \in Commands : code' = [code EXCEPT ![p] = Command(c) \o code[p]]
  BY Zenon DEF Type, At, Now
<1>2. p # Master
  BY <1>1, ServerAt, ProcsAre DEF ServerOps, Owners
<1>3. PICK c \in Commands : code' = [code EXCEPT ![p] = Command(c) \o code[p]]
  BY <1>1, Zenon
<1>4. Aside(p, Command(c))
  BY <1>2, AsideCommand
<1>5. CodeKept
  BY <1>1, <1>3, <1>4, CodeMoves, Zenon
<1>. QED  BY <1>1, <1>5, SlotsSame, SlotsKeptInv

LEMMA DeliverKeeps ==
    ASSUME MpInv, MpInv', SlotInv, NEW p \in Procs, NEW s \in Signals, Deliver(p, s)
    PROVE  SlotInv'
<1>. DEFINE h == Handler(p, s)
            x == Do("flip")
<1>1. /\ Alive(p) /\ UNCHANGED <<all_clients, me, sock, used_fd, fds>>
      /\ \E r \in Resumptions(p, s) : code' = [code EXCEPT ![p] = h \o r]
  BY Zenon DEF Deliver, shared
<1>2. PICK r \in Resumptions(p, s) : code' = [code EXCEPT ![p] = h \o r]
  BY <1>1, Zenon
<1>3. Aside(p, h) /\ Aside(p, <<x>>)
  <2>1. x.do \notin Main(p)
    BY Sides DEF SideOps, Do
  <2>. QED  BY <2>1, AsideHandler, AsideOne
<1>4. IsSeq(Tail(code[p]))
  BY <1>1, ServerAt, HeadTail, Zenon
<1>5. \/ r = code[p]
      \/ Now(p).do = "wait" /\ (r = <<x>> \o Tail(code[p]) \/ r = Tail(code[p]))
  BY DEF Resumptions, At, Now
<1>6. "wait" \notin Main(p)
  BY Sides DEF SideOps
<1>. HIDE DEF h, x
<1>7. h \o (<<x>> \o Tail(code[p])) = (h \o <<x>>) \o Tail(code[p]) /\ Aside(p, h \o <<x>>)
  <2>1. IsSeq(h) /\ IsSeq(<<x>>)
    BY <1>3 DEF Aside
  <2>2. (h \o <<x>>) \o Tail(code[p]) = h \o (<<x>> \o Tail(code[p]))
    <3>. DEFINE y == <<x>>
                t == Tail(code[p])
    <3>1. IsSeq(h) /\ IsSeq(y) /\ IsSeq(t)
      BY <1>4, <2>1
    <3>. HIDE DEF y, t
    <3>2. Associates(h, y, t)
      BY <3>1, Assoc
    <3>. QED  BY <3>2, Zenon DEF Associates, y, t
  <2>3. Aside(p, h \o <<x>>)
    BY <1>3, AsideConcat
  <2>. QED  BY <2>2, <2>3, Zenon
<1>8. CodeKept
  <2>1. CASE r = code[p]
    BY <1>1, <1>2, <1>3, <2>1, CodeMoves, Zenon
  <2>2. CASE Now(p).do = "wait" /\ r = <<x>> \o Tail(code[p])
    <3>1. code' = [code EXCEPT ![p] = (h \o <<x>>) \o Tail(code[p])]
      BY <1>2, <1>7, <2>2, Zenon
    <3>. QED  BY <1>1, <1>6, <1>7, <2>2, <3>1, CodeMoves, Zenon
  <2>3. CASE Now(p).do = "wait" /\ r = Tail(code[p])
    BY <1>1, <1>2, <1>3, <1>6, <2>3, CodeMoves, Zenon
  <2>. QED  BY <1>5, <2>1, <2>2, <2>3
<1>. QED  BY <1>1, <1>8, SlotsSame, SlotsKeptInv

LEMMA OpenKeeps ==
    ASSUME MpInv, MpInv', SlotInv, NEW p \in Procs, NEW q \in Procs, OpenBoth(p, q)
    PROVE  SlotInv'
<1>. DEFINE x == [do |-> "set_sent", from |-> me[p], fd |-> fifo[<<me[p], me[q]>>]]
            d == Tail(code[p])
            e == <<x>> \o Tail(code[q])
<1>1. /\ Alive(p) /\ Now(p).do = "open_write" /\ Alive(q) /\ Now(q).do = "open_read"
      /\ code' = [code EXCEPT ![p] = d, ![q] = e]
      /\ DOMAIN code = Procs /\ UNCHANGED <<all_clients, me, sock, used_fd, fds>>
  BY DEF MpInv, StructInv, OpenBoth, local, At, Now
<1>2. p # q
  BY <1>1
<1>3. /\ x.do \notin Main(q)
      /\ "open_write" \notin Main(p) /\ "open_read" \notin Main(q)
  BY Sides DEF SideOps
<1>4. IsSeq(code[p]) /\ code[p] # <<>> /\ Tidy(code[p]) /\ code[p][1].do = "open_write"
  BY <1>1, ServerAt
<1>5. IsSeq(code[q]) /\ code[q] # <<>> /\ Tidy(code[q]) /\ code[q][1].do = "open_read"
      /\ IsSeq(Tail(code[q]))
  BY <1>1, ServerAt, HeadTail, Zenon
<1>6. Tidy(d) /\ SameMain(p, d, code[p])
  BY <1>3, <1>4, TidyTail
<1>. HIDE DEF x
<1>7. Tidy(e) /\ SameMain(q, e, code[q])
  <2>1. Aside(q, <<x>>)
    BY <1>3, AsideOne
  <2>2. Tidy(Tail(code[q])) /\ SameMain(q, Tail(code[q]), code[q])
    BY <1>3, <1>5, TidyTail
  <2>3. Tidy(e) /\ SameMain(q, e, Tail(code[q]))
    BY <1>5, <2>1, <2>2, AsideBefore
  <2>. QED  BY <2>2, <2>3 DEF SameMain
<1>. HIDE DEF d, e
<1>8. code'[p] = d /\ code'[q] = e /\ \A r \in Procs : r # p /\ r # q => code'[r] = code[r]
  BY <1>1, <1>2
<1>9. CodeKept
  <2>1. \A r \in Procs : Tidy(code[r]) /\ SameMain(r, code[r], code[r])
    BY DEF SlotInv, Roles, SameMain
  <2>. QED  BY <1>6, <1>7, <1>8, <2>1 DEF CodeKept
<1>. QED  BY <1>1, <1>9, SlotsSame, SlotsKeptInv

LEMMA QuietSlots ==
    ASSUME SlotInv, UNCHANGED <<all_clients, code, me, sock, used_fd, fds>>
    PROVE  SlotInv'
BY DEF SlotInv, Roles, Accounts, Opening, Sockets, Users, Marked

(* The master. *)
LEMMA OneOnce ==
    ASSUME NEW c, Tidy(c), NEW x \in Onces, NEW y \in Onces, x \in Kinds(c), y \in Kinds(c)
    PROVE  x = y
<1>1. PICK j \in DOMAIN c : c[j].do = x
  BY DEF Kinds
<1>2. PICK k \in DOMAIN c : c[k].do = y
  BY DEF Kinds
<1>3. j = k
  BY <1>1, <1>2 DEF Tidy
<1>. QED  BY <1>1, <1>2, <1>3

(* The connection it is busy with is one, and its process is not there yet. *)
LEMMA Latest ==
    ASSUME MpInv, {"client_init", "fork"} \cap Kinds(code[Master]) # {}
    PROVE  sock[Master] \in Conns /\ code[sock[Master]] = <<>>
<1>1. Pends(code[Master]) # {}
  BY DEF Kinds, Pends, Starts
<1>. QED  BY <1>1 DEF MpInv, StructInv

LEMMA NoKinds == Kinds(<<>>) = {} /\ Registered(<<>>) = {} /\ Tidy(<<>>)
<1>1. DOMAIN <<>> = {}
  OBVIOUS
<1>2. Kinds(<<>>) = {} /\ Registered(<<>>) = {}
  BY <1>1 DEF Kinds, Registered
<1>. QED  BY <1>1, <1>2 DEF Tidy

LEMMA CloseUnusedKeeps ==
    ASSUME MpInv, MpInv', SlotInv, close_unused_fd
    PROVE  SlotInv'
<1>. DEFINE unused == {i \in Slots : used_fd[i] > 0 /\ all_clients[i].fd = -1}
<1>1. /\ Alive(Master) /\ Now(Master).do = "close_unused_fd"
      /\ Continue(Master, <<>>) /\ UNCHANGED <<all_clients, me, sock>>
      /\ used_fd' = [i \in Slots |-> IF i \in unused THEN -1 ELSE used_fd[i]]
      /\ fds' = [fds EXCEPT ![Master] = @ \ {used_fd[i] : i \in unused}]
  BY DEF close_unused_fd, At, Now, Leave
<1>2. CodeKept
  <2>1. "close_unused_fd" \notin Main(Master)
    BY Sides DEF SideOps
  <2>2. Aside(Master, <<>>)
    BY AsideEmpty
  <2>3. code' = [code EXCEPT ![Master] = <<>> \o Tail(code[Master])]
    BY <1>1 DEF Continue
  <2>4. Now(Master).do \notin Main(Master) /\ Master \in Procs
    BY <1>1, <2>1, ProcsAre
  <2>. QED  BY <1>1, <2>2, <2>3, <2>4, CodeMoves, Zenon
<1>3. FilesKept
  <2>1. DOMAIN fds' = Procs /\ fds'[Master] = fds[Master] \ {used_fd[i] : i \in unused}
        /\ \A c \in Conns : fds'[c] = fds[c]
    BY <1>1, ProcsAre DEF SlotInv, Accounts
  <2>2. DOMAIN used_fd' = Slots /\ \A i \in Slots : used_fd'[i] \in {used_fd[i], -1}
    BY <1>1
  <2>3. ASSUME NEW x \in fds[Master] \ fds'[Master]
        PROVE  /\ \A i \in Slots : all_clients[i].fd # x
               /\ "client_init" \in Kinds(code[Master]) => x # sock[Master]
    <3>1. PICK i \in Slots : used_fd[i] > 0 /\ all_clients[i].fd = -1 /\ x = used_fd[i]
      BY <2>1, <2>3
    <3>2. \A j \in Slots : all_clients[j].fd # x
      <4>. SUFFICES ASSUME NEW j \in Slots, all_clients[j].fd = x PROVE FALSE
        OBVIOUS
      <4>1. i = j
        BY <3>1 DEF SlotInv, Sockets
      <4>. QED  BY <3>1, <4>1
    <3>. QED  BY <3>1, <3>2 DEF SlotInv, Opening
  <2>. HIDE DEF unused
  <2>. QED  BY <2>1, <2>2, <2>3 DEF FilesKept
<1>. QED  BY <1>1, <1>2, <1>3, SlotsSame, KeptInv

LEMMA AcceptKeeps ==
    ASSUME MpInv, MpInv', SlotInv, Accept
    PROVE  SlotInv'
<1>. DEFINE c == code[Master]
            y == Do("client_init")
            d == Section(y) \o c
            n == sock[Master] + 1
<1>1. /\ Alive(Master) /\ Now(Master).do = "accept" /\ sock[Master] < MaxConn
      /\ \E i \in Slots : ~all_clients[i].uid
      /\ code' = [code EXCEPT ![Master] = d]
      /\ sock' = [sock EXCEPT ![Master] = n]
      /\ fds' = [fds EXCEPT ![Master] = @ \cup {n}]
      /\ UNCHANGED <<all_clients, me, used_fd>>
  BY DEF Accept, At, Now
<1>2. /\ DOMAIN code = Procs /\ DOMAIN sock = Procs /\ DOMAIN fds = Procs
      /\ Master \in Procs /\ Conns \subseteq Procs /\ Master \notin Conns
      /\ sock[Master] \in 0..MaxConn /\ MaxConn \in Nat
  BY ProcsAre, Bounds DEF MpInv, StructInv, SlotInv, Accounts
<1>3. /\ IsSeq(c) /\ c # <<>> /\ Tidy(c) /\ c[1].do = "accept"
  BY <1>1, <1>2, ServerAt
<1>4. Kinds(c) = {"accept"} /\ Registered(c) = {}
  <2>1. Tail(c) = <<>>
    BY <1>3, TidyTail, Zenon DEF Lasts
  <2>2. Kinds(c) = {"accept"} \cup Kinds(Tail(c)) /\ Registered(c) = Registered(Tail(c))
    BY <1>3, KindsTail
  <2>. QED  BY <2>1, <2>2, NoKinds, Zenon
<1>. HIDE DEF c
<1>5. Tidy(d) /\ Kinds(d) = {"wait", "client_init", "accept"} /\ Registered(d) = {}
  <2>1. y.do = "client_init" /\ y.do \in Onces /\ y.do # "close_other" /\ y.do # "clear_slot"
        /\ "accept" \notin Onces
    BY DEF Do, Onces
  <2>2. Kinds(c) \cap Onces = {}
    BY <1>4, <2>1
  <2>. HIDE DEF y
  <2>3. Tidy(Section(y) \o c) /\ Kinds(Section(y) \o c) = {"wait", y.do} \cup Kinds(c)
        /\ Registered(Section(y) \o c) = Registered(c)
    BY <1>3, <2>1, <2>2, TidySection
  <2>. QED  BY <1>4, <2>1, <2>3
<1>. HIDE DEF d
<1>6. n \in Conns /\ n > sock[Master] /\ n # -1
      /\ (\A e \in Conns : (e > n => e > sock[Master]) /\ (sock[Master] > e => n > e))
      /\ (\A k \in -1..sock[Master] : k \in -1..n /\ k # n)
      /\ (\A k \in 1..sock[Master] : k \in 1..n /\ k # n)
  BY <1>1, <1>2, Bounds
<1>. HIDE DEF n
<1>7. /\ code'[Master] = d /\ \A q \in Conns : code'[q] = code[q]
      /\ fds'[Master] = fds[Master] \cup {n} /\ \A q \in Conns : fds'[q] = fds[q]
      /\ DOMAIN fds' = Procs /\ sock'[Master] = n
  BY <1>1, <1>2
<1>8. code[n] = <<>> /\ me[n] = -1
  BY <1>6 DEF MpInv, StructInv, SlotInv, Opening
<1>9. Roles'
  <2>1. {"wait", "client_init", "accept"} \cap (ServerOps \cup InOps) = {}
    BY DEF ServerOps, Owners, InOps
  <2>. QED  BY <1>2, <1>5, <1>7, <2>1 DEF SlotInv, Roles, Procs
<1>10. Accounts'
  BY <1>1, <1>6, <1>7 DEF SlotInv, Accounts
<1>11. Opening'
  <2>1. \A i \in Slots : all_clients[i].fd # n /\ used_fd[i] # n
    <3>. SUFFICES ASSUME NEW i \in Slots PROVE all_clients[i].fd # n /\ used_fd[i] # n
      OBVIOUS
    <3>1. used_fd[i] \in -1..sock[Master]
      BY DEF SlotInv, Accounts
    <3>2. all_clients[i].fd \in 1..sock[Master] \/ all_clients[i].fd = -1
      BY DEF SlotInv, Accounts
    <3>. QED  BY <1>6, <3>1, <3>2
  <2>2. \A e \in Conns : e > n => me[e] = -1
    BY <1>6 DEF SlotInv, Opening
  <2>. QED  BY <1>1, <1>5, <1>7, <1>8, <2>1, <2>2 DEF Opening
<1>12. Sockets'
  <2>1. "close_other" \notin Kinds(code'[n])
    BY <1>6, <1>7, <1>8, NoKinds
  <2>. QED  BY <1>1, <1>7, <2>1 DEF SlotInv, Sockets
<1>13. Users'
  <2>1. \A e \in Conns : Kinds(code'[e]) \cap Owners = Kinds(code[e]) \cap Owners
    BY <1>7
  <2>. QED  BY <1>1, <1>6, <1>7, <2>1 DEF SlotInv, Users
<1>14. Marked'
  BY <1>1 DEF SlotInv, Marked
<1>. QED  BY <1>9, <1>10, <1>11, <1>12, <1>13, <1>14 DEF SlotInv

(* While a slot is free, one is the first. *)
LEMMA FirstFree ==
    ASSUME MpInv, SlotInv, \E j \in Slots : ~all_clients[j].uid
    PROVE  \E j \in Slots : ~all_clients[j].uid /\ \A k \in 1..j-1 : all_clients[k].uid
<1>. DEFINE T == {j \in Slots : ~all_clients[j].uid}
<1>1. T \subseteq Nat /\ T # {}
  BY SlotIs
<1>2. PICK j \in T : \A k \in T : j <= k
  <2>. HIDE DEF T
  <2>. QED  BY <1>1, Least, Zenon
<1>3. ASSUME NEW k \in 1..j-1 PROVE all_clients[k].uid
  <2>1. MAX_CLIENTS \in Nat /\ j \in Slots
    BY MultiProcAssumption, Zenon
  <2>2. k \in Slots /\ ~(j <= k)
    BY <2>1 DEF Slots
  <2>. QED  BY <1>2, <2>2
<1>. QED  BY <1>2, <1>3

LEMMA ClientInitKeeps ==
    ASSUME MpInv, MpInv', SlotInv, client_init
    PROVE  SlotInv'
<1>. DEFINE c == code[Master]
            n == sock[Master]
            i == CHOOSE j \in Slots :
                     /\ ~all_clients[j].uid
                     /\ \A k \in 1..j-1 : all_clients[k].uid
            x == On("register", i)
            y == Do("fork")
            t == Tail(c)
            d == <<x, y>> \o t
<1>1. /\ Alive(Master) /\ Now(Master).do = "client_init"
      /\ code' = [code EXCEPT ![Master] = d]
      /\ UNCHANGED <<me, sock, used_fd, fds>>
      /\ all_clients' = [all_clients EXCEPT ![i].uid = TRUE,
                  ![i].nickname = "(no name)", ![i].fd = sock[Master],
                  ![i].sender_id = -1, ![i].clear_id = -1]
  BY Zenon DEF client_init, At, Now, Leave, Continue, local, Clients
<1>2. /\ DOMAIN code = Procs /\ Master \in Procs /\ Conns \subseteq Procs /\ Master \notin Conns
      /\ DOMAIN all_clients = Slots
  BY ProcsAre DEF MpInv, StructInv, SlotInv, Accounts
<1>3. /\ IsSeq(c) /\ c # <<>> /\ Tidy(c) /\ c[1].do = "client_init" /\ IsSeq(t)
      /\ Kinds(c) = {"client_init"} \cup Kinds(t)
  BY <1>1, <1>2, ServerAt, HeadTail, Zenon
<1>4. Tidy(t) /\ Kinds(t) \cap Onces = {} /\ Registered(t) = {}
  BY <1>3, TidyTail DEF Onces
<1>5. n \in Conns /\ code[n] = <<>> /\ me[n] = -1 /\ n # -1 /\ n \in fds[Master]
      /\ \A j \in Slots : all_clients[j].fd # n /\ used_fd[j] # n
  <2>1. "client_init" \in Kinds(c)
    BY <1>3
  <2>2. n \in Conns /\ code[n] = <<>>
    BY <2>1, Latest
  <2>3. n # -1
    BY <2>2, Bounds
  <2>. QED  BY <2>1, <2>2, <2>3 DEF SlotInv, Opening
<1>6. i \in Slots /\ ~all_clients[i].uid /\ all_clients[i].fd = -1
  <2>1. \E j \in Slots : ~all_clients[j].uid
    BY <1>3 DEF SlotInv, Opening
  <2>2. \E j \in Slots : ~all_clients[j].uid /\ \A k \in 1..j-1 : all_clients[k].uid
    BY <2>1, FirstFree
  <2>3. i \in Slots /\ ~all_clients[i].uid
    BY <2>2
  <2>. HIDE DEF i
  <2>. QED  BY <2>3 DEF SlotInv, Accounts
<1>. HIDE DEF i
<1>7. x.do = "register" /\ x.to = i /\ y.do = "fork"
  BY DEF On, Do
<1>. HIDE DEF x, y, c, t
<1>8. Tidy(d) /\ Kinds(d) = {"register", "fork"} \cup Kinds(t) /\ Registered(d) = {i}
  <2>. DEFINE s == <<x, y>>
  <2>1. IsSeq(s) /\ DOMAIN s = {1, 2} /\ s[1] = x /\ s[2] = y /\ Kinds(s) = {"register", "fork"}
    BY <1>7, Pair
  <2>. HIDE DEF s
  <2>2. Registered(s) = {i}
    BY <1>7, <2>1 DEF Registered
  <2>3. Registered(s \o t) = Registered(s) \cup Registered(t)
    BY <1>3, <2>1, RegisteredConcat
  <2>4. Kinds(s \o t) = Kinds(s) \cup Kinds(t)
    BY <1>3, <2>1, KindsConcat
  <2>5. "register" \notin Onces \cup Lasts /\ "fork" \notin Lasts
    BY DEF Onces, Lasts
  <2>6. Kinds(s) \cap Lasts = {} /\ "close_other" \notin Kinds(s) /\ {"clear_slot", "close"} \cap Kinds(s) = {}
    BY <2>1, <2>5
  <2>7. \A j, k \in DOMAIN s : s[j].do \in Onces /\ s[k].do \in Onces => j = k
    BY <1>7, <2>1, <2>5
  <2>8. \A k \in DOMAIN s : s[k].do = "register" => k + 1 \in DOMAIN s /\ s[k+1].do = "fork"
    <3>1. 1 + 1 = 2
      OBVIOUS
    <3>. QED  BY <1>7, <2>1, <3>1
  <2>9. Tidy(s \o t)
    BY <1>3, <1>4, <2>1, <2>6, <2>7, <2>8, TidyConcat
  <2>. QED  BY <1>4, <2>1, <2>2, <2>3, <2>4, <2>9 DEF s
<1>. HIDE DEF d
<1>9. code'[Master] = d /\ \A q \in Conns : code'[q] = code[q]
  BY <1>1, <1>2, Zenon
<1>10. /\ DOMAIN all_clients' = Slots
       /\ all_clients'[i].uid /\ all_clients'[i].fd = n
       /\ all_clients'[i].pid = all_clients[i].pid
       /\ all_clients'[i].message = all_clients[i].message
       /\ Fields \subseteq DOMAIN all_clients'[i]
       /\ \A j \in Slots : j # i => all_clients'[j] = all_clients[j]
  BY <1>1, <1>2, <1>6, SlotFacts, Zenon DEF Fields
<1>. HIDE DEF n
<1>11. Roles'
  <2>1. {"register", "fork"} \cap (ServerOps \cup InOps) = {}
    BY DEF ServerOps, Owners, InOps
  <2>2. Kinds(t) \cap (ServerOps \cup InOps) = {}
    BY <1>3 DEF SlotInv, Roles, c
  <2>3. Kinds(d) \cap (ServerOps \cup InOps) = {}
    BY <1>8, <2>1, <2>2
  <2>. QED  BY <1>2, <1>8, <1>9, <2>3 DEF SlotInv, Roles, Procs
<1>12. n = sock[Master] /\ n \in 1..n
  BY <1>5, Bounds DEF n
<1>13. Accounts'
  <2>1. ASSUME NEW j \in Slots
        PROVE  /\ Fields \subseteq DOMAIN all_clients'[j]
               /\ all_clients'[j].uid => all_clients'[j].fd \in 1..sock[Master]
               /\ ~all_clients'[j].uid => all_clients'[j].fd = -1
               /\ all_clients'[j].message \in {0} \cup Conns
    <3>1. CASE j = i
      BY <1>10, <1>12, <3>1 DEF SlotInv, Accounts
    <3>2. CASE j # i
      BY <1>10, <3>2 DEF SlotInv, Accounts
    <3>. QED  BY <3>1, <3>2
  <2>2. ASSUME NEW j \in Slots, NEW k \in Slots, all_clients'[j].uid, all_clients'[j].fd = all_clients'[k].fd
        PROVE  j = k
    <3>1. CASE j = i
      BY <1>5, <1>10, <2>2, <3>1
    <3>2. CASE j # i
      <4>1. k # i
        BY <1>5, <1>10, <2>2, <3>2
      <4>. QED  BY <1>10, <2>2, <3>2, <4>1 DEF SlotInv, Accounts
    <3>. QED  BY <3>1, <3>2
  <2>. QED  BY <1>1, <1>10, <2>1, <2>2, Zenon DEF SlotInv, Accounts
<1>14. Opening'
  <2>1. "client_init" \notin Kinds(d) /\ "register" # "client_init"
    BY <1>4, <1>8 DEF Onces
  <2>2. sock' = sock /\ me' = me /\ Registered(d) # {} /\ \A k \in Registered(d) : k = i
    BY <1>1, <1>8, Zenon
  <2>3. "client_init" \notin Kinds(code'[Master]) /\ Registered(code'[Master]) = Registered(d)
    BY <1>8, <1>9, <2>1
  <2>4. \A k \in Registered(d) : k \in Slots /\ all_clients'[k].fd = sock[Master]
    BY <1>6, <1>10, <1>12, <2>2
  <2>5. me[sock[Master]] = -1
    BY <1>5, <1>12
  <2>6. \A e \in Conns : e > sock[Master] => me[e] = -1
    BY DEF SlotInv, Opening
  <2>. QED  BY <2>2, <2>3, <2>4, <2>5, <2>6 DEF Opening
<1>15. Sockets'
  <2>1. "close_other" \notin Kinds(code'[n])
    BY <1>5, <1>9, NoKinds
  <2>2. \A j \in Slots : all_clients'[j].uid => all_clients'[j].fd \in fds[Master]
    BY <1>5, <1>10 DEF SlotInv, Sockets
  <2>3. \A j, k \in Slots : used_fd[j] > 0 /\ all_clients'[k].fd = used_fd[j] => j = k
    BY <1>5, <1>10 DEF SlotInv, Sockets
  <2>. QED  BY <1>1, <1>12, <2>1, <2>2, <2>3, Zenon DEF Sockets
<1>16. Users'
  <2>1. ASSUME NEW e \in Conns, Kinds(code[e]) \cap Owners # {}
        PROVE  me[e] \in Slots /\ all_clients'[me[e]].fd = e
    <3>1. me[e] \in Slots /\ all_clients[me[e]].fd = e /\ e # -1
      BY <2>1, Bounds DEF SlotInv, Users
    <3>2. me[e] # i
      BY <1>6, <3>1
    <3>. QED  BY <1>10, <3>1, <3>2
  <2>2. ASSUME "in" \notin Menu, NEW e \in Conns, Kinds(code[e]) \cap Owners = {}, me[e] # -1
        PROVE  sock[Master] > e \/ \A j \in Slots : all_clients'[j].fd # e
    <3>1. sock[Master] > e \/ \A j \in Slots : all_clients[j].fd # e
      BY <2>2 DEF SlotInv, Users
    <3>2. e # n
      BY <1>5, <2>2
    <3>. QED  BY <1>10, <3>1, <3>2
  <2>. QED  BY <1>1, <1>9, <2>1, <2>2, Zenon DEF Users
<1>17. Marked'
  <2>. SUFFICES ASSUME NEW j \in Slots, NEW e \in Conns
                PROVE  /\ all_clients'[j].fd = e => me[e] \in {j, -1}
                       /\ all_clients'[j].message = e => me[e] = j \/ (me[e] = -1 /\ all_clients'[j].fd = e)
                       /\ all_clients'[j].pid = e => me[e] = j
    BY <1>1, Zenon DEF Marked
  <2>1. CASE j # i
    BY <1>10, <2>1 DEF SlotInv, Marked
  <2>2. CASE j = i
    <3>1. e # -1
      BY Bounds
    <3>. QED  BY <1>5, <1>6, <1>10, <2>2, <3>1 DEF SlotInv, Marked
  <2>. QED  BY <2>1, <2>2
<1>. QED  BY <1>11, <1>13, <1>14, <1>15, <1>16, <1>17 DEF SlotInv

LEMMA RegisterKeeps ==
    ASSUME MpInv, MpInv', SlotInv, Register
    PROVE  SlotInv'
<1>. DEFINE c == code[Master]
            n == sock[Master]
            i == Now(Master).to
            d == Tail(c)
<1>1. /\ Alive(Master) /\ Now(Master).do = "register"
      /\ code' = [code EXCEPT ![Master] = <<>> \o d]
      /\ me' = [me EXCEPT ![Master] = i]
      /\ used_fd' = [used_fd EXCEPT ![i] = n]
      /\ UNCHANGED <<all_clients, sock, fds>>
  BY DEF Register, At, Now, Plain, Continue
<1>2. /\ DOMAIN code = Procs /\ Master \in Procs /\ Conns \subseteq Procs /\ Master \notin Conns
      /\ DOMAIN me = Procs /\ DOMAIN used_fd = Slots
  BY ProcsAre DEF MpInv, StructInv, SlotInv, Accounts
<1>3. /\ IsSeq(c) /\ c # <<>> /\ Tidy(c) /\ c[1].do = "register" /\ IsSeq(d) /\ 1 \in DOMAIN c
      /\ Kinds(c) = {"register"} \cup Kinds(d) /\ i = c[1].to
      /\ Registered(c) = {i} \cup Registered(d)
  BY <1>1, <1>2, ServerAt, HeadTail, KindsTail, Zenon
<1>4. Tidy(d) /\ "fork" \in Kinds(c) /\ "client_init" \notin Kinds(c)
  <2>1. "fork" \in Kinds(c)
    <3>1. 1 + 1 \in DOMAIN c /\ c[1 + 1].do = "fork"
      BY <1>3 DEF Tidy
    <3>. QED  BY <3>1 DEF Kinds
  <2>2. "client_init" \notin Kinds(c)
    BY <1>3, <2>1, OneOnce DEF Onces
  <2>. QED  BY <1>3, <2>1, <2>2, TidyTail
<1>5. <<>> \o d = d
  BY <1>3 DEF IsSeq
<1>. HIDE DEF d, i
<1>6. n \in Conns /\ n # Master /\ i \in Slots /\ all_clients[i].fd = n /\ all_clients[i].uid
      /\ me[n] = -1
  <2>1. n \in Conns
    BY <1>4, Latest
  <2>2. i \in Slots /\ all_clients[i].fd = n
    BY <1>3 DEF SlotInv, Opening
  <2>3. all_clients[i].uid
    BY <2>1, <2>2, Bounds DEF SlotInv, Accounts
  <2>. QED  BY <1>2, <1>4, <2>1, <2>2, <2>3 DEF SlotInv, Opening
<1>. HIDE DEF c
<1>7. /\ code'[Master] = d /\ \A q \in Conns : code'[q] = code[q]
      /\ me'[Master] = i /\ \A q \in Conns : me'[q] = me[q]
      /\ DOMAIN me' = Procs /\ DOMAIN used_fd' = Slots /\ used_fd'[i] = n
      /\ \A j \in Slots : j # i => used_fd'[j] = used_fd[j]
  BY <1>1, <1>2, <1>5, <1>6
<1>8. n = sock[Master] /\ n \in -1..n
  BY <1>6, Bounds
<1>. HIDE DEF n
<1>9. Roles'
  BY <1>2, <1>3, <1>4, <1>7 DEF SlotInv, Roles, Procs, c
<1>10. Accounts'
  <2>1. \A j \in Slots : used_fd'[j] \in -1..sock[Master]
    BY <1>7, <1>8 DEF SlotInv, Accounts
  <2>. QED  BY <1>1, <1>7, <2>1 DEF SlotInv, Accounts
<1>11. Opening'
  <2>1. "client_init" \notin Kinds(d) /\ Registered(d) \subseteq Registered(c)
    BY <1>3, <1>4
  <2>2. \A j \in Registered(d) : j \in Slots /\ all_clients[j].fd = sock[Master]
    BY <2>1 DEF SlotInv, Opening, c
  <2>3. me'[Master] \in Slots /\ all_clients[me'[Master]].fd = sock[Master]
    BY <1>6, <1>7, <1>8
  <2>4. me'[sock[Master]] = -1
    BY <1>6, <1>7, <1>8
  <2>5. \A e \in Conns : e > sock[Master] => me'[e] = -1
    BY <1>7 DEF SlotInv, Opening
  <2>6. all_clients' = all_clients /\ sock' = sock /\ code'[Master] = d
    BY <1>1, <1>7
  <2>. QED  BY <2>1, <2>2, <2>3, <2>4, <2>5, <2>6 DEF Opening
<1>12. Sockets'
  <2>1. \A j, k \in Slots : used_fd'[j] > 0 /\ all_clients[k].fd = used_fd'[j] => j = k
    <3>. SUFFICES ASSUME NEW j \in Slots, NEW k \in Slots,
                         used_fd'[j] > 0, all_clients[k].fd = used_fd'[j]
                  PROVE  j = k
      OBVIOUS
    <3>1. CASE j = i
      BY <1>6, <1>7, <3>1 DEF SlotInv, Accounts
    <3>2. CASE j # i
      BY <1>7, <3>2 DEF SlotInv, Sockets
    <3>. QED  BY <3>1, <3>2
  <2>2. code'[n] = code[n]
    BY <1>6, <1>7
  <2>. QED  BY <1>1, <1>8, <2>1, <2>2 DEF SlotInv, Sockets
<1>13. Users'
  BY <1>1, <1>7 DEF SlotInv, Users
<1>14. Marked'
  BY <1>1, <1>7 DEF SlotInv, Marked
<1>. QED  BY <1>9, <1>10, <1>11, <1>12, <1>13, <1>14 DEF SlotInv

LEMMA ForkKeeps ==
    ASSUME MpInv, MpInv', SlotInv, Fork
    PROVE  SlotInv'
<1>. DEFINE c == code[Master]
            n == sock[Master]
            i == me[Master]
            d == Tail(c)
<1>1. /\ Alive(Master) /\ Now(Master).do = "fork"
      /\ code' = [code EXCEPT ![Master] = d, ![n] = Child]
      /\ me' = [me EXCEPT ![n] = i]
      /\ sock' = [sock EXCEPT ![n] = n]
      /\ fds' = [fds EXCEPT ![n] = fds[Master]]
      /\ UNCHANGED <<all_clients, used_fd>>
  BY DEF Fork, At, Now
<1>2. /\ DOMAIN code = Procs /\ Master \in Procs /\ Conns \subseteq Procs /\ Master \notin Conns
      /\ DOMAIN me = Procs /\ DOMAIN fds = Procs /\ DOMAIN sock = Procs
  BY ProcsAre DEF MpInv, StructInv, SlotInv, Accounts
<1>3. /\ IsSeq(c) /\ c # <<>> /\ Tidy(c) /\ c[1].do = "fork"
      /\ Kinds(c) = {"fork"} \cup Kinds(d) /\ Registered(d) = Registered(c)
  BY <1>1, <1>2, ServerAt, KindsTail
<1>4. Tidy(d) /\ Kinds(d) \cap Onces = {} /\ Registered(d) = {}
  BY <1>3, TidyTail DEF Onces
<1>. HIDE DEF d
<1>5. n \in Conns /\ code[n] = <<>> /\ me[n] = -1 /\ n # Master /\ n \in Procs
      /\ i \in Slots /\ all_clients[i].fd = n /\ all_clients[i].uid
  <2>1. "fork" \in Kinds(c)
    BY <1>3
  <2>2. n \in Conns /\ code[n] = <<>>
    BY <2>1, Latest
  <2>3. me[n] = -1
    BY <2>1 DEF SlotInv, Opening
  <2>4. i \in Slots /\ all_clients[i].fd = n
    BY <1>3, <1>4, <2>1 DEF SlotInv, Opening
  <2>5. all_clients[i].uid
    BY <2>2, <2>4, Bounds DEF SlotInv, Accounts
  <2>. QED  BY <1>2, <2>2, <2>3, <2>4, <2>5
<1>. HIDE DEF c, n, i
<1>6. /\ code'[Master] = d /\ code'[n] = Child
      /\ \A q \in Conns : q # n => code'[q] = code[q] /\ me'[q] = me[q] /\ fds'[q] = fds[q]
      /\ me'[Master] = me[Master] /\ me'[n] = i
      /\ fds'[Master] = fds[Master] /\ fds'[n] = fds[Master]
      /\ sock'[Master] = n /\ DOMAIN me' = Procs /\ DOMAIN fds' = Procs
  BY <1>1, <1>2, <1>5 DEF n
<1>7. Tidy(Child) /\ Kinds(Child) \cap Main(n) = {"close_other", "prompt"}
  BY TidyChild
<1>8. \A j \in Slots : all_clients[j].fd = n => j = i
  BY <1>5 DEF SlotInv, Accounts
<1>9. n = sock[Master]
  BY DEF n
<1>10. Roles'
  <2>1. Kinds(Child) \cap MasterOps = {}
    <3>1. {"close_other", "prompt"} \cap MasterOps = {}
      BY DEF MasterOps
    <3>. QED  BY <1>7, <3>1, MainOps
  <2>2. "in" \notin Menu => Kinds(Child) \cap InOps = {}
    <3>1. {"close_other", "prompt"} \cap InOps = {}
      BY DEF InOps
    <3>2. "in" \notin Menu => InOps \subseteq Main(n)
      BY DEF Main
    <3>. QED  BY <1>7, <3>1, <3>2
  <2>3. Kinds(d) \cap (ServerOps \cup InOps) = {}
    BY <1>3 DEF SlotInv, Roles, c
  <2>4. ASSUME NEW p \in Procs PROVE Tidy(code'[p]) /\ ("in" \notin Menu => Kinds(code'[p]) \cap InOps = {})
    <3>1. CASE p = Master
      BY <1>4, <1>6, <2>3, <3>1
    <3>2. CASE p = n
      BY <1>6, <1>7, <2>2, <3>2
    <3>3. CASE p # Master /\ p # n
      BY <1>6, <3>3 DEF SlotInv, Roles, Procs
    <3>. QED  BY <3>1, <3>2, <3>3
  <2>5. ASSUME NEW e \in Conns PROVE Kinds(code'[e]) \cap MasterOps = {}
    <3>1. CASE e = n
      BY <1>6, <2>1, <3>1
    <3>2. CASE e # n
      BY <1>6, <3>2 DEF SlotInv, Roles
    <3>. QED  BY <3>1, <3>2
  <2>. QED  BY <1>6, <2>3, <2>4, <2>5 DEF Roles
<1>11. Accounts'
  BY <1>1, <1>6, <1>9 DEF SlotInv, Accounts
<1>12. Opening'
  <2>1. "client_init" \notin Kinds(d) /\ "fork" \notin Kinds(d)
    BY <1>4 DEF Onces
  <2>2. \A e \in Conns : e > n => e # n
    BY <1>5, Bounds
  <2>3. \A e \in Conns : e > n => me'[e] = -1
    BY <1>6, <1>9, <2>2 DEF SlotInv, Opening
  <2>. QED  BY <1>4, <1>6, <2>1, <2>3 DEF Opening
<1>13. Sockets'
  BY <1>1, <1>6 DEF SlotInv, Sockets
<1>14. Users'
  <2>1. ASSUME NEW e \in Conns, Kinds(code'[e]) \cap Owners # {}
        PROVE  me'[e] \in Slots /\ all_clients[me'[e]].fd = e
    <3>1. CASE e = n
      BY <1>5, <1>6, <3>1
    <3>2. CASE e # n
      BY <1>6, <2>1, <3>2 DEF SlotInv, Users
    <3>. QED  BY <3>1, <3>2
  <2>2. ASSUME "in" \notin Menu, NEW e \in Conns, Kinds(code'[e]) \cap Owners = {}, me'[e] # -1
        PROVE  n > e \/ \A j \in Slots : all_clients[j].fd # e
    <3>1. e # n
      BY <1>6, <1>7, <2>2 DEF Owners
    <3>. QED  BY <1>6, <1>9, <2>2, <3>1 DEF SlotInv, Users
  <2>3. all_clients' = all_clients /\ sock'[Master] = n
    BY <1>1, <1>6
  <2>. QED  BY <2>1, <2>2, <2>3 DEF Users
<1>15. Marked'
  <2>. SUFFICES ASSUME NEW j \in Slots, NEW e \in Conns
                PROVE  /\ all_clients[j].fd = e => me'[e] \in {j, -1}
                       /\ all_clients[j].message = e => me'[e] = j \/ (me'[e] = -1 /\ all_clients[j].fd = e)
                       /\ all_clients[j].pid = e => me'[e] = j
    BY <1>1 DEF Marked
  <2>1. CASE e # n
    BY <1>6, <2>1 DEF SlotInv, Marked
  <2>2. CASE e = n
    <3>1. j # -1 /\ j # me[n]
      BY <1>5, SlotIs
    <3>2. /\ all_clients[j].message = n => me[n] = j \/ (me[n] = -1 /\ all_clients[j].fd = n)
          /\ all_clients[j].pid = n => me[n] = j
      BY <1>5 DEF SlotInv, Marked
    <3>. QED  BY <1>6, <1>8, <2>2, <3>1, <3>2
  <2>. QED  BY <2>1, <2>2
<1>. QED  BY <1>10, <1>11, <1>12, <1>13, <1>14, <1>15 DEF SlotInv

LEMMA SlotsInit ==
    Init => SlotInv
<1>. SUFFICES ASSUME Init PROVE SlotInv
  OBVIOUS
<1>. DEFINE x == Do("accept")
            y == Do("prompt")
            n == Cardinality(Started)
<1>1. /\ code = [p \in Procs |-> IF p = Master THEN <<x>> ELSE IF p \in Started THEN <<y>> ELSE <<>>]
      /\ all_clients = [i \in Slots |-> IF i \in Started THEN Login(i) ELSE FreeSlot]
      /\ me = [p \in Procs |-> IF p = Master THEN n ELSE IF p \in Started THEN p ELSE -1]
      /\ fds = [p \in Procs |-> IF p = Master THEN Started ELSE IF p \in Started THEN {p} ELSE {}]
      /\ used_fd = [i \in Slots |-> IF i \in Started THEN i ELSE -1]
      /\ sock[Master] = n
  BY ProcsAre DEF Init
<1>2. x.do = "accept" /\ y.do = "prompt" /\ x.do \in Lasts /\ y.do \in Lasts
  BY DEF Do, Lasts
<1>. HIDE DEF x, y
<1>3. /\ Tidy(<<x>>) /\ Kinds(<<x>>) = {"accept"} /\ Registered(<<x>>) = {}
      /\ Tidy(<<y>>) /\ Kinds(<<y>>) = {"prompt"}
  BY <1>2, TidyOne
<1>4. n \in 0..MaxConn /\ Started = 1..n /\ n <= MAX_CLIENTS
  <2>1. MpInv
    BY InitHolds
  <2>2. sock[Master] \in 0..MaxConn
    BY <2>1 DEF MpInv, StructInv
  <2>. QED  BY <1>1, <2>2, MultiProcAssumption, Zenon
<1>. HIDE DEF n
<1>5. MAX_CLIENTS \in Nat /\ MaxConn \in Nat /\ Conns = 1..MaxConn /\ Slots = 1..MAX_CLIENTS
      /\ Master = 0 /\ Procs = 0..MaxConn
  BY Bounds, MultiProcAssumption, Zenon DEF Slots
<1>6. /\ Started \subseteq Conns /\ Started \subseteq Slots /\ 0 \notin Started /\ -1 \notin Conns
      /\ 0 \notin Conns /\ -1 \in -1..n /\ -1 \notin Slots
      /\ (\A i \in Started : i \in -1..n)
      /\ Conns \subseteq Procs /\ Master \in Procs
      /\ (\A e \in Conns : e > n => e \notin Started)
      /\ (\A i \in Slots : i \in Started => i \in Conns)
      /\ n # -1
  BY <1>4, <1>5
<1>7. /\ code[Master] = <<x>> /\ fds[Master] = Started
      /\ \A e \in Conns : /\ code[e] = IF e \in Started THEN <<y>> ELSE <<>>
                          /\ me[e] = IF e \in Started THEN e ELSE -1
  BY <1>1, <1>5, <1>6, Zenon
<1>8. \A i \in Started : /\ all_clients[i].uid = TRUE /\ all_clients[i].fd = i
                         /\ all_clients[i].pid = i /\ all_clients[i].message = 0
                         /\ Fields \subseteq DOMAIN all_clients[i] /\ used_fd[i] = i
  BY <1>1, <1>6, Zenon DEF Login, FreeSlot, Fields
<1>9. \A i \in Slots \ Started : /\ all_clients[i].uid = FALSE /\ all_clients[i].fd = -1
                                 /\ all_clients[i].pid = -1 /\ all_clients[i].message = 0
                                 /\ Fields \subseteq DOMAIN all_clients[i] /\ used_fd[i] = -1
  BY <1>1, Zenon DEF FreeSlot, Fields
<1>10. Roles
  <2>1. {"accept"} \cap (ServerOps \cup InOps) = {} /\ {"prompt"} \cap (MasterOps \cup InOps) = {}
    BY DEF ServerOps, Owners, InOps, MasterOps
  <2>. QED  BY <1>3, <1>6, <1>7, <2>1, NoKinds DEF Roles, Procs
<1>11. Accounts
  <2>1. DOMAIN all_clients = Slots /\ DOMAIN me = Procs /\ DOMAIN fds = Procs /\ DOMAIN used_fd = Slots
    BY <1>1
  <2>2. ASSUME NEW i \in Slots
        PROVE  /\ Fields \subseteq DOMAIN all_clients[i]
               /\ all_clients[i].uid => all_clients[i].fd \in 1..sock[Master]
               /\ ~all_clients[i].uid => all_clients[i].fd = -1
               /\ all_clients[i].message \in {0} \cup Conns
               /\ used_fd[i] \in -1..sock[Master]
    <3>1. CASE i \in Started
      <4>1. i \in 1..n /\ i \in -1..n
        BY <1>4, <1>6, <3>1
      <4>2. /\ all_clients[i].uid /\ all_clients[i].fd = i /\ all_clients[i].message = 0
            /\ Fields \subseteq DOMAIN all_clients[i] /\ used_fd[i] = i
        BY <1>8, <3>1
      <4>3. sock[Master] = n
        BY <1>1
      <4>. QED  BY <4>1, <4>2, <4>3
    <3>2. CASE i \notin Started
      BY <1>1, <1>6, <1>9, <3>2
    <3>. QED  BY <3>1, <3>2
  <2>3. ASSUME NEW i \in Slots, NEW j \in Slots, all_clients[i].uid, all_clients[i].fd = all_clients[j].fd
        PROVE  i = j
    <3>1. i \in Started /\ all_clients[i].fd = i
      BY <1>8, <1>9, <2>3
    <3>2. j \in Started
      <4>1. all_clients[j].fd # -1
        BY <1>6, <2>3, <3>1
      <4>. QED  BY <1>9, <4>1
    <3>. QED  BY <1>8, <2>3, <3>1, <3>2, Zenon
  <2>. QED  BY <2>1, <2>2, <2>3 DEF Accounts
<1>12. Opening
  <2>1. \A e \in Conns : e > sock[Master] => me[e] = -1
    BY <1>1, <1>6, <1>7, Zenon
  <2>. QED  BY <1>3, <1>7, <2>1 DEF Opening
<1>13. Sockets
  <2>1. \A i \in Slots : all_clients[i].uid => all_clients[i].fd \in fds[Master]
    BY <1>7, <1>8, <1>9
  <2>2. ASSUME NEW i \in Slots, NEW j \in Slots, used_fd[i] > 0, all_clients[j].fd = used_fd[i]
        PROVE  i = j
    <3>1. i \in Started /\ used_fd[i] = i
      BY <1>8, <1>9, <2>2
    <3>2. j \in Started
      <4>1. all_clients[j].fd # -1
        BY <1>6, <2>2, <3>1
      <4>. QED  BY <1>9, <4>1
    <3>3. all_clients[j].fd = j
      BY <1>8, <3>2
    <3>. QED  BY <2>2, <3>1, <3>3
  <2>3. "close_other" \notin Kinds(code[sock[Master]])
    <3>1. n = Master \/ n \in Conns
      BY <1>4, <1>5
    <3>2. sock[Master] = n
      BY <1>1
    <3>3. code[n] \in {<<x>>, <<y>>, <<>>}
      BY <1>7, <3>1
    <3>4. "close_other" \notin Kinds(code[n])
      BY <1>3, <3>3, NoKinds
    <3>. QED  BY <3>2, <3>4
  <2>. QED  BY <2>1, <2>2, <2>3 DEF Sockets
<1>14. Users
  <2>1. ASSUME NEW e \in Conns, Kinds(code[e]) \cap Owners # {}
        PROVE  me[e] \in Slots /\ all_clients[me[e]].fd = e
    <3>1. e \in Started
      BY <1>7, <2>1, NoKinds
    <3>. QED  BY <1>6, <1>7, <1>8, <3>1
  <2>2. ASSUME NEW e \in Conns, Kinds(code[e]) \cap Owners = {} PROVE me[e] = -1
    BY <1>3, <1>7, <2>2 DEF Owners
  <2>. QED  BY <2>1, <2>2 DEF Users
<1>15. Marked
  <2>. SUFFICES ASSUME NEW i \in Slots, NEW e \in Conns
                PROVE  /\ all_clients[i].fd = e => me[e] = i
                       /\ all_clients[i].message # e
                       /\ all_clients[i].pid = e => me[e] = i
    BY DEF Marked
  <2>1. CASE i \in Started
    BY <1>6, <1>7, <1>8, <2>1
  <2>2. CASE i \notin Started
    BY <1>6, <1>9, <2>2
  <2>. QED  BY <2>1, <2>2
<1>. QED  BY <1>10, <1>11, <1>12, <1>13, <1>14, <1>15 DEF SlotInv

LEMMA StepKeepsSlots ==
    ASSUME MpInv, MpInv', SlotInv, NEW p \in Procs, Step(p)
    PROVE  SlotInv'
<1>1. CASE \/ Wait(p) \/ Flip(p) \/ Return(p) \/ client_login(p) \/ Bcast(p) \/ Tell(p)
           \/ pass_message(p) \/ PeekBody(p) \/ MkFifo(p) \/ SemSignal(p) \/ StartJob(p)
           \/ OpenReadFails(p) \/ SetSentFd(p) \/ UnlinkFifo(p) \/ ResetSent(p) \/ user_exit_clear(p)
           \/ KillIf(p) \/ KillSlot(p) \/ name_exists(p) \/ Rename(p) \/ out_exists(p)
           \/ OutFifo(p) \/ SetSender(p) \/ KillUsr2(p) \/ KillAlrm(p) \/ user_pipe_handler(p)
           \/ user_pipe_clear(p) \/ ReadFds(p) \/ MarkClear(p)
           \/ in_exists(p) \/ InFifo(p) \/ TakeFd(p)
  BY <1>1, GoesKeeps
<1>2. CASE close_other_client_fd(p)
  BY <1>2, CloseOtherKeeps
<1>3. CASE CloseIn(p)
  BY <1>3, CloseInKeeps
<1>4. CASE ClearSlot(p)
  BY <1>4, ClearKeeps
<1>5. CASE CloseSock(p)
  BY <1>5, CloseKeeps
<1>6. CASE ExitProcess(p)
  BY <1>6, ExitProcessKeeps
<1>. QED  BY <1>1, <1>2, <1>3, <1>4, <1>5, <1>6 DEF Step

LEMMA NextKeepsSlots ==
    ASSUME MpInv, SlotInv, [Next]_vars
    PROVE  SlotInv'
<1>0. MpInv'
  BY NextKeeps
<1>1. CASE Accept
  BY <1>0, <1>1, AcceptKeeps
<1>2. CASE MasterStep
  BY <1>0, <1>2, ClientInitKeeps, RegisterKeeps, ForkKeeps, CloseUnusedKeeps DEF MasterStep
<1>3. ASSUME NEW p \in Procs, Step(p) PROVE SlotInv'
  BY <1>0, <1>3, StepKeepsSlots
<1>4. ASSUME NEW p \in Procs, NEW q \in Procs, OpenBoth(p, q) PROVE SlotInv'
  BY <1>0, <1>4, OpenKeeps
<1>5. ASSUME NEW p \in Procs, NEW s \in Signals, Deliver(p, s) PROVE SlotInv'
  BY <1>0, <1>5, DeliverKeeps
<1>6. ASSUME NEW p \in Procs, JobDone(p) PROVE SlotInv'
  BY <1>6, QuietSlots DEF JobDone, local
<1>7. ASSUME NEW p \in Procs, Type(p) PROVE SlotInv'
  BY <1>0, <1>7, TypeKeeps
<1>8. ASSUME NEW p \in Procs, Quit(p) PROVE SlotInv'
  BY <1>0, <1>8, QuitKeeps
<1>9. CASE UNCHANGED vars
  BY <1>9, QuietSlots DEF vars
<1>. QED  BY <1>1, <1>2, <1>3, <1>4, <1>5, <1>6, <1>7, <1>8, <1>9 DEF Next, System

LEMMA SlotInvHolds == Spec => [](MpInv /\ SlotInv)
<1>1. Init => MpInv /\ SlotInv
  BY InitHolds, SlotsInit
<1>2. MpInv /\ SlotInv /\ [Next]_vars => (MpInv /\ SlotInv)'
  BY NextKeeps, NextKeepsSlots
<1>. QED  BY <1>1, <1>2, PTL DEF Spec

(***************************************************************************)
(* A server that exits without giving its slot back leaves an account that *)
(* nobody can use again.  It happens only to a server that was overtaken:  *)
(* the master accepted another client before the new server had looked     *)
(* through the table, where it then found a socket it does not hold.       *)
(* This is for users who type no "<n": one whose descriptor is gone also   *)
(* makes its server exit at once (close_fd).                               *)
(***************************************************************************)
THEOREM OrphansOvertaken == "in" \notin Menu => (Spec => []OrphanWasOvertaken)
<1>. SUFFICES ASSUME "in" \notin Menu PROVE Spec => []OrphanWasOvertaken
  OBVIOUS
<1>1. MpInv /\ SlotInv => OrphanWasOvertaken
  <2>. SUFFICES ASSUME SlotInv, NEW c \in Conns, Gone(c),
                       NEW i \in Slots, all_clients[i].fd = c
                PROVE  sock[Master] > c
    BY DEF OrphanWasOvertaken
  <2>1. Kinds(code[c]) \cap Owners = {} /\ me[c] # -1
    BY NoKinds DEF Gone, Alive
  <2>. QED  BY <2>1 DEF SlotInv, Users
<1>. QED  BY <1>1, SlotInvHolds, PTL

(***************************************************************************)
(* A message lies in the slot it was meant for until it is printed, and    *)
(* slots change hands with it: a process can print what was meant for      *)
(* another client, but not as long as both it and that client are logged   *)
(* in.  For any commands, signals and clients, without any hypothesis: the *)
(* semaphore is not what this rests on.                                    *)
(***************************************************************************)
THEOREM MessagesAddressed == Spec => Addressed
<1>1. MpInv /\ SlotInv => \A p \in Conns :
          LET m == all_clients[me[p]].message
          IN  pass_message(p) /\ m \notin {0, p} => ~LoggedIn(p) \/ ~LoggedIn(m)
  <2>. SUFFICES ASSUME SlotInv, NEW p \in Conns,
                       all_clients[me[p]].message \notin {0, p},
                       LoggedIn(p), LoggedIn(all_clients[me[p]].message)
                PROVE  FALSE
    OBVIOUS
  <2>. DEFINE m == all_clients[me[p]].message
  <2>1. PICK i \in Slots : all_clients[i].pid = p
    BY DEF LoggedIn
  <2>2. PICK j \in Slots : all_clients[j].pid = m
    BY DEF LoggedIn
  <2>3. me[p] = i
    BY <2>1 DEF SlotInv, Marked
  <2>4. m \in Conns /\ all_clients[i].message = m
    BY <2>3 DEF SlotInv, Accounts
  <2>5. me[m] = j /\ j # -1
    BY <2>2, <2>4, SlotIs DEF SlotInv, Marked
  <2>6. me[m] = i
    BY <2>4, <2>5 DEF SlotInv, Marked
  <2>. QED  BY <2>1, <2>2, <2>5, <2>6
<1>2. MpInv /\ SlotInv => [\A p \in Conns :
          LET m == all_clients[me[p]].message
          IN  pass_message(p) /\ m \notin {0, p} => ~LoggedIn(p) \/ ~LoggedIn(m)]_vars
  BY <1>1
<1>. QED  BY <1>2, SlotInvHolds, PTL DEF Addressed
=============================================================================
