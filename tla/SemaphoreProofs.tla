-------------------------- MODULE SemaphoreProofs --------------------------
(***************************************************************************)
(* A theorem about np_project2's semaphore, for any number of processes    *)
(* that start, fork, open, close, remove and are killed in any order: its  *)
(* sections exclude each other as long as the process counter cannot reach *)
(* 0, that is, as long as MAX_CLIENTS is large enough for the processes.   *)
(***************************************************************************)
EXTENDS Semaphore, FiniteSetTheorems, TLAPS

(* Each process lowers the counter twice at most, in sem_create and in     *)
(* sem_open. *)
Capacity == 2 * (Cardinality(Procs) - 1) <= MAX_CLIENTS

Labels ==
    {"off", "semget", "lock", "asleep", "getval", "setval0", "setval1", "endcreate",
     "open", "opening", "idle", "wait", "inside", "close", "closeval"}
Creating == {"off", "semget", "lock", "asleep", "getval", "setval0", "setval1", "endcreate"}
Using == {"idle", "wait", "inside", "close", "closeval"}
Locking == {"getval", "setval0", "setval1", "endcreate", "closeval"}

TypeInv ==
    /\ key \in Nat /\ created \in Nat /\ starts \in Nat
    /\ val \in [Members -> Nat]
    /\ inited \in BOOLEAN
    /\ adj \in [Procs -> [Members -> Int]]
    /\ id \in [Procs -> Nat]
    /\ pc \in [Procs -> Labels]

(* The processes that have lowered the counter n times or more. *)
Lowered(n) == {p \in Procs : adj[p]["procs"] >= n}

(* The set in force.  Its counter is lowered by what its processes will    *)
(* give back, its semaphore is 0 while one of them is in a section, and    *)
(* its lock has one owner. *)
SetInv ==
    /\ key <= created
    /\ key = 0 => val = Zero /\ ~inited
    /\ val["lock"] \in {0, 1}
    /\ \A p, q \in Procs : adj[p]["lock"] = -1 /\ adj[q]["lock"] = -1 => p = q
    /\ ~inited => val["procs"] = 0
    /\ inited => val["procs"] + Cardinality(Lowered(1)) + Cardinality(Lowered(2))
                     >= MAX_CLIENTS + 1
    /\ inited => val["op"] \in {0, 1}
    /\ inited /\ val["op"] = 0 => \E p \in Procs : Inside(p)
    /\ \A p, q \in Procs : Inside(p) /\ Inside(q) => p = q

(* A process: only one that uses the set in force has changed it. *)
UndoOf(p) ==
    /\ id[p] <= created
    /\ ~Valid(p) \/ At(p, "off") => adj[p] = Zero

LockOf(p) ==
    /\ adj[p]["lock"] \in {0, -1}
    /\ val["lock"] = 0 => adj[p]["lock"] = 0
    /\ Valid(p) /\ pc[p] \in Locking => adj[p]["lock"] = -1

(* A set that is not initialised is not used. *)
InitedOf(p) ==
    /\ ~inited => adj[p]["op"] = 0 /\ adj[p]["procs"] = 0
    /\ Valid(p) /\ pc[p] \in Using \cup {"endcreate"} => inited
    /\ Valid(p) /\ pc[p] \in {"setval0", "setval1"} => ~inited
    /\ Valid(p) /\ At(p, "setval1") => val["op"] = 1

CountOf(p) ==
    /\ adj[p]["procs"] \in 0..2
    /\ pc[p] \in Creating => adj[p]["procs"] = 0
    /\ pc[p] \in {"open", "opening"} => adj[p]["procs"] <= 1
    /\ Valid(p) /\ At(p, "close") => adj[p]["procs"] >= 1

OpOf(p) ==
    /\ adj[p]["op"] = IF Inside(p) THEN 1 ELSE 0
    /\ Inside(p) => val["op"] = 0

ProcInv(p) == UndoOf(p) /\ LockOf(p) /\ InitedOf(p) /\ CountOf(p) /\ OpOf(p)

IInv == Capacity /\ TypeInv /\ SetInv /\ \A p \in Procs : ProcInv(p)

LEMMA InvImplies == IInv => Exclusion
<1>. SUFFICES ASSUME IInv PROVE Exclusion
  OBVIOUS
<1>. DEFINE S == {p \in Procs : Inside(p)}
<1>1. Cardinality(S) <= 1
  <2>1. CASE S = {}
    BY <2>1, FS_EmptySet
  <2>2. CASE S # {}
    <3>1. PICK p \in S : TRUE
      BY <2>2
    <3>2. S = {p}
      BY <3>1 DEF IInv, SetInv
    <3>. QED  BY <3>2, FS_Singleton
  <2>. QED  BY <2>1, <2>2
<1>. QED  BY <1>1 DEF IInv, SetInv, Exclusion

LEMMA MembersAre == Members = {"op", "procs", "lock"} /\ Zero \in [Members -> Nat]
                    /\ \A m \in Members : Zero[m] = 0
  BY DEF Members, Zero

(* What the semop calls add. *)
LEMMA OpValues ==
    /\ {op_lock, op_endcreate, op_open, op_close, op_unlock, op_op(-1), op_op(1)}
           \subseteq [Members -> Int]
    /\ op_lock["op"] = 0 /\ op_lock["procs"] = 0 /\ op_lock["lock"] = 1
    /\ op_endcreate["op"] = 0 /\ op_endcreate["procs"] = -1 /\ op_endcreate["lock"] = -1
    /\ op_open["op"] = 0 /\ op_open["procs"] = -1 /\ op_open["lock"] = 0
    /\ op_close["op"] = 0 /\ op_close["procs"] = 1 /\ op_close["lock"] = 1
    /\ op_unlock["op"] = 0 /\ op_unlock["procs"] = 0 /\ op_unlock["lock"] = -1
    /\ \A n \in {-1, 1} : op_op(n)["op"] = n /\ op_op(n)["procs"] = 0 /\ op_op(n)["lock"] = 0
<1>1. Zero = [m \in Members |-> 0] /\ Members = {"op", "procs", "lock"}
  BY DEF Zero, Members
<1>2. {op_lock, op_endcreate, op_open, op_close, op_unlock, op_op(-1), op_op(1)}
           \subseteq [Members -> Int]
  BY <1>1 DEF op_lock, op_endcreate, op_open, op_close, op_unlock, op_op
<1>. QED  BY <1>1, <1>2 DEF op_lock, op_endcreate, op_open, op_close, op_unlock, op_op

(* A count of the processes changes by the one that changed. *)
LEMMA LoweredStep ==
    ASSUME TypeInv, TypeInv', NEW p \in Procs, NEW n \in Nat,
           \A q \in Procs \ {p} : adj'[q]["procs"] = adj[q]["procs"]
    PROVE  /\ Cardinality(Lowered(n)) \in Nat /\ Cardinality(Lowered(n)') \in Nat
           /\ Cardinality(Lowered(n)') = Cardinality(Lowered(n))
                  + (IF adj'[p]["procs"] >= n THEN 1 ELSE 0)
                  - (IF adj[p]["procs"] >= n THEN 1 ELSE 0)
<1>. DEFINE B == Lowered(n) \ {p}
<1>1. IsFiniteSet(Lowered(n)) /\ IsFiniteSet(Lowered(n)') /\ IsFiniteSet(B)
  BY SemaphoreAssumption, FS_Subset DEF Lowered
<1>2. Lowered(n) = IF adj[p]["procs"] >= n THEN B \cup {p} ELSE B
  BY DEF Lowered
<1>3. Lowered(n)' = IF adj'[p]["procs"] >= n THEN B \cup {p} ELSE B
  BY DEF Lowered
<1>4. Cardinality(B \cup {p}) = Cardinality(B) + 1
  BY <1>1, FS_AddElement
<1>5. Cardinality(B) \in Nat
  BY <1>1, FS_CardinalityType
<1>. HIDE DEF B
<1>. QED  BY <1>2, <1>3, <1>4, <1>5

(* The counter is not 0 before all have lowered it: p has not. *)
LEMMA CounterLeft ==
    ASSUME IInv, inited, NEW p \in Procs, adj[p]["procs"] = 0
    PROVE  val["procs"] >= 1
<1>1. IsFiniteSet(Procs \ {p}) /\ Cardinality(Procs \ {p}) = Cardinality(Procs) - 1
      /\ Cardinality(Procs) \in Nat
  BY SemaphoreAssumption, FS_RemoveElement, FS_CardinalityType
<1>2. Lowered(1) \subseteq Procs \ {p} /\ Lowered(2) \subseteq Procs \ {p}
  BY DEF Lowered
<1>3. /\ Cardinality(Lowered(1)) <= Cardinality(Procs) - 1
      /\ Cardinality(Lowered(2)) <= Cardinality(Procs) - 1
      /\ Cardinality(Lowered(1)) \in Nat /\ Cardinality(Lowered(2)) \in Nat
  BY <1>1, <1>2, FS_Subset, FS_CardinalityType
<1>4. val["procs"] \in Nat
  BY MembersAre DEF IInv, TypeInv
<1>. QED  BY <1>1, <1>3, <1>4, SemaphoreAssumption DEF IInv, SetInv, Capacity

LEMMA InitInv == Capacity /\ Init => IInv
<1>. SUFFICES ASSUME Capacity, Init PROVE IInv
  OBVIOUS
<1>1. TypeInv
  <2>1. Zero \in [Members -> Nat] /\ Zero \in [Members -> Int]
    BY DEF Zero
  <2>. QED  BY <2>1 DEF Init, TypeInv, Labels
<1>2. \A p \in Procs : adj[p] = Zero /\ At(p, "off") /\ ~Valid(p) /\ ~Inside(p) /\ id[p] = 0
  BY DEF Init, At, Valid, Inside
<1>3. SetInv
  BY <1>2, MembersAre DEF Init, SetInv
<1>4. ASSUME NEW p \in Procs PROVE ProcInv(p)
  <2>1. UndoOf(p)
    BY <1>2 DEF Init, UndoOf
  <2>2. LockOf(p)
    BY <1>2, MembersAre DEF LockOf
  <2>3. InitedOf(p)
    BY <1>2, MembersAre DEF InitedOf
  <2>4. CountOf(p)
    BY <1>2, MembersAre DEF CountOf, At
  <2>5. OpOf(p)
    BY <1>2, MembersAre DEF OpOf
  <2>. QED  BY <2>1, <2>2, <2>3, <2>4, <2>5 DEF ProcInv
<1>. QED  BY <1>1, <1>3, <1>4 DEF IInv

----------------------------------------------------------------------------
(* Only p moves, and it alone uses another set or none. *)
Moves(p) ==
    /\ pc' \in [Procs -> Labels] /\ id' \in [Procs -> Nat] /\ starts' \in Nat
    /\ \A q \in Procs \ {p} : pc'[q] = pc[q] /\ id'[q] = id[q]

(* A step that leaves the set alone. *)
LEMMA QuietStep ==
    ASSUME IInv, NEW p \in Procs, Moves(p), UNCHANGED semset,
           ProcInv(p)', Inside(p)' <=> Inside(p)
    PROVE  IInv'
<1>1. UNCHANGED <<key, created, val, inited, adj>>
  BY DEF semset
<1>2. TypeInv'
  BY <1>1 DEF IInv, TypeInv, Moves
<1>3. \A q \in Procs : Inside(q)' <=> Inside(q)
  BY <1>1 DEF Moves, Inside, At, Valid
<1>4. \A n : Lowered(n)' = Lowered(n)
  BY <1>1 DEF Lowered
<1>5. SetInv'
  BY <1>1, <1>3, <1>4 DEF IInv, SetInv
<1>6. ASSUME NEW q \in Procs \ {p} PROVE ProcInv(q)'
  <2>1. pc'[q] = pc[q] /\ id'[q] = id[q] /\ (Valid(q)' <=> Valid(q))
    BY <1>1 DEF Moves, Valid
  <2>2. UndoOf(q)' /\ LockOf(q)'
    BY <1>1, <2>1 DEF IInv, ProcInv, UndoOf, LockOf, At
  <2>3. InitedOf(q)' /\ CountOf(q)' /\ OpOf(q)'
    BY <1>1, <1>3, <2>1 DEF IInv, ProcInv, InitedOf, CountOf, OpOf, At
  <2>. QED  BY <2>2, <2>3 DEF ProcInv
<1>. QED  BY <1>2, <1>5, <1>6 DEF IInv, Capacity

(* A step by which p adds to the set what it takes from its adjustment.    *)
LEMMA BalancedStep ==
    ASSUME IInv, NEW p \in Procs, Valid(p), Moves(p), TypeInv',
           UNCHANGED <<key, created, inited, id>>,
           \A q \in Procs \ {p} : adj'[q] = adj[q],
           \A m \in Members : val'[m] + adj'[p][m] = val[m] + adj[p][m],
           val'["lock"] <= 1, ProcInv(p)'
    PROVE  IInv'
<1>1. /\ \A m \in Members : val[m] \in Nat /\ val'[m] \in Nat
      /\ \A q \in Procs, m \in Members : adj[q][m] \in Int /\ adj'[q][m] \in Int
  BY DEF IInv, TypeInv
<1>2. \A q \in Procs : Valid(q)' <=> Valid(q)
  BY DEF Valid
<1>3. \A q \in Procs \ {p} : Inside(q)' <=> Inside(q)
  BY <1>2 DEF Moves, Inside, At
<1>4. "op" \in Members /\ "procs" \in Members /\ "lock" \in Members
  BY MembersAre
<1>5. \A q \in Procs : ProcInv(q)
  BY DEF IInv
<1>6. /\ adj[p]["op"] = (IF Inside(p) THEN 1 ELSE 0)
      /\ adj'[p]["op"] = (IF Inside(p)' THEN 1 ELSE 0)
      /\ Inside(p) => val["op"] = 0
      /\ Inside(p)' => val'["op"] = 0
  BY <1>5 DEF ProcInv, OpOf
<1>7. val'["op"] = val["op"] + adj[p]["op"] - adj'[p]["op"]
  BY <1>1, <1>4
<1>8. \A q \in Procs \ {p} : Inside(q) => val'["op"] = 0 /\ ~Inside(p)'
  <2>. SUFFICES ASSUME NEW q \in Procs \ {p}, Inside(q) PROVE val'["op"] = 0 /\ ~Inside(p)'
    OBVIOUS
  <2>1. ~Inside(p) /\ val["op"] = 0
    BY <1>5 DEF IInv, SetInv, ProcInv, OpOf
  <2>. QED  BY <1>1, <1>4, <1>6, <1>7, <2>1
<1>9. /\ adj[p]["lock"] \in {0, -1} /\ adj'[p]["lock"] \in {0, -1}
      /\ val["lock"] = 0 => adj[p]["lock"] = 0
      /\ val'["lock"] = 0 => adj'[p]["lock"] = 0
      /\ val'["lock"] = val["lock"] + adj[p]["lock"] - adj'[p]["lock"]
      /\ val["lock"] \in {0, 1} /\ val'["lock"] \in {0, 1}
  <2>1. /\ val["lock"] \in Nat /\ val'["lock"] \in Nat
        /\ adj[p]["lock"] \in Int /\ adj'[p]["lock"] \in Int
    BY <1>1, <1>4
  <2>2. val'["lock"] + adj'[p]["lock"] = val["lock"] + adj[p]["lock"]
    BY <1>4
  <2>3. val'["lock"] \in {0, 1}
    BY <2>1
  <2>4. val'["lock"] = val["lock"] + adj[p]["lock"] - adj'[p]["lock"]
    BY <2>1, <2>2
  <2>. QED  BY <1>5, <2>3, <2>4 DEF IInv, SetInv, ProcInv, LockOf
<1>10. \A q \in Procs \ {p} :
           adj[q]["lock"] = -1 => val'["lock"] = 1 /\ adj'[p]["lock"] = 0
  <2>. SUFFICES ASSUME NEW q \in Procs \ {p}, adj[q]["lock"] = -1
       PROVE val'["lock"] = 1 /\ adj'[p]["lock"] = 0
    OBVIOUS
  <2>1. val["lock"] # 0 /\ adj[p]["lock"] # -1
    BY <1>5 DEF IInv, SetInv, ProcInv, LockOf
  <2>. QED  BY <1>9, <2>1
<1>11. /\ adj[p]["procs"] \in 0..2 /\ adj'[p]["procs"] \in 0..2
       /\ val'["procs"] = val["procs"] + adj[p]["procs"] - adj'[p]["procs"]
       /\ ~inited => adj[p]["procs"] = 0 /\ adj'[p]["procs"] = 0
                     /\ adj[p]["op"] = 0 /\ adj'[p]["op"] = 0
  <2>1. val'["procs"] = val["procs"] + adj[p]["procs"] - adj'[p]["procs"]
    BY <1>1, <1>4
  <2>. QED  BY <1>5, <2>1 DEF ProcInv, CountOf, InitedOf
<1>12. SetInv'
  <2>1. key' <= created' /\ key' # 0
    BY DEF IInv, SetInv, Valid
  <2>2. \A q, r \in Procs : adj'[q]["lock"] = -1 /\ adj'[r]["lock"] = -1 => q = r
    <3>. SUFFICES ASSUME NEW q \in Procs, NEW r \in Procs,
                         adj'[q]["lock"] = -1, adj'[r]["lock"] = -1, q # r
         PROVE  FALSE
      OBVIOUS
    <3>1. CASE q = p \/ r = p
      BY <3>1, <1>10
    <3>2. CASE q # p /\ r # p
      BY <3>2 DEF IInv, SetInv
    <3>. QED  BY <3>1, <3>2
  <2>3. ~inited' => val'["procs"] = 0
    BY <1>1, <1>4, <1>11 DEF IInv, SetInv
  <2>4. inited' => val'["procs"] + Cardinality(Lowered(1)') + Cardinality(Lowered(2)')
                       >= MAX_CLIENTS + 1
    <3>. DEFINE L1 == Cardinality(Lowered(1))  M1 == Cardinality(Lowered(1)')
                L2 == Cardinality(Lowered(2))  M2 == Cardinality(Lowered(2)')
    <3>1. TypeInv /\ \A q \in Procs \ {p} : adj'[q]["procs"] = adj[q]["procs"]
      BY DEF IInv
    <3>2. /\ L1 \in Nat /\ M1 \in Nat
          /\ M1 = L1 + (IF adj'[p]["procs"] >= 1 THEN 1 ELSE 0)
                     - (IF adj[p]["procs"] >= 1 THEN 1 ELSE 0)
      BY <3>1, LoweredStep
    <3>3. /\ L2 \in Nat /\ M2 \in Nat
          /\ M2 = L2 + (IF adj'[p]["procs"] >= 2 THEN 1 ELSE 0)
                     - (IF adj[p]["procs"] >= 2 THEN 1 ELSE 0)
      BY <3>1, LoweredStep
    <3>4. inited' => val["procs"] + L1 + L2 >= MAX_CLIENTS + 1
      BY DEF IInv, SetInv
    <3>. HIDE DEF L1, L2, M1, M2
    <3>5. inited' => val'["procs"] + M1 + M2 >= MAX_CLIENTS + 1
      BY <1>1, <1>4, <1>11, <3>2, <3>3, <3>4, SemaphoreAssumption
    <3>. QED  BY <3>5 DEF M1, M2
  <2>5. inited' => val'["op"] \in {0, 1}
    <3>1. inited' => val["op"] \in {0, 1}
      BY DEF IInv, SetInv
    <3>. QED  BY <1>1, <1>4, <1>6, <1>7, <3>1
  <2>6. inited' /\ val'["op"] = 0 => \E q \in Procs : Inside(q)'
    <3>. SUFFICES ASSUME inited', val'["op"] = 0, ~Inside(p)' PROVE \E q \in Procs : Inside(q)'
      OBVIOUS
    <3>1. val["op"] = 0 /\ ~Inside(p)
      BY <1>1, <1>4, <1>6, <1>7
    <3>2. PICK q \in Procs : Inside(q)
      BY <3>1 DEF IInv, SetInv
    <3>. QED  BY <1>3, <3>1, <3>2
  <2>7. \A q, r \in Procs : Inside(q)' /\ Inside(r)' => q = r
    <3>. SUFFICES ASSUME NEW q \in Procs, NEW r \in Procs, Inside(q)', Inside(r)', q # r
         PROVE  FALSE
      OBVIOUS
    <3>1. CASE q = p \/ r = p
      BY <3>1, <1>3, <1>8
    <3>2. CASE q # p /\ r # p
      BY <3>2, <1>3 DEF IInv, SetInv
    <3>. QED  BY <3>1, <3>2
  <2>. QED  BY <1>9, <2>1, <2>2, <2>3, <2>4, <2>5, <2>6, <2>7 DEF SetInv
<1>13. ASSUME NEW q \in Procs \ {p} PROVE ProcInv(q)'
  <2>1. pc'[q] = pc[q] /\ id'[q] = id[q] /\ adj'[q] = adj[q] /\ ProcInv(q)
    BY <1>5 DEF Moves
  <2>2. UndoOf(q)' /\ CountOf(q)'
    BY <1>2, <2>1 DEF ProcInv, UndoOf, CountOf, At
  <2>3. LockOf(q)'
    BY <1>2, <1>10, <2>1 DEF ProcInv, LockOf
  <2>4. InitedOf(q)'
    BY <1>1, <1>2, <1>4, <1>7, <1>11, <2>1 DEF ProcInv, InitedOf, At
  <2>5. OpOf(q)'
    BY <1>3, <1>8, <2>1 DEF ProcInv, OpOf
  <2>. QED  BY <2>2, <2>3, <2>4, <2>5 DEF ProcInv
<1>. QED  BY <1>12, <1>13 DEF IInv, Capacity
----------------------------------------------------------------------------
LEMMA GoesTo ==
    ASSUME TypeInv, NEW p \in Procs, NEW l \in Labels, Goto(p, l), UNCHANGED id, starts' \in Nat
    PROVE  /\ Moves(p) /\ pc'[p] = l
           /\ key' = key => (Valid(p)' <=> Valid(p))
  BY DEF TypeInv, Goto, Moves, Valid

(* p goes on to l and leaves the set alone.  A process that does not use   *)
(* the set in force may go anywhere. *)
LEMMA QuietGoto ==
    ASSUME IInv, NEW p \in Procs, NEW l \in Labels,
           Goto(p, l), UNCHANGED <<semset, id>>, starts' \in Nat,
           Valid(p) =>
               /\ l \notin {"off", "setval1", "inside"} /\ ~At(p, "inside")
               /\ l \in Locking => adj[p]["lock"] = -1
               /\ l \in Using \cup {"endcreate"} => inited
               /\ l = "setval0" => ~inited
               /\ l \in Creating => adj[p]["procs"] = 0
               /\ l \in {"open", "opening"} => adj[p]["procs"] <= 1
               /\ l = "close" => adj[p]["procs"] >= 1
    PROVE  IInv'
<1>1. TypeInv /\ ProcInv(p)
  BY DEF IInv
<1>2. Moves(p) /\ pc'[p] = l
  BY <1>1, GoesTo
<1>3. UNCHANGED <<key, created, val, inited, adj, id>> /\ (Valid(p)' <=> Valid(p))
  BY DEF semset, Valid
<1>4. Inside(p)' <=> Inside(p)
  BY <1>2, <1>3 DEF Inside, At
<1>5. ~Valid(p) => adj[p]["op"] = 0 /\ adj[p]["procs"] = 0 /\ adj[p]["lock"] = 0
  BY <1>1, MembersAre DEF ProcInv, UndoOf
<1>6. UndoOf(p)'
  BY <1>1, <1>2, <1>3 DEF ProcInv, UndoOf, At
<1>7. LockOf(p)'
  BY <1>1, <1>2, <1>3 DEF ProcInv, LockOf
<1>8. InitedOf(p)'
  BY <1>1, <1>2, <1>3 DEF ProcInv, InitedOf, At
<1>9. CountOf(p)'
  BY <1>1, <1>2, <1>3, <1>5 DEF ProcInv, CountOf, At
<1>10. OpOf(p)'
  BY <1>1, <1>3, <1>4 DEF ProcInv, OpOf
<1>11. UNCHANGED semset
  OBVIOUS
<1>. QED  BY <1>2, <1>4, <1>6, <1>7, <1>8, <1>9, <1>10, <1>11, QuietStep DEF ProcInv

(* semop on the set in force.                                              *)
LEMMA SemopFacts ==
    ASSUME TypeInv, NEW p \in Procs, NEW n \in [Members -> Int], Semop(p, n)
    PROVE  /\ val' \in [Members -> Nat] /\ adj' \in [Procs -> [Members -> Int]]
           /\ \A m \in Members : val'[m] = val[m] + n[m] /\ adj'[p][m] = adj[p][m] - n[m]
           /\ \A q \in Procs \ {p} : adj'[q] = adj[q]
           /\ UNCHANGED <<key, created, inited>>
<1>1. \A m \in Members : val[m] \in Nat /\ n[m] \in Int /\ val[m] + n[m] >= 0 /\ adj[p][m] \in Int
  BY DEF TypeInv, Semop
<1>2. val' = [m \in Members |-> val[m] + n[m]]
  BY DEF Semop
<1>3. adj' = [adj EXCEPT ![p] = [m \in Members |-> adj[p][m] - n[m]]]
  BY DEF Semop
<1>4. [m \in Members |-> adj[p][m] - n[m]] \in [Members -> Int]
  BY <1>1
<1>5. adj' \in [Procs -> [Members -> Int]]
  BY <1>3, <1>4 DEF TypeInv
<1>. QED  BY <1>1, <1>2, <1>3, <1>5 DEF TypeInv, Semop

LEMMA SemopStep ==
    ASSUME IInv, NEW p \in Procs, NEW l \in Labels, NEW n \in [Members -> Int],
           Valid(p), Semop(p, n), Goto(p, l), UNCHANGED <<id, starts>>, l # "off",
           val["lock"] + n["lock"] <= 1,
           adj[p]["lock"] - n["lock"] \in {0, -1},
           val["lock"] + n["lock"] = 0 => adj[p]["lock"] = n["lock"],
           l \in Locking => adj[p]["lock"] - n["lock"] = -1,
           l \in Using \cup {"endcreate"} => inited,
           l \notin {"setval0", "setval1"},
           ~inited => n["procs"] = 0 /\ n["op"] = 0,
           adj[p]["procs"] - n["procs"] \in 0..2,
           l \in Creating => adj[p]["procs"] = n["procs"],
           l \in {"open", "opening"} => adj[p]["procs"] - n["procs"] <= 1,
           l # "close",
           adj[p]["op"] - n["op"] = (IF l = "inside" THEN 1 ELSE 0),
           l = "inside" => val["op"] + n["op"] = 0
    PROVE  IInv'
<1>1. TypeInv /\ ProcInv(p) /\ starts' \in Nat
  BY DEF IInv, TypeInv
<1>2. /\ val' \in [Members -> Nat] /\ adj' \in [Procs -> [Members -> Int]]
      /\ \A m \in Members : val'[m] = val[m] + n[m] /\ adj'[p][m] = adj[p][m] - n[m]
      /\ \A q \in Procs \ {p} : adj'[q] = adj[q]
      /\ UNCHANGED <<key, created, inited>>
  BY <1>1, SemopFacts
<1>3. Moves(p) /\ pc'[p] = l /\ Valid(p)'
  BY <1>1, <1>2, GoesTo
<1>4. /\ val'["op"] = val["op"] + n["op"] /\ adj'[p]["op"] = adj[p]["op"] - n["op"]
      /\ val'["lock"] = val["lock"] + n["lock"] /\ adj'[p]["lock"] = adj[p]["lock"] - n["lock"]
      /\ adj'[p]["procs"] = adj[p]["procs"] - n["procs"]
      /\ adj[p]["lock"] \in Int /\ n["lock"] \in Int /\ adj[p]["procs"] \in Int
      /\ n["procs"] \in Int /\ adj[p]["op"] \in Int /\ n["op"] \in Int
  BY <1>1, <1>2, MembersAre DEF TypeInv
<1>5. TypeInv'
  BY <1>1, <1>2, <1>3 DEF TypeInv, Moves
<1>6. \A m \in Members : val'[m] + adj'[p][m] = val[m] + adj[p][m]
  <2>. SUFFICES ASSUME NEW m \in Members PROVE val'[m] + adj'[p][m] = val[m] + adj[p][m]
    OBVIOUS
  <2>1. val[m] \in Int /\ n[m] \in Int /\ adj[p][m] \in Int
    BY <1>1 DEF TypeInv
  <2>. QED  BY <1>2, <2>1
<1>7. UndoOf(p)' /\ LockOf(p)'
  BY <1>1, <1>2, <1>3, <1>4 DEF ProcInv, UndoOf, LockOf, At
<1>8. InitedOf(p)'
  BY <1>1, <1>2, <1>3, <1>4 DEF ProcInv, InitedOf, At
<1>9. CountOf(p)'
  BY <1>1, <1>2, <1>3, <1>4 DEF ProcInv, CountOf, At
<1>10. OpOf(p)'
  BY <1>1, <1>2, <1>3, <1>4 DEF ProcInv, OpOf, Inside, At
<1>11. val'["lock"] <= 1 /\ UNCHANGED <<key, created, inited, id>>
  BY <1>2, <1>4
<1>. QED  BY <1>2, <1>3, <1>5, <1>6, <1>7, <1>8, <1>9, <1>10, <1>11, BalancedStep DEF ProcInv

(* semctl IPC_RMID.                                                        *)
LEMMA RemoveStep ==
    ASSUME IInv, NEW p \in Procs, Moves(p), Remove, UNCHANGED id
    PROVE  IInv'
<1>1. /\ key' = 0 /\ val' = Zero /\ inited' = FALSE /\ created' = created
      /\ \A q \in Procs : adj'[q] = Zero
  BY DEF Remove
<1>2. \A q \in Procs : ~Valid(q)' /\ ~Inside(q)'
  BY <1>1 DEF Valid, Inside
<1>3. TypeInv'
  <2>1. Zero \in [Members -> Nat] /\ Zero \in [Members -> Int]
    BY DEF Zero
  <2>2. adj' \in [Procs -> [Members -> Int]]
    BY <2>1 DEF Remove
  <2>. QED  BY <1>1, <2>1, <2>2 DEF IInv, TypeInv, Moves
<1>4. SetInv'
  BY <1>1, <1>2, MembersAre DEF IInv, TypeInv, SetInv
<1>5. ASSUME NEW q \in Procs PROVE ProcInv(q)'
  <2>1. id'[q] <= created'
    BY <1>1 DEF IInv, ProcInv, UndoOf
  <2>2. UndoOf(q)' /\ LockOf(q)' /\ InitedOf(q)'
    BY <1>1, <1>2, <2>1, MembersAre DEF UndoOf, LockOf, InitedOf
  <2>3. CountOf(q)' /\ OpOf(q)'
    BY <1>1, <1>2, MembersAre DEF CountOf, OpOf
  <2>. QED  BY <2>2, <2>3 DEF ProcInv
<1>. QED  BY <1>3, <1>4, <1>5 DEF IInv, Capacity

(* The end of a process that leaves the set in place.                      *)
LEMMA EndsStep ==
    ASSUME IInv, NEW p \in Procs, Ends(p)
    PROVE  IInv'
<1>1. TypeInv /\ ProcInv(p) /\ "off" \in Labels /\ starts' \in Nat
  BY DEF IInv, TypeInv, Labels, Ends
<1>2. Moves(p) /\ pc'[p] = "off" /\ (Valid(p)' <=> Valid(p))
  BY <1>1, GoesTo DEF Ends
<1>3. \A m \in Members : val[m] + adj[p][m] >= 0 /\ val[m] \in Nat /\ adj[p][m] \in Int
  <2>1. /\ val["op"] + adj[p]["op"] >= 0 /\ val["procs"] + adj[p]["procs"] >= 0
        /\ val["lock"] + adj[p]["lock"] >= 0
    <3>1. val["op"] \in Nat /\ val["procs"] \in Nat /\ val["lock"] \in Nat
      BY <1>1, MembersAre DEF TypeInv
    <3>2. adj[p]["op"] \in {0, 1} /\ adj[p]["procs"] \in 0..2
      BY <1>1 DEF ProcInv, OpOf, CountOf
    <3>3. adj[p]["lock"] = 0 \/ (adj[p]["lock"] = -1 /\ val["lock"] # 0)
      BY <1>1 DEF ProcInv, LockOf
    <3>. QED  BY <3>1, <3>2, <3>3
  <2>. QED  BY <1>1, <2>1 DEF TypeInv, Members
<1>4. val' = [m \in Members |-> val[m] + adj[p][m]]
  BY <1>3 DEF Ends, Undo
<1>5. /\ adj' = [adj EXCEPT ![p] = Zero] /\ UNCHANGED <<key, created, inited, id, starts>>
  BY DEF Ends
<1>6. adj'[p] = Zero /\ adj'[p]["op"] = 0 /\ adj'[p]["procs"] = 0 /\ adj'[p]["lock"] = 0
  BY <1>1, <1>5, MembersAre DEF TypeInv
<1>7. TypeInv'
  <2>1. val' \in [Members -> Nat]
    BY <1>3, <1>4
  <2>2. Zero \in [Members -> Int]
    BY DEF Zero
  <2>. QED  BY <1>1, <1>2, <1>5, <2>1, <2>2 DEF TypeInv, Moves
<1>8. ProcInv(p)'
  BY <1>1, <1>2, <1>5, <1>6 DEF ProcInv, UndoOf, LockOf, InitedOf, CountOf, OpOf, Inside, At,
     Locking, Using
<1>9. CASE Valid(p)
  <2>1. \A m \in Members : val'[m] + adj'[p][m] = val[m] + adj[p][m]
    BY <1>3, <1>4, <1>6, MembersAre
  <2>2. val'["lock"] <= 1
    <3>1. val'["lock"] = val["lock"] + adj[p]["lock"]
      BY <1>4, MembersAre
    <3>. QED  BY <1>1, <3>1 DEF IInv, SetInv, ProcInv, LockOf
  <2>3. \A q \in Procs \ {p} : adj'[q] = adj[q]
    BY <1>1, <1>5 DEF TypeInv
  <2>. QED  BY <1>2, <1>5, <1>7, <1>8, <1>9, <2>1, <2>2, <2>3, BalancedStep
<1>10. CASE ~Valid(p)
  <2>1. adj[p] = Zero
    BY <1>1, <1>10 DEF ProcInv, UndoOf
  <2>2. adj' = adj
    BY <1>1, <1>5, <2>1 DEF TypeInv
  <2>3. \A m \in Members : val'[m] = val[m]
    BY <1>3, <1>4, <2>1, MembersAre
  <2>4. val' = val
    BY <1>1, <1>7, <2>3 DEF TypeInv
  <2>5. UNCHANGED semset /\ ~Inside(p) /\ ~Inside(p)'
    BY <1>2, <1>5, <1>10, <2>2, <2>4 DEF semset, Inside
  <2>. QED  BY <1>2, <1>8, <2>5, QuietStep
<1>. QED  BY <1>9, <1>10
----------------------------------------------------------------------------
(* What the invariant says of a process before it moves.                   *)
LEMMA Before ==
    ASSUME IInv, NEW p \in Procs
    PROVE  /\ TypeInv /\ starts \in Nat
           /\ UndoOf(p) /\ LockOf(p) /\ InitedOf(p) /\ CountOf(p) /\ OpOf(p)
           /\ val["op"] \in Nat /\ val["procs"] \in Nat /\ val["lock"] \in {0, 1}
           /\ adj[p]["op"] \in Int /\ adj[p]["procs"] \in Int /\ adj[p]["lock"] \in Int
  BY MembersAre DEF IInv, TypeInv, SetInv, ProcInv

LEMMA Creates ==
    ASSUME IInv, NEW p \in Procs, Semget(p), key = 0
    PROVE  IInv'
<1>1. TypeInv /\ SetInv /\ \A q \in Procs : ProcInv(q) /\ ~Valid(q)
  BY DEF IInv, Valid
<1>2. /\ At(p, "semget") /\ pc' = [pc EXCEPT ![p] = "lock"]
      /\ key' = created + 1 /\ created' = created + 1
      /\ id' = [id EXCEPT ![p] = created + 1]
      /\ UNCHANGED <<val, inited, adj, starts>>
  BY DEF Semget, Goto
<1>3. TypeInv'
  BY <1>1, <1>2 DEF TypeInv, Labels
<1>4. \A q \in Procs : adj[q] = Zero /\ adj'[q] = Zero
  BY <1>1, <1>2 DEF ProcInv, UndoOf
<1>5. val = Zero /\ ~inited /\ created \in Nat
  BY <1>1 DEF SetInv, TypeInv
<1>6. pc'[p] = "lock" /\ id'[p] = created + 1
      /\ \A q \in Procs \ {p} : ~Valid(q)' /\ id'[q] = id[q] /\ id[q] \in Nat /\ id[q] <= created
  BY <1>1, <1>2, <1>5 DEF TypeInv, Valid, ProcInv, UndoOf
<1>7. \A q \in Procs : ~Inside(q)'
  BY <1>6 DEF Inside, At
<1>8. SetInv'
  BY <1>2, <1>4, <1>5, <1>7, MembersAre DEF SetInv
<1>9. ASSUME NEW q \in Procs PROVE ProcInv(q)'
  <2>1. UndoOf(q)'
    BY <1>2, <1>4, <1>5, <1>6 DEF UndoOf
  <2>2. LockOf(q)' /\ InitedOf(q)'
    BY <1>2, <1>4, <1>5, <1>6, MembersAre DEF LockOf, InitedOf, Locking, Using, At
  <2>3. CountOf(q)' /\ OpOf(q)'
    BY <1>4, <1>6, <1>7, MembersAre DEF CountOf, OpOf, At
  <2>. QED  BY <2>1, <2>2, <2>3 DEF ProcInv
<1>. QED  BY <1>3, <1>8, <1>9 DEF IInv, Capacity

(* p takes the set in force, which another may have created: it has        *)
(* nothing to give back, or uses that set already. *)
LEMMA Takes ==
    ASSUME IInv, NEW p \in Procs, key # 0, NEW l \in {"lock", "opening"},
           l = "lock" => At(p, "semget"), l = "opening" => At(p, "open"),
           id' = [id EXCEPT ![p] = key], Goto(p, l), UNCHANGED <<semset, starts>>
    PROVE  IInv'
<1>1. TypeInv /\ ProcInv(p) /\ key <= created
  BY DEF IInv, SetInv
<1>2. Moves(p) /\ pc'[p] = l /\ id'[p] = key
  BY <1>1 DEF TypeInv, Moves, Goto, Labels
<1>3. UNCHANGED <<key, created, val, inited, adj>>
  BY DEF semset
<1>4. Valid(p)' /\ ~Inside(p)' /\ ~Inside(p)
  BY <1>2, <1>3 DEF Valid, Inside, At
<1>5. UndoOf(p)' /\ LockOf(p)' /\ InitedOf(p)'
  BY <1>1, <1>2, <1>3, <1>4 DEF ProcInv, UndoOf, LockOf, InitedOf, Locking, Using, At
<1>6. CountOf(p)' /\ OpOf(p)'
  BY <1>1, <1>2, <1>3, <1>4 DEF ProcInv, CountOf, OpOf, Creating, At
<1>. QED  BY <1>2, <1>4, <1>5, <1>6, QuietStep DEF ProcInv

LEMMA SemgetKeepsInv ==
    ASSUME IInv, NEW p \in Procs, Semget(p)
    PROVE  IInv'
<1>1. CASE key = 0
  BY <1>1, Creates
<1>2. CASE key # 0
  BY <1>2, Takes DEF Semget
<1>. QED  BY <1>1, <1>2

LEMMA ForkKeepsInv ==
    ASSUME IInv, NEW p \in Procs, NEW c \in Procs, Fork(p, c)
    PROVE  IInv'
<1>1. TypeInv /\ ProcInv(p) /\ ProcInv(c)
  BY DEF IInv
<1>2. /\ At(p, "idle") /\ At(c, "off") /\ starts' = starts + 1
      /\ pc' = [pc EXCEPT ![c] = "idle"] /\ id' = [id EXCEPT ![c] = id[p]]
      /\ UNCHANGED <<key, created, val, inited, adj>> /\ UNCHANGED semset
  BY DEF Fork, semset
<1>3. Moves(c) /\ pc'[c] = "idle" /\ id'[c] = id[p]
  BY <1>1, <1>2 DEF TypeInv, Moves, Labels
<1>4. (Valid(c)' <=> Valid(p)) /\ ~Inside(c)' /\ ~Inside(c)
  BY <1>2, <1>3 DEF Valid, Inside, At
<1>5. adj[c] = Zero /\ adj[c]["op"] = 0 /\ adj[c]["procs"] = 0 /\ adj[c]["lock"] = 0
  BY <1>1, <1>2, MembersAre DEF ProcInv, UndoOf
<1>6. UndoOf(c)' /\ LockOf(c)'
  BY <1>1, <1>2, <1>3, <1>4, <1>5 DEF ProcInv, UndoOf, LockOf, Locking, At
<1>7. InitedOf(c)'
  BY <1>1, <1>2, <1>3, <1>4, <1>5 DEF ProcInv, InitedOf, Using, At
<1>8. CountOf(c)' /\ OpOf(c)'
  BY <1>2, <1>3, <1>4, <1>5 DEF CountOf, OpOf, Creating, At
<1>. QED  BY <1>2, <1>3, <1>4, <1>6, <1>7, <1>8, QuietStep DEF ProcInv

(* sem_create with the lock held.                                          *)
LEMMA SetVal0KeepsInv ==
    ASSUME IInv, NEW p \in Procs, SetVal0(p)
    PROVE  IInv'
<1>1. TypeInv /\ SetInv /\ \A q \in Procs : ProcInv(q)
  BY DEF IInv
<1>2. At(p, "setval0") /\ Goto(p, "setval1") /\ UNCHANGED <<id, starts>> /\ starts' \in Nat
  BY <1>1 DEF SetVal0, TypeInv
<1>3. CASE ~Valid(p)
  BY <1>2, <1>3, QuietGoto DEF SetVal0, SetVal, Labels
<1>4. CASE Valid(p)
  <2>1. /\ val' = [val EXCEPT !["op"] = 1] /\ inited' = FALSE
        /\ adj' = [q \in Procs |-> [adj[q] EXCEPT !["op"] = 0]]
        /\ UNCHANGED <<key, created>>
    BY <1>4 DEF SetVal0, SetVal
  <2>2. ~inited /\ \A q \in Procs : adj[q]["op"] = 0
    BY <1>1, <1>2, <1>4 DEF ProcInv, InitedOf, At
  <2>3. adj' = adj
    BY <1>1, <2>1, <2>2 DEF TypeInv
  <2>4. Moves(p) /\ pc'[p] = "setval1" /\ \A q \in Procs : Valid(q)' <=> Valid(q)
    BY <1>1, <1>2, <2>1, GoesTo DEF Labels, Valid
  <2>5. val'["op"] = 1 /\ val'["procs"] = val["procs"] /\ val'["lock"] = val["lock"]
    BY <1>1, <2>1, MembersAre DEF TypeInv
  <2>6. TypeInv'
    BY <1>1, <2>1, <2>3, <2>4, MembersAre DEF TypeInv, Moves
  <2>7. \A q \in Procs : ~Inside(q) /\ ~Inside(q)'
    <3>1. \A q \in Procs : ~Inside(q)
      BY <1>1, <2>2 DEF ProcInv, InitedOf, Inside, At, Using
    <3>. QED  BY <1>2, <2>4, <3>1 DEF Inside, At, Moves
  <2>8. SetInv'
    BY <1>1, <1>4, <2>1, <2>2, <2>3, <2>5, <2>7 DEF SetInv, Valid
  <2>9. ASSUME NEW q \in Procs PROVE ProcInv(q)'
    <3>1. q # p => pc'[q] = pc[q]
      BY <2>4 DEF Moves
    <3>2. UndoOf(q)' /\ LockOf(q)'
      BY <1>1, <1>2, <1>4, <2>1, <2>3, <2>4, <2>5, <3>1 DEF ProcInv, UndoOf, LockOf, Locking, At
    <3>3. InitedOf(q)'
      BY <1>1, <1>2, <2>1, <2>2, <2>3, <2>4, <2>5, <3>1 DEF ProcInv, InitedOf, Using, At
    <3>4. CountOf(q)' /\ OpOf(q)'
      BY <1>1, <1>2, <2>2, <2>3, <2>4, <2>7, <3>1 DEF ProcInv, CountOf, OpOf, Creating, At
    <3>. QED  BY <3>2, <3>3, <3>4 DEF ProcInv
  <2>. QED  BY <2>6, <2>8, <2>9 DEF IInv, Capacity
<1>. QED  BY <1>3, <1>4

LEMMA SetVal1KeepsInv ==
    ASSUME IInv, NEW p \in Procs, SetVal1(p)
    PROVE  IInv'
<1>1. TypeInv /\ SetInv /\ \A q \in Procs : ProcInv(q)
  BY DEF IInv
<1>2. At(p, "setval1") /\ Goto(p, "endcreate") /\ UNCHANGED <<id, starts>> /\ starts' \in Nat
  BY <1>1 DEF SetVal1, TypeInv
<1>3. CASE ~Valid(p)
  BY <1>2, <1>3, QuietGoto DEF SetVal1, SetVal, Labels
<1>4. CASE Valid(p)
  <2>1. /\ val' = [val EXCEPT !["procs"] = MAX_CLIENTS + 1] /\ inited' = TRUE
        /\ adj' = [q \in Procs |-> [adj[q] EXCEPT !["procs"] = 0]]
        /\ UNCHANGED <<key, created>>
    BY <1>4 DEF SetVal1, SetVal
  <2>2. ~inited /\ \A q \in Procs : adj[q]["procs"] = 0 /\ adj[q]["op"] = 0
    BY <1>1, <1>2, <1>4 DEF ProcInv, InitedOf, At
  <2>3. adj' = adj
    BY <1>1, <2>1, <2>2 DEF TypeInv
  <2>4. Moves(p) /\ pc'[p] = "endcreate" /\ \A q \in Procs : Valid(q)' <=> Valid(q)
    BY <1>1, <1>2, <2>1, GoesTo DEF Labels, Valid
  <2>5. val'["procs"] = MAX_CLIENTS + 1 /\ val'["op"] = 1 /\ val'["lock"] = val["lock"]
    <3>1. val["op"] = 1
      BY <1>1, <1>2, <1>4 DEF ProcInv, InitedOf
    <3>. QED  BY <1>1, <2>1, <3>1, MembersAre DEF TypeInv
  <2>6. TypeInv'
    <3>1. MAX_CLIENTS + 1 \in Nat
      BY SemaphoreAssumption
    <3>2. val' \in [Members -> Nat]
      BY <1>1, <2>1, <3>1 DEF TypeInv
    <3>. QED  BY <1>1, <2>1, <2>3, <2>4, <3>2 DEF TypeInv, Moves
  <2>7. \A q \in Procs : ~Inside(q) /\ ~Inside(q)'
    <3>1. \A q \in Procs : ~Inside(q)
      BY <1>1, <2>2 DEF ProcInv, InitedOf, Inside, At, Using
    <3>. QED  BY <1>2, <2>4, <3>1 DEF Inside, At, Moves
  <2>8. Cardinality(Lowered(1)') = 0 /\ Cardinality(Lowered(2)') = 0
    <3>1. Lowered(1)' = {} /\ Lowered(2)' = {}
      BY <2>2, <2>3 DEF Lowered
    <3>. QED  BY <3>1, FS_EmptySet
  <2>9. SetInv'
    <3>1. key' # 0 /\ key' <= created'
      BY <1>1, <1>4, <2>1 DEF SetInv, Valid
    <3>2. inited' => val["procs"]' + Cardinality(Lowered(1)') + Cardinality(Lowered(2)')
                         >= MAX_CLIENTS + 1
      BY <2>5, <2>8, SemaphoreAssumption
    <3>3. \A q, r \in Procs : adj'[q]["lock"] = -1 /\ adj'[r]["lock"] = -1 => q = r
      BY <1>1, <2>3 DEF SetInv
    <3>. QED  BY <1>1, <2>1, <2>5, <2>7, <3>1, <3>2, <3>3 DEF SetInv
  <2>10. ASSUME NEW q \in Procs PROVE ProcInv(q)'
    <3>1. q # p => pc'[q] = pc[q]
      BY <2>4 DEF Moves
    <3>2. UndoOf(q)' /\ LockOf(q)'
      BY <1>1, <1>2, <1>4, <2>1, <2>3, <2>4, <2>5, <3>1 DEF ProcInv, UndoOf, LockOf, Locking, At
    <3>3. ~(Valid(q)' /\ pc'[q] \in {"setval0", "setval1"})
      <4>. SUFFICES ASSUME q # p, Valid(q), pc[q] \in {"setval0", "setval1"} PROVE FALSE
        BY <2>4, <3>1
      <4>1. adj[q]["lock"] = -1 /\ adj[p]["lock"] = -1
        BY <1>1, <1>2, <1>4 DEF ProcInv, LockOf, Locking, At
      <4>. QED  BY <1>1, <4>1 DEF SetInv
    <3>4. InitedOf(q)'
      BY <2>1, <3>3 DEF InitedOf, At
    <3>5. CountOf(q)' /\ OpOf(q)'
      BY <1>1, <1>2, <2>2, <2>3, <2>4, <2>7, <3>1 DEF ProcInv, CountOf, OpOf, Creating, At
    <3>. QED  BY <3>2, <3>4, <3>5 DEF ProcInv
  <2>. QED  BY <2>6, <2>9, <2>10 DEF IInv, Capacity
<1>. QED  BY <1>3, <1>4

(* The steps of sem_create and sem_open.                                   *)
LEMMA CreateKeepsInv ==
    ASSUME IInv, NEW p \in Procs,
           \/ Start(p) \/ Lock(p) \/ LockSleeps(p) \/ LockFails(p) \/ GetVal(p)
           \/ EndCreate(p) \/ OpenGet(p) \/ OpenSem(p)
    PROVE  IInv'
<1>1. /\ TypeInv /\ starts \in Nat
      /\ UndoOf(p) /\ LockOf(p) /\ InitedOf(p) /\ CountOf(p) /\ OpOf(p)
      /\ val["op"] \in Nat /\ val["procs"] \in Nat /\ val["lock"] \in {0, 1}
      /\ adj[p]["op"] \in Int /\ adj[p]["procs"] \in Int /\ adj[p]["lock"] \in Int
  BY Before
<1>2. CASE Start(p)
  <2>1. At(p, "off") /\ Goto(p, "semget") /\ UNCHANGED <<semset, id>> /\ starts' \in Nat
    BY <1>1, <1>2 DEF Start
  <2>2. adj[p]["procs"] = 0
    BY <1>1, <2>1 DEF CountOf, Creating, At
  <2>. QED  BY <2>1, <2>2, QuietGoto DEF Labels, Creating, Locking, Using, At
<1>3. CASE Lock(p)
  <2>1. /\ Valid(p) /\ val["lock"] = 0 /\ Semop(p, op_lock) /\ Goto(p, "getval")
        /\ UNCHANGED <<id, starts>> /\ pc[p] \in {"lock", "asleep"}
    BY <1>3 DEF Lock, At
  <2>2. adj[p]["lock"] = 0 /\ adj[p]["procs"] = 0 /\ adj[p]["op"] = 0
    BY <1>1, <2>1 DEF LockOf, CountOf, OpOf, Creating, Inside, At
  <2>3. op_lock \in [Members -> Int] /\ op_lock["op"] = 0 /\ op_lock["procs"] = 0 /\ op_lock["lock"] = 1
    BY OpValues
  <2>. QED  BY <2>1, <2>2, <2>3, SemopStep DEF Labels, Creating, Locking, Using
<1>4. CASE LockSleeps(p)
  <2>1. adj[p]["procs"] = 0
    BY <1>1, <1>4 DEF LockSleeps, CountOf, Creating, At
  <2>. QED  BY <1>1, <1>4, <2>1, QuietGoto DEF LockSleeps, Labels, Creating, Locking, Using, At
<1>5. CASE LockFails(p)
  BY <1>1, <1>5, QuietGoto DEF LockFails, Labels
<1>6. CASE GetVal(p)
  <2>1. /\ At(p, "getval") /\ UNCHANGED <<semset, id, starts>>
        /\ Goto(p, IF Valid(p) /\ val["procs"] = 0 THEN "setval0" ELSE "endcreate")
    BY <1>6 DEF GetVal
  <2>2. adj[p]["procs"] = 0 /\ (Valid(p) => adj[p]["lock"] = -1)
    BY <1>1, <2>1 DEF CountOf, LockOf, Creating, Locking, At
  <2>3. Valid(p) => (val["procs"] = 0 <=> ~inited)
    BY <2>2, CounterLeft DEF IInv, SetInv
  <2>4. CASE Valid(p) /\ val["procs"] = 0
    BY <1>1, <2>1, <2>2, <2>3, <2>4, QuietGoto DEF Labels, Creating, Locking, Using, At
  <2>5. CASE ~(Valid(p) /\ val["procs"] = 0)
    BY <1>1, <2>1, <2>2, <2>3, <2>5, QuietGoto DEF Labels, Creating, Locking, Using, At
  <2>. QED  BY <2>4, <2>5
<1>7. CASE EndCreate(p)
  <2>1. At(p, "endcreate") /\ Goto(p, "open") /\ UNCHANGED <<id, starts>> /\ TrySemop(p, op_endcreate)
    BY <1>7 DEF EndCreate
  <2>2. CASE ~Valid(p)
    BY <1>1, <2>1, <2>2, QuietGoto DEF TrySemop, Labels
  <2>3. CASE Valid(p)
    <3>1. Semop(p, op_endcreate)
      BY <2>1, <2>3 DEF TrySemop
    <3>2. adj[p]["lock"] = -1 /\ val["lock"] = 1 /\ adj[p]["procs"] = 0 /\ adj[p]["op"] = 0 /\ inited
      BY <1>1, <2>1, <2>3 DEF LockOf, CountOf, OpOf, InitedOf, Creating, Locking, Inside, At
    <3>3. /\ op_endcreate \in [Members -> Int] /\ op_endcreate["op"] = 0
          /\ op_endcreate["procs"] = -1 /\ op_endcreate["lock"] = -1
      BY OpValues
    <3>. QED  BY <2>1, <2>3, <3>1, <3>2, <3>3, SemopStep DEF Labels, Creating, Locking, Using
  <2>. QED  BY <2>2, <2>3
<1>8. CASE OpenGet(p)
  BY <1>8, Takes DEF OpenGet
<1>9. CASE OpenSem(p)
  <2>1. At(p, "opening") /\ Goto(p, "idle") /\ UNCHANGED <<id, starts>> /\ TrySemop(p, op_open)
    BY <1>9 DEF OpenSem
  <2>2. CASE ~Valid(p)
    BY <1>1, <2>1, <2>2, QuietGoto DEF TrySemop, Labels
  <2>3. CASE Valid(p)
    <3>1. Semop(p, op_open)
      BY <2>1, <2>3 DEF TrySemop
    <3>2. adj[p]["procs"] \in 0..1 /\ adj[p]["op"] = 0
      BY <1>1, <2>1 DEF CountOf, OpOf, Inside, At
    <3>3. /\ op_open \in [Members -> Int] /\ op_open["op"] = 0
          /\ op_open["procs"] = -1 /\ op_open["lock"] = 0
      BY OpValues
    <3>4. val["procs"] # 0 /\ inited
      <4>1. val["procs"] + op_open["procs"] >= 0
        BY <3>1, MembersAre DEF Semop
      <4>. QED  BY <1>1, <3>3, <4>1 DEF IInv, SetInv
    <3>5. adj[p]["lock"] \in {0, -1} /\ (val["lock"] = 0 => adj[p]["lock"] = 0)
      BY <1>1 DEF LockOf
    <3>. QED  BY <1>1, <2>1, <2>3, <3>1, <3>2, <3>3, <3>4, <3>5, SemopStep
              DEF Labels, Creating, Locking, Using
  <2>. QED  BY <2>2, <2>3
<1>. QED  BY <1>2, <1>3, <1>4, <1>5, <1>6, <1>7, <1>8, <1>9

(* The steps of sections and of sem_close.                                 *)
LEMMA UseKeepsInv ==
    ASSUME IInv, NEW p \in Procs,
           \/ CallWait(p) \/ sem_wait(p) \/ sem_signal(p)
           \/ CallClose(p) \/ Close(p) \/ CloseRemoves(p) \/ CloseKeeps(p)
    PROVE  IInv'
<1>1. /\ TypeInv /\ starts \in Nat
      /\ UndoOf(p) /\ LockOf(p) /\ InitedOf(p) /\ CountOf(p) /\ OpOf(p)
      /\ val["op"] \in Nat /\ val["procs"] \in Nat /\ val["lock"] \in {0, 1}
      /\ adj[p]["op"] \in Int /\ adj[p]["procs"] \in Int /\ adj[p]["lock"] \in Int
  BY Before
<1>2. /\ adj[p]["lock"] \in {0, -1} /\ (val["lock"] = 0 => adj[p]["lock"] = 0)
      /\ adj[p]["procs"] \in 0..2
      /\ Valid(p) /\ pc[p] \in Using => inited
  BY <1>1 DEF LockOf, CountOf, InitedOf
<1>3. CASE CallWait(p)
  BY <1>1, <1>2, <1>3, QuietGoto DEF CallWait, Labels, Creating, Locking, Using, At
<1>4. CASE sem_wait(p)
  <2>1. At(p, "wait") /\ Goto(p, "inside") /\ UNCHANGED <<id, starts>> /\ TrySemop(p, op_op(-1))
    BY <1>4 DEF sem_wait
  <2>2. CASE ~Valid(p)
    BY <1>1, <2>1, <2>2, QuietGoto DEF TrySemop, Labels
  <2>3. CASE Valid(p)
    <3>1. Semop(p, op_op(-1)) /\ inited
      BY <1>2, <2>1, <2>3 DEF TrySemop, Using, At
    <3>2. op_op(-1) \in [Members -> Int] /\ op_op(-1)["op"] = -1
          /\ op_op(-1)["procs"] = 0 /\ op_op(-1)["lock"] = 0
      BY OpValues
    <3>3. val["op"] = 1
      <4>1. val["op"] + op_op(-1)["op"] >= 0
        BY <3>1, MembersAre DEF Semop
      <4>. QED  BY <1>1, <3>1, <3>2, <4>1 DEF IInv, SetInv
    <3>4. adj[p]["op"] = 0
      BY <1>1, <2>1 DEF OpOf, Inside, At
    <3>. QED  BY <1>1, <1>2, <2>1, <2>3, <3>1, <3>2, <3>3, <3>4, SemopStep
              DEF Labels, Creating, Locking, Using
  <2>. QED  BY <2>2, <2>3
<1>5. CASE sem_signal(p)
  <2>1. At(p, "inside") /\ Goto(p, "idle") /\ UNCHANGED <<id, starts>> /\ TrySemop(p, op_op(1))
    BY <1>5 DEF sem_signal
  <2>2. CASE ~Valid(p)
    BY <1>1, <2>1, <2>2, QuietGoto DEF TrySemop, Labels
  <2>3. CASE Valid(p)
    <3>1. Semop(p, op_op(1)) /\ inited
      BY <1>2, <2>1, <2>3 DEF TrySemop, Using, At
    <3>2. op_op(1) \in [Members -> Int] /\ op_op(1)["op"] = 1
          /\ op_op(1)["procs"] = 0 /\ op_op(1)["lock"] = 0
      BY OpValues
    <3>3. adj[p]["op"] = 1
      BY <1>1, <2>1, <2>3 DEF OpOf, Inside
    <3>. QED  BY <1>1, <1>2, <2>1, <2>3, <3>1, <3>2, <3>3, SemopStep
              DEF Labels, Creating, Locking, Using
  <2>. QED  BY <2>2, <2>3
<1>6. CASE CallClose(p)
  BY <1>1, <1>2, <1>6, QuietGoto DEF CallClose, Labels, Creating, Locking, Using, At
<1>7. CASE Close(p)
  <2>1. /\ At(p, "close") /\ Goto(p, "closeval") /\ UNCHANGED <<id, starts>>
        /\ TrySemop(p, op_close) /\ (Valid(p) => val["lock"] = 0)
    BY <1>7 DEF Close
  <2>2. CASE ~Valid(p)
    BY <1>1, <2>1, <2>2, QuietGoto DEF TrySemop, Labels
  <2>3. CASE Valid(p)
    <3>1. Semop(p, op_close) /\ inited /\ val["lock"] = 0
      BY <1>2, <2>1, <2>3 DEF TrySemop, Using, At
    <3>2. op_close \in [Members -> Int] /\ op_close["op"] = 0
          /\ op_close["procs"] = 1 /\ op_close["lock"] = 1
      BY OpValues
    <3>3. adj[p]["op"] = 0 /\ adj[p]["procs"] >= 1
      BY <1>1, <2>1, <2>3 DEF OpOf, CountOf, Inside, At
    <3>. QED  BY <1>1, <1>2, <2>1, <2>3, <3>1, <3>2, <3>3, SemopStep
              DEF Labels, Creating, Locking, Using
  <2>. QED  BY <2>2, <2>3
<1>8. CASE CloseRemoves(p)
  <2>1. Goto(p, "idle") /\ UNCHANGED <<id, starts>> /\ Remove
    BY <1>8 DEF CloseRemoves
  <2>2. Moves(p)
    BY <1>1, <2>1, GoesTo DEF Labels
  <2>. QED  BY <2>1, <2>2, RemoveStep
<1>9. CASE CloseKeeps(p)
  <2>1. /\ At(p, "closeval") /\ Goto(p, "idle") /\ UNCHANGED <<id, starts>>
        /\ UNCHANGED semset \/ TrySemop(p, op_unlock)
    BY <1>9 DEF CloseKeeps
  <2>2. CASE UNCHANGED semset
    BY <1>1, <1>2, <2>1, <2>2, QuietGoto DEF Labels, Creating, Locking, Using, At
  <2>3. CASE Semop(p, op_unlock) /\ Valid(p)
    <3>1. adj[p]["lock"] = -1 /\ val["lock"] = 1 /\ adj[p]["op"] = 0 /\ inited
      BY <1>1, <1>2, <2>1, <2>3 DEF LockOf, OpOf, Locking, Using, Inside, At
    <3>2. op_unlock \in [Members -> Int] /\ op_unlock["op"] = 0
          /\ op_unlock["procs"] = 0 /\ op_unlock["lock"] = -1
      BY OpValues
    <3>. QED  BY <1>1, <1>2, <2>1, <2>3, <3>1, <3>2, SemopStep
              DEF Labels, Creating, Locking, Using
  <2>. QED  BY <2>1, <2>2, <2>3 DEF TrySemop
<1>. QED  BY <1>3, <1>4, <1>5, <1>6, <1>7, <1>8, <1>9

LEMMA NextKeepsInv == IInv /\ [Next]_vars => IInv'
<1>. SUFFICES ASSUME IInv, [Next]_vars PROVE IInv'
  OBVIOUS
<1>1. CASE UNCHANGED vars
  <2>1. UNCHANGED <<key, created, val, inited, adj, id, pc, starts>>
    BY <1>1 DEF vars
  <2>2. TypeInv'
    BY <2>1 DEF IInv, TypeInv
  <2>3. SetInv'
    BY <2>1 DEF IInv, SetInv, Lowered, Inside, At, Valid
  <2>4. \A p \in Procs : ProcInv(p)'
    BY <2>1 DEF IInv, ProcInv, UndoOf, LockOf, InitedOf, CountOf, OpOf, Inside, At, Valid
  <2>. QED  BY <2>2, <2>3, <2>4 DEF IInv, Capacity
<1>2. ASSUME NEW p \in Procs, Interrupt(p) PROVE IInv'
  <2>1. CASE Valid(p)
    <3>1. Remove /\ Goto(p, "off") /\ UNCHANGED <<id, starts>>
      BY <1>2, <2>1 DEF Interrupt
    <3>2. Moves(p)
      BY <3>1, Before, GoesTo DEF Labels
    <3>. QED  BY <3>1, <3>2, RemoveStep
  <2>2. CASE ~Valid(p)
    BY <1>2, <2>2, EndsStep DEF Interrupt
  <2>. QED  BY <2>1, <2>2
<1>3. ASSUME NEW p \in Procs, Crash(p) \/ OpenFails(p) PROVE IInv'
  BY <1>3, EndsStep DEF Crash, OpenFails
<1>4. CASE Next
  BY <1>2, <1>3, <1>4, SemgetKeepsInv, ForkKeepsInv, SetVal0KeepsInv, SetVal1KeepsInv,
     CreateKeepsInv, UseKeepsInv DEF Next, Runs
<1>. QED  BY <1>1, <1>4

(***************************************************************************)
(* semaphore.cpp: whatever the number of processes, and however they       *)
(* start, fork, close, remove the set and are killed, at most one is in a  *)
(* section and the semaphore is not lost, provided that MAX_CLIENTS is at  *)
(* least twice the number of other processes.                              *)
(***************************************************************************)
THEOREM MutualExclusion == Capacity => (Spec => []Exclusion)
<1>1. IInv => Exclusion
  BY InvImplies
<1>. QED  BY InitInv, NextKeepsInv, <1>1, PTL DEF Spec
=============================================================================
