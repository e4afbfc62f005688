----------------------------- MODULE Semaphore -----------------------------
(***************************************************************************)
(* np_project2/semaphore.cpp, and np_multi_proc.cpp where it sets up and   *)
(* removes the semaphore.  A set has three members: [0] is the semaphore,  *)
(* [1] counts processes down from MAX_CLIENTS + 1, [2] is a lock.  The     *)
(* kernel keeps for each process what SEM_UNDO adds when it ends.          *)
(*                                                                         *)
(* A process is a server (it runs sem_create and sem_open) or was forked   *)
(* by one.  Any process may be killed between two system calls.  A removed *)
(* set is gone with its adjustments: calls on it fail, and the wrapper     *)
(* only says so and goes on.  Signals that interrupt semop are MultiProc's.*)
(***************************************************************************)
EXTENDS Integers, FiniteSets

CONSTANTS
    Procs,
    MAX_CLIENTS,
    MaxStarts,   \* bound: processes started
    MaxSets      \* bound: sets created

ASSUME SemaphoreAssumption ==
    /\ IsFiniteSet(Procs)
    /\ MAX_CLIENTS \in Nat /\ MaxStarts \in Nat /\ MaxSets \in Nat

VARIABLES
    key,      \* the set SEMKEY names, 0: none
    created,  \* sets created so far
    val,      \* its members
    inited,   \* both SETVALs have been made on it
    adj,      \* the undo adjustments of each process on it
    id,       \* the set a process uses
    pc,
    starts

vars == <<key, created, val, inited, adj, id, pc, starts>>
semset == <<key, created, val, inited, adj>>

Members == {"op", "procs", "lock"}
Zero == [m \in Members |-> 0]

At(p, l) == pc[p] = l
Goto(p, l) == pc' = [pc EXCEPT ![p] = l]
Valid(p) == id[p] = key /\ key # 0

----------------------------------------------------------------------------
(* semop with SEM_UNDO: adds n to one or several members, all or none. *)
Semop(p, n) ==
    /\ \A m \in Members : val[m] + n[m] >= 0
    /\ val' = [m \in Members |-> val[m] + n[m]]
    /\ adj' = [adj EXCEPT ![p] = [m \in Members |-> adj[p][m] - n[m]]]
    /\ UNCHANGED <<key, created, inited>>

op_lock == [Zero EXCEPT !["lock"] = 1]
op_endcreate == [Zero EXCEPT !["procs"] = -1, !["lock"] = -1]
op_open == [Zero EXCEPT !["procs"] = -1]
op_close == [Zero EXCEPT !["procs"] = 1, !["lock"] = 1]
op_unlock == [Zero EXCEPT !["lock"] = -1]
op_op(n) == [Zero EXCEPT !["op"] = n]

(* A semop whose failure is only reported. *)
TrySemop(p, n) == IF Valid(p) THEN Semop(p, n) ELSE UNCHANGED semset

(* SETVAL also clears what every process would undo on that member. *)
SetVal(p, m, v) ==
    IF Valid(p)
    THEN /\ val' = [val EXCEPT ![m] = v]
         /\ adj' = [q \in Procs |-> [adj[q] EXCEPT ![m] = 0]]
         /\ inited' = (m = "procs")
         /\ UNCHANGED <<key, created>>
    ELSE UNCHANGED semset

Remove ==
    /\ key' = 0 /\ val' = Zero /\ inited' = FALSE
    /\ adj' = [q \in Procs |-> Zero]
    /\ UNCHANGED created

(* Mutant: SEM_UNDO is missing for the lock. *)
Mut_Undo(p, m) == IF m = "lock" \/ val[m] + adj[p][m] < 0 THEN val[m] ELSE val[m] + adj[p][m]

(* The end of a process, whatever the reason. *)
Undo(p, m) == IF val[m] + adj[p][m] < 0 THEN 0 ELSE val[m] + adj[p][m]

Ends(p) ==
    /\ val' = [m \in Members |-> Undo(p, m)]
    /\ adj' = [adj EXCEPT ![p] = Zero]
    /\ Goto(p, "off")
    /\ UNCHANGED <<key, created, inited, id, starts>>

----------------------------------------------------------------------------
(* sem_create *)
Start(p) ==
    /\ At(p, "off") /\ starts < MaxStarts
    /\ starts' = starts + 1
    /\ Goto(p, "semget")
    /\ UNCHANGED <<semset, id>>

Semget(p) ==
    /\ At(p, "semget")
    /\ IF key # 0
       THEN UNCHANGED semset /\ id' = [id EXCEPT ![p] = key]
       ELSE /\ created < MaxSets
            /\ created' = created + 1 /\ key' = created + 1
            /\ id' = [id EXCEPT ![p] = created + 1]
            /\ UNCHANGED <<val, inited, adj>>
    /\ Goto(p, "lock")
    /\ UNCHANGED starts

Lock(p) ==
    /\ At(p, "lock") \/ At(p, "asleep")
    /\ Valid(p) /\ val["lock"] = 0
    /\ Semop(p, op_lock)
    /\ Goto(p, "getval")
    /\ UNCHANGED <<id, starts>>

LockSleeps(p) ==
    /\ At(p, "lock") /\ Valid(p) /\ val["lock"] # 0
    /\ Goto(p, "asleep")
    /\ UNCHANGED <<semset, id, starts>>

(* The set has gone: EINVAL, tried again, or EIDRM to one already waiting, *)
(* who goes on. *)
LockFails(p) ==
    /\ ~Valid(p)
    /\ \/ At(p, "lock") /\ Goto(p, "semget")
       \/ At(p, "asleep") /\ Goto(p, "getval")
    /\ UNCHANGED <<semset, id, starts>>

(* Mutant: every server initialises. *)
Mut_GetVal(p) ==
    /\ At(p, "getval")
    /\ Goto(p, IF Valid(p) THEN "setval0" ELSE "endcreate")
    /\ UNCHANGED <<semset, id, starts>>

GetVal(p) ==
    /\ At(p, "getval")
    /\ Goto(p, IF Valid(p) /\ val["procs"] = 0 THEN "setval0" ELSE "endcreate")
    /\ UNCHANGED <<semset, id, starts>>

SetVal0(p) ==
    /\ At(p, "setval0")
    /\ SetVal(p, "op", 1)
    /\ Goto(p, "setval1")
    /\ UNCHANGED <<id, starts>>

SetVal1(p) ==
    /\ At(p, "setval1")
    /\ SetVal(p, "procs", MAX_CLIENTS + 1)
    /\ Goto(p, "endcreate")
    /\ UNCHANGED <<id, starts>>

EndCreate(p) ==
    /\ At(p, "endcreate")
    /\ TrySemop(p, op_endcreate)
    /\ Goto(p, "open")
    /\ UNCHANGED <<id, starts>>

----------------------------------------------------------------------------
(* sem_open; without a set to open, sem_init fails and the server exits. *)
OpenGet(p) ==
    /\ At(p, "open") /\ key # 0
    /\ id' = [id EXCEPT ![p] = key]
    /\ Goto(p, "opening")
    /\ UNCHANGED <<semset, starts>>

OpenFails(p) == At(p, "open") /\ key = 0 /\ Ends(p)

OpenSem(p) ==
    /\ At(p, "opening")
    /\ TrySemop(p, op_open)
    /\ Goto(p, "idle")
    /\ UNCHANGED <<id, starts>>

(* sem_wait and sem_signal around a critical section. *)
CallWait(p) == At(p, "idle") /\ Goto(p, "wait") /\ UNCHANGED <<semset, id, starts>>

sem_wait(p) ==
    /\ At(p, "wait")
    /\ TrySemop(p, op_op(-1))
    /\ Goto(p, "inside")
    /\ UNCHANGED <<id, starts>>

sem_signal(p) ==
    /\ At(p, "inside")
    /\ TrySemop(p, op_op(1))
    /\ Goto(p, "idle")
    /\ UNCHANGED <<id, starts>>

----------------------------------------------------------------------------
(* sem_close, by a server that has opened the set. *)
CallClose(p) ==
    /\ At(p, "idle") /\ Valid(p) /\ adj[p]["procs"] > 0
    /\ Goto(p, "close")
    /\ UNCHANGED <<semset, id, starts>>

Close(p) ==
    /\ At(p, "close")
    /\ Valid(p) => val["lock"] = 0
    /\ TrySemop(p, op_close)
    /\ Goto(p, "closeval")
    /\ UNCHANGED <<id, starts>>

CloseRemoves(p) ==
    /\ At(p, "closeval") /\ Valid(p) /\ val["procs"] = MAX_CLIENTS + 1
    /\ Remove
    /\ Goto(p, "idle")
    /\ UNCHANGED <<id, starts>>

(* Above MAX_CLIENTS + 1 the lock is kept. *)
CloseKeeps(p) ==
    /\ At(p, "closeval")
    /\ ~(Valid(p) /\ val["procs"] = MAX_CLIENTS + 1)
    /\ IF Valid(p) /\ val["procs"] > MAX_CLIENTS + 1 THEN UNCHANGED semset
       ELSE TrySemop(p, op_unlock)
    /\ Goto(p, "idle")
    /\ UNCHANGED <<id, starts>>

----------------------------------------------------------------------------
(* shm_clear, on SIGINT: sem_rm, and the process ends. *)
Interrupt(p) ==
    /\ pc[p] \in {"idle", "wait", "inside"}
    /\ IF Valid(p) THEN Remove /\ Goto(p, "off") /\ UNCHANGED <<id, starts>>
       ELSE Ends(p)

Crash(p) == ~At(p, "off") /\ Ends(p)

(* A child uses its parent's set and inherits no adjustments. *)
Fork(p, c) ==
    /\ At(p, "idle") /\ At(c, "off") /\ starts < MaxStarts
    /\ starts' = starts + 1
    /\ pc' = [pc EXCEPT ![c] = "idle"]
    /\ id' = [id EXCEPT ![c] = id[p]]
    /\ UNCHANGED semset

----------------------------------------------------------------------------
Init ==
    /\ key = 0 /\ created = 0 /\ val = Zero /\ inited = FALSE
    /\ adj = [p \in Procs |-> Zero]
    /\ id = [p \in Procs |-> 0]
    /\ pc = [p \in Procs |-> "off"]
    /\ starts = 0

(* What a process does once it runs; when it enters a section, closes the  *)
(* set or ends is up to it. *)
Runs(p) ==
    \/ Semget(p) \/ Lock(p) \/ LockSleeps(p) \/ LockFails(p) \/ GetVal(p)
    \/ SetVal0(p) \/ SetVal1(p) \/ EndCreate(p)
    \/ OpenGet(p) \/ OpenFails(p) \/ OpenSem(p)
    \/ sem_wait(p) \/ sem_signal(p)
    \/ Close(p) \/ CloseRemoves(p) \/ CloseKeeps(p)

Next ==
    \E p \in Procs :
        \/ Runs(p)
        \/ Start(p) \/ CallWait(p) \/ CallClose(p) \/ Interrupt(p) \/ Crash(p)
        \/ \E c \in Procs : Fork(p, c)

Spec == Init /\ [][Next]_vars

(* Every process is scheduled, and semop serves the waiting in turn. *)
FairSpec == Spec /\ \A p \in Procs : SF_vars(Runs(p))

----------------------------------------------------------------------------
Inside(p) == At(p, "inside") /\ Valid(p)

(***************************************************************************)
(* Of the processes that use the set in force at most one is in a section, *)
(* and the semaphore is not lost: it is 0 only while one is.  Processes    *)
(* may be killed anywhere, in a section too, and servers come and go.      *)
(***************************************************************************)
Exclusion ==
    /\ Cardinality({p \in Procs : Inside(p)}) <= 1
    /\ inited /\ val["op"] = 0 => \E p \in Procs : Inside(p)

(***************************************************************************)
(* A server that starts is not left waiting for the lock, whoever was      *)
(* killed while holding it.  It may find, in sem_open, that its set was    *)
(* removed and that nobody has initialised the next one: then it waits.    *)
(***************************************************************************)
ServerStarts ==
    \A p \in Procs :
        pc[p] \in {"semget", "lock", "asleep"}
            ~> \/ pc[p] \in {"idle", "off"}
               \/ At(p, "opening") /\ Valid(p) /\ ~inited

(***************************************************************************)
(* The comment at line 34: a process counter that "equals 0" means that    *)
(* "no one has initialized the semaphore yet".  It is also 0 when          *)
(* sem_create and sem_open, which lower it by one each, have done so       *)
(* MAX_CLIENTS + 1 times; sem_create then initialises a semaphore that is  *)
(* in use.                                                                 *)
(***************************************************************************)
ZeroMeansUninitialized ==
    \A p \in Procs : At(p, "getval") /\ Valid(p) /\ val["procs"] = 0 => ~inited
============================================================================
