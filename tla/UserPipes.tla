----------------------------- MODULE UserPipes -----------------------------
(***************************************************************************)
(* What the pipes between users promise (">N" and "<N" of np_project2): at *)
(* most one pipe is pending from one user to another, it exists only while *)
(* both are logged in, it stays until the receiver takes it or one of the  *)
(* two leaves, and taking it is the receiver's doing.  Only the end of the *)
(* whole server drops the others.                                          *)
(***************************************************************************)
CONSTANT Users

VARIABLES
    present,  \* the users logged in
    piped     \* the pairs <<sender, receiver>> with a pipe pending

Init == present = {} /\ piped = {}

Enter(u) ==
    /\ u \notin present
    /\ present' = present \cup {u}
    /\ UNCHANGED piped

Leave(u) ==
    /\ u \in present
    /\ present' = present \ {u}
    /\ piped' = {p \in piped : u \notin {p[1], p[2]}}

Send(s, r) ==
    /\ s \in present /\ r \in present
    /\ <<s, r>> \notin piped
    /\ piped' = piped \cup {<<s, r>>}
    /\ UNCHANGED present

Receive(s, r) ==
    /\ <<s, r>> \in piped
    /\ piped' = piped \ {<<s, r>>}
    /\ UNCHANGED present

Shutdown ==
    /\ piped' = {}
    /\ UNCHANGED present

Next ==
    \/ \E u \in Users : Enter(u) \/ Leave(u)
    \/ \E s, r \in Users : Send(s, r) \/ Receive(s, r)
    \/ Shutdown

Spec == Init /\ [][Next]_<<present, piped>>
=============================================================================
