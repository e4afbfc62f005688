------------------------- MODULE SocksSessionProofs -------------------------
(***************************************************************************)
(* Theorems about the SOCKS server of np_project4, for every socks.conf,   *)
(* set of requests and table of names, and sockets of any size.            *)
(***************************************************************************)
EXTENDS SocksSession, SequenceTheorems, TLAPS

(* A rule permits the connection, and it is the one asked for. *)
Granted ==
    /\ \E i \in DOMAIN Rules :
          /\ Rules[i].action = "permit"
          /\ Rules[i].mode = "c" => parsed.cd = CONNECT
          /\ Rules[i].mode = "b" => parsed.cd = BIND
          /\ \A k \in DOMAIN target : Rules[i].mask[k] \in {target[k], -1}
    /\ parsed.addr = request.addr =>
          target = IF request.addr[1] = 0 THEN Resolve[parsed.name] ELSE request.addr

(* The process gets beyond the firewall, now or after a write, only then;  *)
(* nothing has been written before. *)
IInv ==
    /\ pc \in {"connect", "bind", "accept", "select", "relay"} => Granted
    /\ then \in {"connect", "bind", "accept", "select", "relay"} => Granted
    /\ pc = "request" => then = "request"
    /\ pc = "write" => then # "request"

LEMMA FirewallGrants ==
    ASSUME Request, pc' \in {"connect", "bind"}
    PROVE  Granted'
<1>1. PICK r \in Arrived(request) :
         /\ parsed' = r /\ request' = request
         /\ target' = IF ~IsDomain(r) THEN r.addr
                      ELSE IF r.name \in DOMAIN Resolve THEN Resolve[r.name] ELSE <<>>
         /\ IF r.vn # 4 \/ target' = <<>> THEN pc' = "refuse"
            ELSE \E a \in get_access_mode(target', r.cd) :
                    pc' = IF ~a THEN "reject"
                          ELSE IF r.cd = CONNECT THEN "connect"
                          ELSE IF r.cd = BIND THEN "bind" ELSE "refuse"
  BY DEF Request
<1>2. target' # <<>> /\ TRUE \in get_access_mode(target', r.cd)
  BY <1>1 DEF get_access_mode
<1>3. PICK i \in DOMAIN Rules : Permits(Rules[i], target') /\ ModeMay(Rules[i], r.cd)
  BY <1>2 DEF get_access_mode
<1>4. /\ Rules[i].action = "permit"
      /\ Rules[i].mode = "c" => r.cd = CONNECT
      /\ Rules[i].mode = "b" => r.cd = BIND
      /\ \A k \in DOMAIN target' : Rules[i].mask[k] \in {target'[k], -1}
  BY <1>3 DEF Permits, ModeMay, compare_ip
<1>5. r.addr = request.addr =>
         target' = IF request.addr[1] = 0 THEN Resolve[r.name] ELSE request.addr
  BY <1>1, <1>2 DEF IsDomain
<1>. QED  BY <1>1, <1>4, <1>5 DEF Granted

LEMMA NextKeepsInv == IInv /\ [Next]_vars => IInv'
<1>. SUFFICES ASSUME IInv, [Next]_vars PROVE IInv'
  OBVIOUS
<1>. USE DEF At
<1>1. CASE Request
  <2>1. pc = "request" /\ then' = then /\ then = "request"
    BY <1>1 DEF IInv, Request
  <2>2. pc' \in {"refuse", "reject", "connect", "bind"}
    BY <1>1 DEF Request
  <2>. QED  BY <1>1, <2>1, <2>2, FirewallGrants DEF IInv
<1>2. CASE UNCHANGED asked
  <2>1. Granted' <=> Granted
    BY <1>2 DEF asked, Granted
  <2>2. ASSUME NEW e, Finish(e) PROVE IInv'
    BY <2>2 DEF Finish, IInv
  <2>3. ASSUME NEW b, NEW o, NEW l, Write(b, o, l), l # "request",
               l \in {"connect", "bind", "accept", "select", "relay"} => Granted
        PROVE  IInv'
    BY <2>1, <2>3 DEF Write, IInv
  <2>4. ASSUME UNCHANGED <<pc, then>> PROVE IInv'
    BY <2>1, <2>4 DEF IInv
  <2>5. CASE Refuse \/ ConnectFails \/ RelayEnds
    BY <2>2, <2>5 DEF Refuse, ConnectFails, RelayEnds
  <2>6. CASE Reject \/ Connect \/ Bind \/ Accept
    BY <2>3, <2>6 DEF Reject, Connect, Bind, Accept, IInv
  <2>7. CASE Relay
    <3>1. PICK b, o : Write(b, o, "select") \/ Write(b, o, "relay")
      BY <2>7 DEF Relay
    <3>2. Granted
      BY <2>7 DEF Relay, IInv
    <3>. QED  BY <2>3, <3>1, <3>2
  <2>8. CASE WriteUnit \/ WriteToGone
    BY <2>2, <2>4, <2>8 DEF WriteUnit, WriteToGone
  <2>9. CASE Written
    BY <2>1, <2>9 DEF Written, IInv
  <2>10. CASE Select
    BY <2>1, <2>10 DEF Select, IInv
  <2>11. ASSUME NEW e \in Sides, Send(e) \/ Receive(e) \/ Shutdown(e) \/ Leave(e) \/ Reset(e)
         PROVE  IInv'
    BY <2>4, <2>11 DEF Send, Receive, Shutdown, Leave, Reset
  <2>12. CASE UNCHANGED vars
    BY <2>4, <2>12 DEF vars
  <2>. QED  BY <1>1, <2>5, <2>6, <2>7, <2>8, <2>9, <2>10, <2>11, <2>12 DEF Next, Process
<1>3. CASE Next /\ ~Request
  BY <1>2, <1>3 DEF Next, Process, Refuse, Reject, Connect, ConnectFails, Bind, Accept,
     WriteUnit, WriteToGone, Written, Select, Relay, RelayEnds,
     Send, Receive, Shutdown, Leave, Reset
<1>4. CASE UNCHANGED vars
  BY <1>2, <1>4 DEF vars, asked
<1>. QED  BY <1>1, <1>3, <1>4

(***************************************************************************)
(* socks_session::run and get_access_mode: whatever part of the request    *)
(* has arrived when it is read, data are relayed only over a connection    *)
(* that a rule permits and that the client asked for.                      *)
(***************************************************************************)
THEOREM FirewallRespected == Spec => []ConnectsAsAsked
<1>1. Init => IInv
  BY DEF Init, IInv
<1>2. IInv => ConnectsAsAsked
  BY DEF IInv, Granted, ConnectsAsAsked, Relaying
<1>. QED  BY <1>1, <1>2, NextKeepsInv, PTL DEF Spec

(******************************* The streams ******************************)

Data == Seq(Nat)

(* Where the process may be, and where it goes after a write. *)
Places ==
    ({"connect", "bind", "reject", "request"} \X {"request"})
    \cup ({"refuse"} \X {"request", "refuse"})
    \cup ({"write"} \X {"refuse", "accept", "select", "relay"})
    \cup {<<"accept", "accept">>, <<"select", "select">>,
          <<"relay", "select">>, <<"relay", "relay">>, <<"closed", "closed">>}

TypeInv ==
    /\ <<pc, then>> \in Places
    /\ lost \in Nat /\ ready \subseteq Sides /\ to \in Sides /\ buf \in Data
    /\ rq \in [Sides -> Data] /\ wq \in [Sides -> Data] /\ got \in [Sides -> Data]
    /\ sent \in [Sides -> Nat]
    /\ gone \in [Sides -> BOOLEAN] /\ cut \subseteq Sides

InHand(e) == IF to = e THEN buf ELSE <<>>

(* What a peer has received, and what is on its way to it. *)
Flow(e) == got[e] \o wq[e] \o InHand(e) \o rq[Other(e)]

(* The session has not been refused and has not ended. *)
Live ==
    \/ pc \in {"request", "connect", "bind", "accept", "select", "relay"}
    \/ pc = "write" /\ then # "refuse"

(* Before the relay nothing comes from the destination or goes to it, and  *)
(* the command tells how many replies the client is to have. *)
Early ==
    Live /\ ~Relaying =>
        /\ to = "c" /\ got["s"] = <<>> /\ wq["s"] = <<>> /\ rq["s"] = <<>>
        /\ sent["s"] = 0
        /\ pc = "request" => lost = 0 /\ rq["c"] = Numbers(1, sent["c"])
        /\ pc = "connect" => parsed.cd = CONNECT
        /\ "bind" = pc \/ "accept" \in {pc, then} => parsed.cd = BIND

Streams ==
    Live => \A e \in Sides : gone[e] \/ (pc = "request" /\ e = "s") \/ Flow(e) = Due(e)

Ended ==
    /\ pc # "write" => buf = <<>>
    /\ pc # "closed" => ended = "" /\ cut = {}
    /\ \A e \in Sides : ended = Other(e) => e \in cut \/ gone[e] \/ got[e] \o wq[e] = Due(e)

StreamInv == TypeInv /\ lost <= sent["c"] /\ Early /\ Streams /\ Ended

----------------------------------------------------------------------------
(* Sequences, and the numbers peers give to what they send. *)

LEMMA EmptyData == <<>> \in Data
BY DEF Data

LEMMA Unit ==
    ASSUME NEW b \in Data, b # <<>>
    PROVE  Head(b) \in Nat /\ Tail(b) \in Data /\ <<Head(b)>> \o Tail(b) = b
<1>1. Head(b) \in Nat /\ Tail(b) \in Data /\ Len(Tail(b)) = Len(b) - 1 /\ Len(b) # 0
  BY HeadTailProperties, EmptySeq DEF Data
<1>2. \A i \in 1..Len(b) : (<<Head(b)>> \o Tail(b))[i] = b[i]
  BY <1>1 DEF Data
<1>3. Len(<<Head(b)>> \o Tail(b)) = Len(b) /\ <<Head(b)>> \o Tail(b) \in Data
  BY <1>1 DEF Data
<1>. QED  BY <1>1, <1>2, <1>3, SeqEqual DEF Data

LEMMA Closed ==
    ASSUME NEW s \in Data, NEW t \in Data
    PROVE  s \o t \in Data
BY ConcatProperties DEF Data

LEMMA Regroup ==
    ASSUME NEW s \in Data, NEW t \in Data, NEW u \in Data
    PROVE  (s \o t) \o u = s \o (t \o u)
BY ConcatAssociative DEF Data

LEMMA Nothing ==
    ASSUME NEW s \in Data
    PROVE  <<>> \in Data /\ s \o <<>> = s /\ <<>> \o s = s
BY ConcatEmptySeq DEF Data

LEMMA Appended ==
    ASSUME NEW s \in Data, NEW x \in Nat
    PROVE  Append(s, x) \in Data /\ <<x>> \in Data /\ Append(s, x) = s \o <<x>>
BY AppendIsConcat, AppendProperties DEF Data

LEMMA UnitMoves ==
    ASSUME NEW g \in Data, NEW b \in Data, b # <<>>
    PROVE  Append(g, Head(b)) \in Data /\ Append(g, Head(b)) \o Tail(b) = g \o b
<1>1. Head(b) \in Nat /\ Tail(b) \in Data /\ <<Head(b)>> \o Tail(b) = b
  BY Unit
<1>2. Append(g, Head(b)) = g \o <<Head(b)>> /\ <<Head(b)>> \in Data /\ Append(g, Head(b)) \in Data
  BY <1>1, Appended
<1>. DEFINE h == <<Head(b)>>
            t == Tail(b)
<1>. HIDE DEF h, t
<1>3. h \in Data /\ t \in Data /\ h \o t = b
  BY <1>1, <1>2 DEF h, t
<1>4. (g \o h) \o t = g \o (h \o t)
  BY <1>3, Regroup
<1>5. (g \o h) \o t = g \o b
  BY <1>3, <1>4
<1>. QED  BY <1>2, <1>5 DEF h, t

(* The first unit in hand goes to the socket. *)
LEMMA UnitWritten ==
    ASSUME NEW g \in Data, NEW w \in Data, NEW b \in Data, b # <<>>
    PROVE  g \o Append(w, Head(b)) \o Tail(b) = g \o w \o b
<1>. DEFINE h == Head(b)
            t == Tail(b)
            v == Append(w, h)
<1>1. h \in Nat /\ t \in Data
  BY Unit
<1>2. v \in Data /\ v \o t = w \o b
  BY UnitMoves
<1>. HIDE DEF h, t, v
<1>3. (g \o v) \o t = g \o (v \o t)
  BY <1>1, <1>2, Regroup
<1>4. (g \o w) \o b = g \o (w \o b)
  BY Regroup
<1>5. (g \o v) \o t = (g \o w) \o b
  BY <1>2, <1>3, <1>4
<1>. QED  BY <1>5 DEF h, t, v

(* A first part of what is unread is taken in hand. *)
LEMMA PartTaken ==
    ASSUME NEW g \in Data, NEW r \in Data, NEW n \in 0..Len(r)
    PROVE  /\ SubSeq(r, 1, n) \in Data /\ SubSeq(r, n+1, Len(r)) \in Data
           /\ g \o SubSeq(r, 1, n) \o SubSeq(r, n+1, Len(r)) = g \o r
<1>. DEFINE s == SubSeq(r, 1, n)
            t == SubSeq(r, n+1, Len(r))
<1>. Len(r) \in Nat /\ n \in Int /\ n <= Len(r) /\ n >= 0
  BY LenProperties DEF Data
<1>1. s \in Data
  <2>1. \A i \in 1..n : r[i] \in Nat
    BY ElementOfSeq DEF Data
  <2>. QED  BY <2>1, SubSeqProperties DEF Data
<1>2. t \in Data
  <2>1. \A i \in n+1..Len(r) : r[i] \in Nat
    BY ElementOfSeq DEF Data
  <2>. QED  BY <2>1, SubSeqProperties DEF Data
<1>3. s \o t = SubSeq(r, 1, Len(r))
  <2>1. r \in Seq(Nat) /\ 1 \in 1..Len(r)+1 /\ n \in 1-1..Len(r) /\ Len(r) \in n..Len(r)
    BY DEF Data
  <2>. QED  BY <2>1, ConcatAdjacentSubSeq
<1>4. s \o t = r
  BY <1>3, SubSeqFull DEF Data
<1>. HIDE DEF s, t
<1>5. (g \o s) \o t = g \o (s \o t)
  BY <1>1, <1>2, Regroup
<1>6. s \in Data /\ t \in Data /\ (g \o s) \o t = g \o r
  BY <1>1, <1>2, <1>4, <1>5
<1>. QED  BY <1>6 DEF s, t

LEMMA NumbersGrow ==
    ASSUME NEW m \in Nat, NEW n \in Nat, m <= n + 1
    PROVE  Numbers(m, n + 1) = Append(Numbers(m, n), n + 1)
<1>1. Numbers(m, n) = [i \in 1..(n-m+1) |-> m+i-1] /\ n-m+1 \in Nat
  BY DEF Numbers
<1>2. Numbers(m, n+1) = [i \in 1..(n-m+2) |-> m+i-1] /\ n-m+2 \in Nat
  BY DEF Numbers
<1>3. Numbers(m, n) \in Data /\ Numbers(m, n+1) \in Data
      /\ Len(Numbers(m, n)) = n-m+1 /\ Len(Numbers(m, n+1)) = n-m+2
  BY <1>1, <1>2 DEF Data
<1>4. Append(Numbers(m, n), n+1) \in Data /\ Len(Append(Numbers(m, n), n+1)) = n-m+2
  BY <1>3 DEF Data
<1>5. ASSUME NEW i \in 1..(n-m+2) PROVE Numbers(m, n+1)[i] = Append(Numbers(m, n), n+1)[i]
  BY <1>1, <1>2, <1>3 DEF Data
<1>. QED  BY <1>3, <1>4, <1>5, SeqEqual DEF Data

LEMMA NumbersStart ==
    ASSUME NEW m \in Nat, NEW n \in Nat
    PROVE  /\ Numbers(m, n) \in Data
           /\ n < m => Numbers(m, n) = <<>>
           /\ Len(Numbers(1, n)) = n
<1>1. n < m => Numbers(m, n) = <<>>
  BY DEF Numbers
<1>2. Numbers(m, n) \in Data
  BY DEF Numbers, Data
<1>3. Len(Numbers(1, n)) = n
  BY DEF Numbers
<1>. QED  BY <1>1, <1>2, <1>3

----------------------------------------------------------------------------
(* What the parts of a stream are. *)

LEMMA Parts ==
    ASSUME TypeInv, NEW e \in Sides
    PROVE  /\ Other(e) \in Sides /\ Other(e) # e /\ Other(Other(e)) = e
           /\ got[e] \in Data /\ wq[e] \in Data /\ InHand(e) \in Data /\ rq[Other(e)] \in Data
           /\ got[e] \o wq[e] \in Data /\ got[e] \o wq[e] \o InHand(e) \in Data
           /\ Flow(e) \in Data
<1>1. Other(e) \in Sides /\ Other(e) # e /\ Other(Other(e)) = e
  BY DEF Sides, Other
<1>2. <<>> \in Data
  BY DEF Data
<1>3. got[e] \in Data /\ wq[e] \in Data /\ InHand(e) \in Data /\ rq[Other(e)] \in Data
  BY <1>1, <1>2 DEF TypeInv, InHand
<1>4. got[e] \o wq[e] \in Data
  BY <1>3, Closed
<1>5. got[e] \o wq[e] \o InHand(e) \in Data
  BY <1>3, <1>4, Closed
<1>6. Flow(e) \in Data
  BY <1>3, <1>5, Closed DEF Flow
<1>. QED  BY <1>1, <1>3, <1>4, <1>5, <1>6

(* Nothing is due twice: what is in hand while nothing is written is nothing. *)
LEMMA FlowAtRest ==
    ASSUME TypeInv, NEW e \in Sides, buf = <<>>
    PROVE  Flow(e) = got[e] \o wq[e] \o rq[Other(e)]
<1>1. InHand(e) = <<>>
  BY DEF InHand
<1>2. (got[e] \o wq[e]) \o <<>> = got[e] \o wq[e]
  BY Parts, Nothing
<1>. QED  BY <1>1, <1>2 DEF Flow

LEMMA SameDue ==
    ASSUME UNCHANGED asked, UNCHANGED sent, Replies' = Replies, NEW e \in Sides
    PROVE  Due(e)' = Due(e)
BY DEF Due, asked

LEMMA DueTyped ==
    ASSUME TypeInv, NEW e \in Sides
    PROVE  Replies \in Data /\ Due(e) \in Data
<1>1. Replies \in Data
  BY DEF Replies, Data, ACCEPTED
<1>2. Numbers(lost + 1, sent["c"]) \in Data /\ Numbers(1, sent["s"]) \in Data
  BY NumbersStart DEF TypeInv, Sides
<1>3. (IF parsed = request THEN <<>> ELSE <<REST>>) \in Data
  BY DEF Data, REST
<1>. QED  BY <1>1, <1>2, <1>3, Closed DEF Due

LEMMA StreamInvInit == Init => StreamInv
<1> SUFFICES ASSUME Init PROVE StreamInv
  OBVIOUS
<1>0. <<>> \in Data
  BY DEF Data
<1>1. TypeInv
  BY <1>0 DEF Init, TypeInv, Places, Sides
<1>2. Numbers(1, 0) = <<>>
  BY NumbersStart
<1>3. lost <= sent["c"] /\ Early
  <2>1. lost = 0 /\ sent["c"] = 0 /\ sent["s"] = 0 /\ got["s"] = <<>> /\ wq["s"] = <<>>
        /\ rq["c"] = <<>> /\ rq["s"] = <<>> /\ pc = "request" /\ then = "request" /\ to = "c"
    BY DEF Init, Sides
  <2>. QED  BY <1>2, <2>1 DEF Early
<1>4. Ended
  BY DEF Init, Ended, Other, Sides
<1>5. Flow("c") = Due("c")
  <2>1. Flow("c") = <<>> \o <<>> \o <<>> \o <<>>
    BY DEF Flow, InHand, Init, Sides, Other
  <2>2. Due("c") = <<>> \o <<>>
    BY <1>2 DEF Due, Replies, Init, Sides
  <2>3. <<>> \o <<>> = <<>>
    BY <1>0, Nothing
  <2>. QED  BY <2>1, <2>2, <2>3
<1>6. Streams
  BY <1>5 DEF Init, Streams, Sides
<1>. QED  BY <1>1, <1>3, <1>4, <1>6 DEF StreamInv

----------------------------------------------------------------------------
(* The steps of the process. *)

LEMMA RequestStreams == StreamInv /\ Request => StreamInv'
<1> SUFFICES ASSUME StreamInv, Request PROVE StreamInv'
  OBVIOUS
<1>1. /\ pc = "request" /\ then = "request" /\ then' = then /\ TypeInv
      /\ pc' \in {"refuse", "reject", "connect", "bind"}
      /\ pc' = "connect" => parsed'.cd = CONNECT
      /\ pc' = "bind" => parsed'.cd = BIND
  BY DEF StreamInv, Request, At, TypeInv, Places
<1>2. Live /\ ~Relaying /\ ~Relaying'
  BY <1>1 DEF Live, Relaying
<1>3. /\ to = "c" /\ got["s"] = <<>> /\ wq["s"] = <<>> /\ rq["s"] = <<>> /\ sent["s"] = 0
      /\ rq["c"] = Numbers(1, sent["c"]) /\ sent["c"] \in Nat /\ rq["c"] \in Data
  BY <1>1, <1>2 DEF StreamInv, Early, TypeInv, Sides
<1>4. Len(rq["c"]) = sent["c"]
  BY <1>3, NumbersStart
<1>5. /\ UNCHANGED <<request, ready, buf, to, then, wq, sent, got, fin, gone, cut, ended>>
      /\ lost' = IF parsed' = request THEN sent["c"] ELSE 0
      /\ rq' = [rq EXCEPT !["c"] = IF parsed' = request THEN <<>> ELSE <<REST>> \o @]
  BY <1>4 DEF Request, peers
<1>6. <<REST>> \o rq["c"] \in Data /\ <<>> \in Data
  <2>1. <<REST>> \in Data /\ <<>> \in Data
    BY DEF Data, REST
  <2>. QED  BY <1>3, <2>1, Closed
<1>7. /\ rq'["s"] = rq["s"]
      /\ rq'["c"] = IF parsed' = request THEN <<>> ELSE <<REST>> \o rq["c"]
      /\ rq' \in [Sides -> Data]
  BY <1>1, <1>5, <1>6 DEF TypeInv, Sides
<1>8. TypeInv' /\ lost' <= sent'["c"]
  <2>1. lost' \in Nat /\ lost' <= sent'["c"]
    BY <1>3, <1>5
  <2>2. <<pc', then'>> \in Places
    BY <1>1 DEF Places
  <2>. QED  BY <1>1, <1>5, <1>7, <2>1, <2>2 DEF TypeInv
<1>9. Early'
  BY <1>1, <1>3, <1>5, <1>7 DEF Early
<1>10. Ended'
  BY <1>1, <1>5 DEF StreamInv, Ended, Other, Sides
<1>11. buf = <<>>
  BY <1>1 DEF StreamInv, Ended
<1>12. ASSUME Live' PROVE Flow("s")' = Due("s")'
  <2>1. Flow("s")' = <<>> \o <<>> \o <<>> \o rq'["c"]
    BY <1>3, <1>5 DEF Flow, InHand, Other
  <2>2. <<>> \o <<>> = <<>> /\ <<>> \o rq'["c"] = rq'["c"]
    BY <1>6, <1>7, Nothing
  <2>3. CASE parsed' = request
    <3>1. Numbers(lost' + 1, sent["c"]) = <<>>
      <4>1. lost' = sent["c"] /\ sent["c"] + 1 \in Nat /\ sent["c"] < sent["c"] + 1
        BY <1>3, <1>5, <2>3
      <4>. QED  BY <1>3, <4>1, NumbersStart
    <3>2. Due("s")' = <<>> \o <<>>
      BY <1>5, <2>3, <3>1 DEF Due
    <3>. QED  BY <1>7, <2>1, <2>2, <2>3, <3>2
  <2>4. CASE parsed' # request
    <3>1. lost' + 1 = 1
      BY <1>5, <2>4
    <3>2. Due("s")' = <<REST>> \o rq["c"]
      BY <1>3, <1>5, <2>4, <3>1 DEF Due
    <3>. QED  BY <1>7, <2>1, <2>2, <2>4, <3>2
  <2>. QED  BY <2>3, <2>4
<1>13. ASSUME Live', ~gone["c"] PROVE Flow("c")' = Due("c")'
  <2>1. Flow("c") = Due("c")
    BY <1>2, <1>13 DEF StreamInv, Streams, Sides
  <2>2. Flow("c")' = Flow("c")
    BY <1>5, <1>7 DEF Flow, InHand, Other
  <2>3. Replies = <<>> /\ Replies' = <<>>
    BY <1>1, <1>13 DEF Replies, Live
  <2>4. Due("c")' = Due("c")
    BY <1>5, <2>3 DEF Due
  <2>. QED  BY <2>1, <2>2, <2>4
<1>14. Streams'
  BY <1>5, <1>12, <1>13 DEF Streams, Sides
<1>. QED  BY <1>8, <1>9, <1>10, <1>14 DEF StreamInv

(* The end of the process, for whatever reason. *)
LEMMA FinishStreams ==
    ASSUME StreamInv, NEW x, Finish(x), UNCHANGED asked, pc # "closed",
           x = "" \/ (pc = "relay" /\ x \in Sides /\ rq[x] = <<>>)
    PROVE  StreamInv'
<1>1. /\ pc' = "closed" /\ then' = "closed" /\ ended' = x /\ cut' \subseteq Sides
      /\ ready' = {} /\ buf' = <<>>
      /\ UNCHANGED <<to, rq, wq, sent, got, fin, gone, lost, parsed, request>> /\ TypeInv
  BY DEF Finish, peers, asked, StreamInv
<1>2. TypeInv' /\ lost' <= sent'["c"]
  <2>1. <<pc', then'>> \in Places
    BY <1>1 DEF Places
  <2>2. buf' \in Data
    BY <1>1, EmptyData
  <2>. QED  BY <1>1, <2>1, <2>2 DEF TypeInv, StreamInv
<1>3. ~Live'
  BY <1>1 DEF Live
<1>4. ASSUME NEW e \in Sides, ended' = Other(e), ~gone[e]
      PROVE  got[e] \o wq[e] = Due(e)'
  <2>1. pc = "relay" /\ rq[Other(e)] = <<>> /\ then \in {"select", "relay"}
    BY <1>1, <1>4 DEF Other, Sides, TypeInv, Places
  <2>2. Flow(e) = Due(e)
    BY <1>4, <2>1 DEF StreamInv, Streams, Live
  <2>3. Flow(e) = got[e] \o wq[e] \o <<>>
    BY <1>1, <2>1, FlowAtRest DEF StreamInv, Ended
  <2>4. Flow(e) = got[e] \o wq[e]
    BY <1>1, <2>3, Parts, Nothing
  <2>5. Replies' = Replies
    BY <1>1, <2>1 DEF Replies, At
  <2>. QED  BY <1>1, <2>2, <2>4, <2>5, SameDue
<1>5. Ended'
  BY <1>1, <1>4 DEF Ended
<1>. QED  BY <1>2, <1>3, <1>5 DEF StreamInv, Early, Streams

LEMMA ReplyStreams ==
    ASSUME StreamInv, Reject \/ Connect \/ Bind \/ Accept
    PROVE  StreamInv'
<1>1. /\ UNCHANGED <<request, parsed, lost, ready, rq, wq, sent, got, fin, gone, cut, ended>>
      /\ pc' = "write" /\ to' = "c" /\ TypeInv
  BY DEF Reject, Connect, Bind, Accept, Write, asked, peers, StreamInv
<1>2. buf' = <<REJECTED>> \/ buf' = <<ACCEPTED>>
  BY DEF Reject, Connect, Bind, Accept, Write
<1>3. \/ pc = "reject" /\ then' = "refuse"
      \/ pc = "connect" /\ then' = "select" /\ buf' = <<ACCEPTED>>
      \/ pc = "bind" /\ then' = "accept" /\ buf' = <<ACCEPTED>>
      \/ pc = "accept" /\ then' = "select" /\ buf' = <<ACCEPTED>>
  BY DEF Reject, Connect, Bind, Accept, Write, At
<1>4. TypeInv' /\ lost' <= sent'["c"]
  <2>1. <<pc', then'>> \in Places /\ buf' \in Data /\ to' \in Sides
    BY <1>1, <1>2, <1>3 DEF Places, Data, ACCEPTED, REJECTED, Sides
  <2>. QED  BY <1>1, <2>1 DEF TypeInv, StreamInv
<1>5. Ended'
  BY <1>1, <1>3 DEF Ended, StreamInv, Other, Sides
<1>6. ASSUME then' # "refuse"
      PROVE  /\ Live /\ ~Relaying /\ got["s"] = <<>> /\ wq["s"] = <<>> /\ rq["s"] = <<>>
             /\ sent["s"] = 0 /\ buf = <<>>
             /\ pc = "connect" => parsed.cd = CONNECT
             /\ pc \in {"bind", "accept"} => parsed.cd = BIND
  <2>1. Live /\ ~Relaying
    BY <1>1, <1>3, <1>6 DEF Live, Relaying, TypeInv, Places
  <2>. QED  BY <1>3, <1>6, <2>1 DEF StreamInv, Early, Ended
<1>7. Early'
  BY <1>1, <1>3, <1>6 DEF Early, Live, Relaying
<1>8. ASSUME then' # "refuse" PROVE Flow("s")' = Due("s")' \/ gone["s"]
  <2>1. Flow("s") = Due("s") \/ gone["s"]
    BY <1>3, <1>6, <1>8 DEF StreamInv, Streams, Sides
  <2>2. Flow("s")' = Flow("s")
    BY <1>1, <1>6, <1>8 DEF Flow, InHand, Other
  <2>3. Due("s")' = Due("s")
    BY <1>1 DEF Due
  <2>. QED  BY <2>1, <2>2, <2>3
<1>9. ASSUME then' # "refuse", ~gone["c"] PROVE Flow("c")' = Due("c")'
  <2>1. Flow("c") = Due("c")
    BY <1>6, <1>9 DEF StreamInv, Streams, Sides
  <2>2. Flow("c") = got["c"] \o wq["c"] \o <<>>
    BY <1>1, <1>6, <1>9, FlowAtRest DEF Sides, Other
  <2>3. Flow("c") = got["c"] \o wq["c"] /\ got["c"] \o wq["c"] \in Data
    BY <1>1, <2>2, Parts, Nothing DEF Sides
  <2>4. Numbers(1, 0) = <<>>
    BY NumbersStart
  <2>5. Due("c") = Replies /\ Replies \in Data
    <3>1. Replies \in Data
      BY <1>1, DueTyped DEF Sides
    <3>2. Due("c") = Replies \o <<>>
      BY <1>6, <1>9, <2>4 DEF Due
    <3>. QED  BY <3>1, <3>2, Nothing
  <2>6. Flow("c")' = Replies \o <<ACCEPTED>> \o <<>>
    BY <1>1, <1>3, <1>6, <1>9, <2>1, <2>3, <2>5 DEF Flow, InHand, Other
  <2>7. Replies' = Replies \o <<ACCEPTED>> /\ Replies' \in Data
    <3>1. CASE pc = "accept"
      <4>1. parsed.cd = 2 /\ then = "accept" /\ then' = "select"
        BY <1>1, <1>3, <1>6, <1>9, <3>1 DEF BIND, TypeInv, Places
      <4>2. Replies = <<ACCEPTED>> /\ Replies' = <<ACCEPTED, ACCEPTED>>
        BY <1>1, <3>1, <4>1 DEF Replies, At, CONNECT
      <4>. QED  BY <4>2 DEF Data, ACCEPTED
    <3>2. CASE pc # "accept"
      <4>1. Replies = <<>>
        BY <1>3, <1>9, <3>2 DEF Replies
      <4>2. Replies' = <<ACCEPTED>>
        BY <1>1, <1>3, <1>6, <1>9, <3>2 DEF Replies, At
      <4>. QED  BY <4>1, <4>2 DEF Data, ACCEPTED
    <3>. QED  BY <3>1, <3>2
  <2>8. Due("c")' = Replies' \o <<>>
    <3>1. sent'["s"] = 0
      BY <1>1, <1>6, <1>9
    <3>. QED  BY <2>4, <3>1 DEF Due
  <2>. QED  BY <2>6, <2>7, <2>8
<1>10. Streams'
  BY <1>1, <1>8, <1>9 DEF Streams, Sides, Live
<1>. QED  BY <1>4, <1>5, <1>7, <1>10 DEF StreamInv

LEMMA WriteStreams ==
    ASSUME StreamInv, WriteUnit
    PROVE  StreamInv'
<1>1. /\ pc = "write" /\ buf # <<>> /\ TypeInv /\ to \in Sides
      /\ UNCHANGED <<pc, request, parsed, lost, ready, to, then, rq, sent, got, gone, cut, ended>>
      /\ buf' = Tail(buf) /\ wq' = [wq EXCEPT ![to] = Append(wq[to], Head(buf))]
      /\ UNCHANGED asked
  BY DEF WriteUnit, At, asked, peers, StreamInv, TypeInv
<1>2. /\ buf \in Data /\ buf' \in Data /\ wq[to] \in Data /\ got[to] \in Data
      /\ Append(wq[to], Head(buf)) \in Data
  BY <1>1, Unit, Appended DEF TypeInv
<1>3. /\ wq' \in [Sides -> Data] /\ wq'[to] = Append(wq[to], Head(buf))
      /\ \A e \in Sides : e # to => wq'[e] = wq[e]
  BY <1>1, <1>2 DEF TypeInv
<1>4. TypeInv' /\ lost' <= sent'["c"]
  BY <1>1, <1>2, <1>3 DEF TypeInv, StreamInv
<1>5. Ended'
  BY <1>1 DEF Ended, StreamInv, Other, Sides
<1>6. Early'
  BY <1>1, <1>3 DEF StreamInv, Early, Live, Relaying, Sides
<1>7. ASSUME NEW e \in Sides PROVE Flow(e)' = Flow(e)
  <2>1. CASE e = to
    <3>0. got[to] \o Append(wq[to], Head(buf)) \o Tail(buf) = got[to] \o wq[to] \o buf
      BY <1>1, <1>2, UnitWritten
    <3>1. got[to] \o wq'[to] \o buf' = got[to] \o wq[to] \o buf
      BY <1>1, <1>3, <3>0
    <3>. QED  BY <1>1, <2>1, <3>1 DEF Flow, InHand
  <2>2. CASE e # to
    BY <1>1, <1>3, <2>2 DEF Flow, InHand
  <2>. QED  BY <2>1, <2>2
<1>8. Replies' = Replies
  BY <1>1 DEF Replies, At
<1>9. Streams'
  BY <1>1, <1>7, <1>8, SameDue DEF StreamInv, Streams, Live
<1>. QED  BY <1>4, <1>5, <1>6, <1>9 DEF StreamInv

(* Nothing that a peer's stream is made of changes. *)
LEMMA QuietStreams ==
    ASSUME StreamInv, (WriteToGone /\ buf' = <<>> /\ pc' = pc) \/ Written \/ Select
    PROVE  StreamInv'
<1>1. /\ UNCHANGED <<request, parsed, lost, to, rq, wq, sent, got, gone, cut, ended>>
      /\ UNCHANGED asked /\ then' = then /\ buf' = <<>> /\ TypeInv /\ pc # "closed"
      /\ \/ pc = "write" /\ pc' \in {"write", then}
         \/ pc = "select" /\ pc' = "relay"
      /\ buf = <<>> \/ gone[to]
  <2>1. CASE WriteToGone /\ buf' = <<>> /\ pc' = pc
    <3>1. pc = "write" /\ UNCHANGED <<pc, to, then, rq, wq, peers, cut, ended>>
      BY <2>1 DEF WriteToGone, Finish, At
    <3>2. gone[to] /\ UNCHANGED asked
      BY <2>1 DEF WriteToGone
    <3>. QED  BY <2>1, <3>1, <3>2 DEF asked, peers, StreamInv
  <2>2. CASE Written
    <3>1. pc = "write" /\ pc' = then /\ UNCHANGED <<buf, to, then, rq, wq, peers, cut, ended>>
      BY <2>2 DEF Written, At
    <3>2. buf = <<>> /\ UNCHANGED asked
      BY <2>2 DEF Written, asked
    <3>. QED  BY <3>1, <3>2 DEF asked, peers, StreamInv
  <2>3. CASE Select
    BY <2>3 DEF Select, At, asked, peers, StreamInv, Ended
  <2>. QED  BY <2>1, <2>2, <2>3
<1>2. ready' \subseteq Sides
  BY <1>1 DEF WriteToGone, Finish, Written, Select, TypeInv
<1>3. TypeInv' /\ lost' <= sent'["c"]
  <2>1. <<pc', then'>> \in Places
    BY <1>1 DEF TypeInv, Places
  <2>2. buf' \in Data
    BY <1>1, EmptyData
  <2>. QED  BY <1>1, <1>2, <2>1, <2>2 DEF TypeInv, StreamInv
<1>4. Ended'
  <2>1. pc' # "closed"
    BY <1>1 DEF TypeInv, Places
  <2>. QED  BY <1>1, <2>1 DEF Ended, StreamInv, Other
<1>5. (Live' => Live) /\ pc # "request" /\ pc' # "request" /\ (Relaying' <=> Relaying)
  BY <1>1 DEF Live, Relaying, TypeInv, Places
<1>6. Early'
  BY <1>1, <1>5 DEF StreamInv, Early, TypeInv, Places
<1>7. ASSUME NEW e \in Sides, ~gone[e] PROVE Flow(e)' = Flow(e)
  BY <1>1, <1>7 DEF Flow, InHand
<1>8. Live' => Replies' = Replies
  BY <1>1 DEF Replies, At, Live, TypeInv, Places
<1>9. Streams'
  BY <1>1, <1>5, <1>7, <1>8, SameDue DEF StreamInv, Streams
<1>. QED  BY <1>3, <1>4, <1>6, <1>9 DEF StreamInv

LEMMA RelayStreams ==
    ASSUME StreamInv, Relay
    PROVE  StreamInv'
<1>0. PICK x \in Sides : x = Side
  BY DEF Side, Sides
<1>. DEFINE n == IF Len(rq[x]) < MAXBUFFSIZE THEN Len(rq[x]) ELSE MAXBUFFSIZE
<1>1. /\ pc = "relay" /\ TypeInv /\ then \in {"select", "relay"} /\ buf = <<>>
      /\ x \in Sides /\ pc' = "write" /\ then' \in {"select", "relay"}
      /\ UNCHANGED <<request, parsed, lost, wq, sent, got, gone, cut, ended>> /\ UNCHANGED asked
      /\ ready' = ready \ {x} /\ to' = Other(x)
      /\ buf' = SubSeq(rq[x], 1, n)
      /\ rq' = [rq EXCEPT ![x] = SubSeq(rq[x], n + 1, Len(rq[x]))]
  BY <1>0 DEF Relay, Write, At, asked, peers, StreamInv, TypeInv, Places, Sides, Ended
<1>2. rq[x] \in Data /\ n \in 0..Len(rq[x])
  <2>1. rq[x] \in Data
    BY <1>1 DEF TypeInv
  <2>2. Len(rq[x]) \in Nat
    BY <2>1, LenProperties DEF Data
  <2>3. MAXBUFFSIZE \in Nat
    BY SocksSessionAssumption
  <2>. QED  BY <2>1, <2>2, <2>3
<1>. HIDE DEF n
<1>3. Other(x) \in Sides /\ Other(x) # x /\ Other(Other(x)) = x
  BY <1>1, Parts
<1>4. /\ buf' \in Data /\ rq'[x] \in Data /\ rq'[x] = SubSeq(rq[x], n + 1, Len(rq[x]))
      /\ rq' \in [Sides -> Data] /\ rq'[Other(x)] = rq[Other(x)]
  <2>1. SubSeq(rq[x], 1, n) \in Data /\ SubSeq(rq[x], n + 1, Len(rq[x])) \in Data
    BY <1>2, PartTaken, Nothing
  <2>. QED  BY <1>1, <1>3, <2>1 DEF TypeInv
<1>5. TypeInv' /\ lost' <= sent'["c"]
  <2>1. <<pc', then'>> \in Places
    BY <1>1 DEF Places
  <2>. QED  BY <1>1, <1>3, <1>4, <2>1 DEF TypeInv, StreamInv
<1>6. Ended'
  BY <1>1 DEF Ended, StreamInv, Other
<1>7. Early'
  BY <1>1 DEF Early, Relaying
<1>8. Flow(Other(x))' = Flow(Other(x))
  <2>. DEFINE g == got[Other(x)] \o wq[Other(x)]
  <2>1. g \in Data /\ Flow(Other(x)) = g \o rq[x]
    BY <1>1, <1>3, Parts, FlowAtRest
  <2>2. Flow(Other(x))' = g \o SubSeq(rq[x], 1, n) \o SubSeq(rq[x], n + 1, Len(rq[x]))
    BY <1>1, <1>3, <1>4 DEF Flow, InHand
  <2>. HIDE DEF g
  <2>. QED  BY <1>2, <2>1, <2>2, PartTaken
<1>9. Flow(x)' = Flow(x)
  <2>1. InHand(x) = <<>> /\ InHand(x)' = <<>>
    BY <1>1, <1>3 DEF InHand
  <2>. QED  BY <1>1, <1>4, <2>1 DEF Flow
<1>10. Replies' = Replies
  BY <1>1 DEF Replies, At
<1>11. \A e \in Sides : Flow(e)' = Flow(e) /\ Due(e)' = Due(e)
  <2>1. \A e \in Sides : e \in {x, Other(x)}
    BY <1>1, <1>3 DEF Sides, Other
  <2>2. \A e \in Sides : Due(e)' = Due(e)
    BY <1>1, <1>10, SameDue
  <2>. QED  BY <1>8, <1>9, <2>1, <2>2
<1>12. Streams'
  BY <1>1, <1>11 DEF StreamInv, Streams, Live
<1>. QED  BY <1>5, <1>6, <1>7, <1>12 DEF StreamInv

----------------------------------------------------------------------------
(* The steps of the peers. *)

LEMMA SendStreams ==
    ASSUME StreamInv, NEW x \in Sides, Send(x)
    PROVE  StreamInv'
<1>1. /\ pc # "closed" /\ TypeInv /\ Connected(x) /\ lost <= sent["c"] /\ sent[x] \in Nat
      /\ UNCHANGED <<pc, request, parsed, lost, ready, buf, to, then, wq, got, gone, cut, ended>>
      /\ sent' = [sent EXCEPT ![x] = sent[x] + 1]
      /\ rq' = [rq EXCEPT ![x] = Append(rq[x], sent[x] + 1)]
  BY DEF Send, At, asked, StreamInv, TypeInv
<1>2. rq[x] \in Data /\ Append(rq[x], sent[x] + 1) \in Data
      /\ Append(rq[x], sent[x] + 1) = rq[x] \o <<sent[x] + 1>> /\ <<sent[x] + 1>> \in Data
  <2>1. rq[x] \in Data /\ sent[x] + 1 \in Nat
    BY <1>1 DEF TypeInv
  <2>. QED  BY <2>1, Appended
<1>3. /\ rq' \in [Sides -> Data] /\ rq'[x] = rq[x] \o <<sent[x] + 1>>
      /\ \A e \in Sides : e # x => rq'[e] = rq[e] /\ sent'[e] = sent[e]
      /\ sent' \in [Sides -> Nat] /\ sent'[x] = sent[x] + 1
  BY <1>1, <1>2 DEF TypeInv
<1>4. TypeInv' /\ lost' <= sent'["c"]
  <2>1. lost' <= sent'["c"]
    <3>1. CASE x = "c"
      BY <1>1, <1>3, <3>1 DEF TypeInv
    <3>2. CASE x # "c"
      BY <1>1, <1>3, <3>2 DEF Sides
    <3>. QED  BY <3>1, <3>2
  <2>. QED  BY <1>1, <1>3, <2>1 DEF TypeInv
<1>5. Ended'
  BY <1>1 DEF Ended, StreamInv, Other
<1>6. Early'
  <2>1. SUFFICES ASSUME Live, ~Relaying
        PROVE /\ rq'["s"] = <<>> /\ sent'["s"] = 0
              /\ pc = "request" => lost = 0 /\ rq'["c"] = Numbers(1, sent'["c"])
    BY <1>1 DEF StreamInv, Early, Live, Relaying
  <2>2. x = "c"
    BY <1>1, <2>1 DEF Connected, Relaying
  <2>3. rq'["s"] = <<>> /\ sent'["s"] = 0
    BY <1>3, <2>1, <2>2 DEF StreamInv, Early, Sides
  <2>4. ASSUME pc = "request" PROVE lost = 0 /\ rq'["c"] = Numbers(1, sent'["c"])
    <3>1. lost = 0 /\ rq["c"] = Numbers(1, sent["c"])
      BY <2>1, <2>4 DEF StreamInv, Early
    <3>2. sent["c"] \in Nat /\ 1 <= sent["c"] + 1
      BY <1>1, <2>2
    <3>3. Numbers(1, sent["c"] + 1) = Append(Numbers(1, sent["c"]), sent["c"] + 1)
      BY <3>2, NumbersGrow
    <3>. QED  BY <1>1, <1>2, <1>3, <2>2, <3>1, <3>3
  <2>. QED  BY <2>3, <2>4
<1>7. \A e \in Sides : e = Other(x) \/ e = x
  BY DEF Sides, Other
<1>8. Other(x) \in Sides /\ Other(x) # x /\ Other(Other(x)) = x
  BY <1>1, Parts
<1>9. ASSUME Live, Flow(x) = Due(x) PROVE Flow(x)' = Due(x)'
  <2>1. Flow(x)' = Flow(x)
    BY <1>1, <1>3, <1>8 DEF Flow, InHand
  <2>2. Replies' = Replies
    BY <1>1 DEF Replies, At
  <2>3. Due(x)' = Due(x)
    BY <1>1, <1>3, <2>2 DEF Due, Sides
  <2>. QED  BY <1>9, <2>1, <2>3
<1>10. ASSUME Live, Flow(Other(x)) = Due(Other(x)) PROVE Flow(Other(x))' = Due(Other(x))'
  <2>. DEFINE g == got[Other(x)] \o wq[Other(x)] \o InHand(Other(x))
              u == <<sent[x] + 1>>
              m == IF x = "c" THEN lost + 1 ELSE 1
              p == IF x = "c" THEN IF parsed = request THEN <<>> ELSE <<REST>> ELSE Replies
  <2>1. g \in Data /\ Flow(Other(x)) = g \o rq[x]
    BY <1>1, <1>8, Parts DEF Flow
  <2>2. Flow(Other(x))' = g \o (rq[x] \o u)
    BY <1>1, <1>3, <1>8 DEF Flow, InHand
  <2>3. u \in Data
    BY <1>2
  <2>4. Replies' = Replies
    BY <1>1 DEF Replies, At
  <2>5. Due(Other(x)) = p \o Numbers(m, sent[x]) /\ Due(Other(x))' = p \o Numbers(m, sent'[x])
    BY <1>1, <2>4 DEF Due, Sides, Other
  <2>6. m \in Nat /\ m <= sent[x] + 1
    BY <1>1 DEF TypeInv
  <2>7. p \in Data
    <3>1. Replies \in Data
      BY <1>1, DueTyped
    <3>. QED  BY <3>1 DEF Data, REST
  <2>. HIDE DEF g, p, u, m
  <2>8. Numbers(m, sent[x]) \in Data
    BY <1>1, <2>6, NumbersStart
  <2>9. Numbers(m, sent[x] + 1) = Numbers(m, sent[x]) \o u
    <3>1. Numbers(m, sent[x] + 1) = Append(Numbers(m, sent[x]), sent[x] + 1)
      BY <1>1, <2>6, NumbersGrow
    <3>2. sent[x] + 1 \in Nat
      BY <1>1
    <3>. QED  BY <2>8, <3>1, <3>2, Appended DEF u
  <2>10. (g \o rq[x]) \o u = g \o (rq[x] \o u)
    BY <1>2, <2>1, <2>3, Regroup
  <2>11. (p \o Numbers(m, sent[x])) \o u = p \o (Numbers(m, sent[x]) \o u)
    BY <2>3, <2>7, <2>8, Regroup
  <2>. QED  BY <1>3, <1>10, <2>1, <2>2, <2>5, <2>9, <2>10, <2>11
<1>11. Streams'
  <2>1. SUFFICES ASSUME Live, NEW e \in Sides, ~(gone[e] \/ (pc = "request" /\ e = "s"))
        PROVE  Flow(e)' = Due(e)'
    BY <1>1 DEF Streams, Live
  <2>2. Flow(e) = Due(e)
    BY <2>1 DEF StreamInv, Streams
  <2>. QED  BY <1>7, <1>9, <1>10, <2>1, <2>2
<1>. QED  BY <1>4, <1>5, <1>6, <1>11 DEF StreamInv

LEMMA ReceiveStreams ==
    ASSUME StreamInv, NEW x \in Sides, Receive(x)
    PROVE  StreamInv'
<1>1. /\ wq[x] # <<>> /\ TypeInv
      /\ UNCHANGED <<pc, request, parsed, lost, ready, buf, to, then, rq, sent, gone, cut, ended>>
      /\ wq' = [wq EXCEPT ![x] = Tail(wq[x])]
      /\ got' = [got EXCEPT ![x] = Append(got[x], Head(wq[x]))]
      /\ UNCHANGED asked
  BY DEF Receive, asked, StreamInv
<1>2. /\ wq[x] \in Data /\ got[x] \in Data /\ Tail(wq[x]) \in Data
      /\ Append(got[x], Head(wq[x])) \in Data
      /\ Append(got[x], Head(wq[x])) \o Tail(wq[x]) = got[x] \o wq[x]
  <2>1. wq[x] \in Data /\ got[x] \in Data
    BY <1>1 DEF TypeInv
  <2>. QED  BY <1>1, <2>1, Unit, UnitMoves
<1>3. wq' \in [Sides -> Data] /\ got' \in [Sides -> Data]
  BY <1>1, <1>2 DEF TypeInv
<1>4. \A e \in Sides : got'[e] \o wq'[e] = got[e] \o wq[e]
  <2>1. got'[x] \o wq'[x] = got[x] \o wq[x]
    BY <1>1, <1>2 DEF TypeInv
  <2>2. \A e \in Sides : e # x => got'[e] \o wq'[e] = got[e] \o wq[e]
    BY <1>1 DEF TypeInv
  <2>. QED  BY <2>1, <2>2
<1>5. TypeInv' /\ lost' <= sent'["c"]
  BY <1>1, <1>3 DEF TypeInv, StreamInv
<1>6. \A e \in Sides : Flow(e)' = Flow(e) /\ Due(e)' = Due(e)
  <2>1. Replies' = Replies
    BY <1>1 DEF Replies, At
  <2>. QED  BY <1>1, <1>4, <2>1, SameDue DEF Flow, InHand
<1>7. Ended'
  BY <1>1, <1>4, <1>6 DEF Ended, StreamInv
<1>8. Streams'
  BY <1>1, <1>6 DEF Streams, StreamInv, Live
<1>9. Early'
  <2>1. SUFFICES ASSUME Live, ~Relaying PROVE got'["s"] = <<>> /\ wq'["s"] = <<>>
    BY <1>1 DEF StreamInv, Early, Live, Relaying
  <2>2. wq["s"] = <<>> /\ got["s"] = <<>>
    BY <2>1 DEF StreamInv, Early
  <2>3. x # "s"
    BY <1>1, <2>2
  <2>. QED  BY <1>1, <2>2, <2>3 DEF TypeInv, Sides
<1>. QED  BY <1>5, <1>7, <1>8, <1>9 DEF StreamInv

(* A peer leaves, or loses what was under way to it. *)
LEMMA DropStreams ==
    ASSUME StreamInv, NEW x \in Sides, Leave(x) \/ Reset(x)
    PROVE  StreamInv'
<1>1. /\ TypeInv /\ UNCHANGED asked
      /\ UNCHANGED <<pc, request, parsed, lost, ready, buf, to, then, rq, sent, got, cut, ended>>
      /\ wq' = [wq EXCEPT ![x] = <<>>]
      /\ \/ gone' = [gone EXCEPT ![x] = TRUE] /\ pc # "closed"
         \/ gone' = gone /\ x \in cut
  BY DEF Leave, Reset, asked, peers, StreamInv, At
<1>2. wq' \in [Sides -> Data] /\ wq'[x] = <<>> /\ \A e \in Sides : e # x => wq'[e] = wq[e]
  BY <1>1, EmptyData DEF TypeInv
<1>3. gone' \in [Sides -> BOOLEAN] /\ \A e \in Sides : e # x => gone'[e] = gone[e]
  BY <1>1 DEF TypeInv
<1>4. (gone'[x] /\ pc # "closed") \/ (gone' = gone /\ x \in cut /\ pc = "closed" /\ ~Live)
  BY <1>1 DEF TypeInv, StreamInv, Ended, Live
<1>5. TypeInv' /\ lost' <= sent'["c"]
  BY <1>1, <1>2, <1>3 DEF TypeInv, StreamInv
<1>6. Replies' = Replies
  BY <1>1 DEF Replies, At
<1>7. \A e \in Sides : e # x => Flow(e)' = Flow(e) /\ Due(e)' = Due(e)
  BY <1>1, <1>2, <1>6, SameDue DEF Flow, InHand
<1>8. Streams'
  BY <1>1, <1>3, <1>4, <1>7 DEF Streams, StreamInv, Live
<1>9. Ended'
  <2>1. CASE pc # "closed"
    BY <1>1, <2>1 DEF Ended, StreamInv, Other
  <2>2. CASE pc = "closed"
    BY <1>1, <1>2, <1>4, <1>7, <2>2 DEF Ended, StreamInv
  <2>. QED  BY <2>1, <2>2
<1>10. Early'
  BY <1>1, <1>2 DEF StreamInv, Early, Live, Relaying, Sides
<1>. QED  BY <1>5, <1>8, <1>9, <1>10 DEF StreamInv

LEMMA StreamStep == StreamInv /\ [Next]_vars => StreamInv'
<1> SUFFICES ASSUME StreamInv, [Next]_vars PROVE StreamInv'
  OBVIOUS
<1>1. CASE Request
  BY <1>1, RequestStreams
<1>2. CASE Refuse \/ ConnectFails
  <2>1. Finish("") /\ UNCHANGED asked /\ pc # "closed"
    BY <1>2 DEF Refuse, ConnectFails, At
  <2>. QED  BY <2>1, FinishStreams
<1>3. CASE RelayEnds
  <2>1. PICK x \in Sides : x = Side
    BY DEF Side, Sides
  <2>2. Finish(x) /\ UNCHANGED asked /\ pc = "relay" /\ rq[x] = <<>> /\ pc # "closed"
    BY <1>3, <2>1 DEF RelayEnds, At
  <2>. QED  BY <2>2, FinishStreams
<1>4. CASE Reject \/ Connect \/ Bind \/ Accept
  BY <1>4, ReplyStreams
<1>5. CASE WriteUnit
  BY <1>5, WriteStreams
<1>6. CASE WriteToGone
  <2>1. CASE Finish("")
    <3>1. UNCHANGED asked /\ pc # "closed"
      BY <1>6 DEF WriteToGone, At
    <3>. QED  BY <2>1, <3>1, FinishStreams
  <2>2. CASE buf' = <<>> /\ pc' = pc
    BY <1>6, <2>2, QuietStreams
  <2>. QED  BY <1>6, <2>1, <2>2 DEF WriteToGone
<1>7. CASE Written \/ Select
  BY <1>7, QuietStreams
<1>8. CASE Relay
  BY <1>8, RelayStreams
<1>9. ASSUME NEW x \in Sides, Send(x) \/ Receive(x) \/ Leave(x) \/ Reset(x)
      PROVE  StreamInv'
  BY <1>9, SendStreams, ReceiveStreams, DropStreams
<1>10. ASSUME UNCHANGED <<pc, request, parsed, lost, ready, buf, to, then, rq, wq, sent, got, gone, cut, ended>>
       PROVE  StreamInv'
  <2>1. \A e : Flow(e)' = Flow(e) /\ Due(e)' = Due(e)
    BY <1>10 DEF Flow, InHand, Due, Replies, At
  <2>2. Streams' /\ Ended'
    BY <1>10, <2>1 DEF StreamInv, Streams, Live, Ended
  <2>3. TypeInv' /\ Early' /\ lost' <= sent'["c"]
    BY <1>10 DEF StreamInv, TypeInv, Early, Live, Relaying
  <2>. QED  BY <2>2, <2>3 DEF StreamInv
<1>11. ASSUME NEW x \in Sides, Shutdown(x) PROVE StreamInv'
  BY <1>10, <1>11 DEF Shutdown, asked
<1>12. CASE UNCHANGED vars
  BY <1>10, <1>12 DEF vars
<1>. QED
  BY <1>1, <1>2, <1>3, <1>4, <1>5, <1>6, <1>7, <1>8, <1>9, <1>11, <1>12 DEF Next, Process

(***************************************************************************)
(* relaydata: whatever the sizes of sockets and buffer, in any order of    *)
(* the peers' sending, receiving and leaving, a peer that stays gets the   *)
(* replies and then what the other side has sent, in order, nothing lost   *)
(* or twice, and all of it when the other side has come to its end.        *)
(***************************************************************************)
THEOREM RelayDelivers == Spec => []Delivered
<1>1. StreamInv => Delivered
  <2> SUFFICES ASSUME StreamInv, NEW e \in Sides, ~gone[e]
               PROVE  /\ Relaying => Flow(e) = Due(e)
                      /\ ended = Other(e) /\ e \notin cut => got[e] \o wq[e] = Due(e)
    BY DEF Delivered, Flow, InHand
  <2>1. Relaying => Live /\ pc # "request"
    BY DEF StreamInv, TypeInv, Places, Relaying, Live
  <2>. QED  BY <2>1 DEF StreamInv, Streams, Ended
<1>2. StreamInv /\ [Next]_vars => StreamInv'
  BY StreamStep
<1>. QED  BY <1>1, <1>2, StreamInvInit, PTL DEF Spec
=============================================================================
