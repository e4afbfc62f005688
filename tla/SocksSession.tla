---------------------------- MODULE SocksSession ----------------------------
(***************************************************************************)
(* np_project4/socks_server.cpp: the process that serves one SOCKS 4       *)
(* client: the request, the firewall, CONNECT or BIND, and relaydata.      *)
(*                                                                         *)
(* "c" is the client's connection, "s" the one to the destination (for     *)
(* BIND, from it).  Per connection, rq is what the process has not read    *)
(* yet and wq what it has written and the peer has not received.  Peers    *)
(* number what they send; got is what a peer has received.  A peer may     *)
(* stop sending (fin), or close its socket and be gone.                    *)
(*                                                                         *)
(* An address has two bytes; the first is 0 for SOCKS 4A, with a name to   *)
(* resolve.  read returns what has arrived: the request may be cut short,  *)
(* or come with data behind it.                                            *)
(***************************************************************************)
EXTENDS Integers, Sequences

CONSTANTS
    Requests,    \* [vn, cd, addr, name] a client may send
    Rules,       \* socks.conf, a sequence of [action, mode, mask]
    Resolve,     \* function from names to addresses
    Units,       \* bound: units each peer sends
    Cap,         \* units a socket buffers
    MAXBUFFSIZE

CONNECT == 1
BIND == 2
ACCEPTED == 90   \* reply[1], 0x5A
REJECTED == 91   \* 0x5B
REST == 0        \* what read left of the request
Sides == {"c", "s"}
Other(e) == IF e = "c" THEN "s" ELSE "c"

ASSUME SocksSessionAssumption ==
    /\ \A r \in Requests : DOMAIN r = {"vn", "cd", "addr", "name"}
    /\ Units \in 0..89 /\ Cap \in Nat \ {0} /\ MAXBUFFSIZE \in Nat \ {0}

VARIABLES
    pc,
    request,    \* what the client asks
    parsed,     \* what the process has read of it
    target,     \* dst_ip
    lost,       \* units of data read together with the request
    ready,      \* rfds: what relaydata has still to look at
    buf, to,    \* what is being written, and to whom
    then,       \* where the process goes after that
    rq, wq, sent, got, fin, gone,
    cut,        \* peers who may have lost what was on its way when closed
    ended       \* whose end of file closed the session

vars == <<pc, request, parsed, target, lost, ready, buf, to, then,
          rq, wq, sent, got, fin, gone, cut, ended>>
asked == <<request, parsed, target, lost>>
peers == <<sent, got, fin, gone>>

At(l) == pc = l

----------------------------------------------------------------------------
(* The request and the firewall. *)
None == [vn |-> 0, cd |-> 0, addr |-> <<0, 0>>, name |-> ""]

(* What read may return of r: bytes that have not arrived are 0. *)
Arrived(r) ==
    {None, [None EXCEPT !.vn = r.vn], [None EXCEPT !.vn = r.vn, !.cd = r.cd],
     [r EXCEPT !.addr[2] = 0, !.name = ""], [r EXCEPT !.name = ""], r}

IsDomain(r) == r.addr[1] = 0

compare_ip(ip, mask) == \A i \in DOMAIN ip : mask[i] \in {ip[i], -1}

(* Mutant: a rule is taken to permit whatever its action says. *)
Mut_Permits(rule, ip) == compare_ip(ip, rule.mask)

Permits(rule, ip) == rule.action = "permit" /\ compare_ip(ip, rule.mask)

(* mode_num is not initialised for another mode than c and b. *)
ModeMay(rule, cd) ==
    \/ rule.mode = "c" /\ cd = CONNECT
    \/ rule.mode = "b" /\ cd = BIND
    \/ rule.mode \notin {"c", "b"}

ModeMust(rule, cd) == rule.mode \in {"c", "b"} /\ ModeMay(rule, cd)

(* What get_access_mode may answer: whether some rule permits. *)
get_access_mode(ip, cd) ==
    {a \in BOOLEAN :
        IF a THEN \E i \in DOMAIN Rules : Permits(Rules[i], ip) /\ ModeMay(Rules[i], cd)
        ELSE \A i \in DOMAIN Rules : Permits(Rules[i], ip) => ~ModeMust(Rules[i], cd)}

(***************************************************************************)
(* The end of the process, after an end of file from e (or "").  A socket  *)
(* closed with data unread is reset: its peer may lose what was under way. *)
(***************************************************************************)
Finish(e) ==
    /\ pc' = "closed" /\ ended' = e
    /\ cut' = {o \in Sides : rq[o] # <<>>}
    /\ ready' = {} /\ buf' = <<>> /\ then' = "closed"
    /\ UNCHANGED <<to, rq, wq, peers>>

Write(b, o, l) ==
    /\ pc' = "write" /\ buf' = b /\ to' = o /\ then' = l
    /\ UNCHANGED <<wq, peers, cut, ended>>

----------------------------------------------------------------------------
(* socks_session::run up to the answer of the firewall.  A request too     *)
(* short for a name, or a name unknown, dereferences a null pointer. *)
Request ==
    /\ At("request")
    /\ \E r \in Arrived(request) :
          LET ip == IF ~IsDomain(r) THEN r.addr
                    ELSE IF r.name \in DOMAIN Resolve THEN Resolve[r.name] ELSE <<>>
          IN  /\ parsed' = r /\ target' = ip
              /\ lost' = IF r = request THEN Len(rq["c"]) ELSE 0
              /\ rq' = [rq EXCEPT !["c"] = IF r = request THEN <<>> ELSE <<REST>> \o @]
              /\ IF r.vn # 4 \/ ip = <<>> THEN pc' = "refuse"
                 ELSE \E a \in get_access_mode(ip, r.cd) :
                         pc' = IF ~a THEN "reject"
                               ELSE IF r.cd = CONNECT THEN "connect"
                               ELSE IF r.cd = BIND THEN "bind" ELSE "refuse"
    /\ UNCHANGED <<request, ready, buf, to, then, wq, peers, cut, ended>>

(* No reply: another version, another command, no address. *)
Refuse == At("refuse") /\ Finish("") /\ UNCHANGED asked

Reject ==
    /\ At("reject")
    /\ Write(<<REJECTED>>, "c", "refuse")
    /\ UNCHANGED <<asked, ready, rq>>

(* connectTCP; when it fails no reply is sent either. *)
Connect ==
    /\ At("connect")
    /\ Write(<<ACCEPTED>>, "c", "select")
    /\ UNCHANGED <<asked, ready, rq>>

ConnectFails == At("connect") /\ Finish("") /\ UNCHANGED asked

(* BIND: a reply with the port, accept, and a second reply. *)
Bind ==
    /\ At("bind")
    /\ Write(<<ACCEPTED>>, "c", "accept")
    /\ UNCHANGED <<asked, ready, rq>>

Accept ==
    /\ At("accept")
    /\ Write(<<ACCEPTED>>, "c", "select")
    /\ UNCHANGED <<asked, ready, rq>>

----------------------------------------------------------------------------
(* Mutant: what does not fit at once is dropped. *)
Mut_WriteUnit ==
    /\ At("write") /\ buf # <<>> /\ ~gone[to]
    /\ buf' = <<>>
    /\ wq' = [wq EXCEPT ![to] = IF Len(@) < Cap THEN Append(@, Head(buf)) ELSE @]
    /\ UNCHANGED <<pc, asked, ready, to, then, rq, peers, cut, ended>>

(* write: all of buf, waiting for room; to a peer that has gone it may     *)
(* succeed in vain, or raise SIGPIPE. *)
WriteUnit ==
    /\ At("write") /\ buf # <<>> /\ ~gone[to] /\ Len(wq[to]) < Cap
    /\ buf' = Tail(buf)
    /\ wq' = [wq EXCEPT ![to] = Append(@, Head(buf))]
    /\ UNCHANGED <<pc, asked, ready, to, then, rq, peers, cut, ended>>

WriteToGone ==
    /\ At("write") /\ buf # <<>> /\ gone[to]
    /\ \/ buf' = <<>> /\ UNCHANGED <<pc, ready, to, then, rq, wq, peers, cut, ended>>
       \/ Finish("")
    /\ UNCHANGED asked

Written ==
    /\ At("write") /\ buf = <<>>
    /\ pc' = then
    /\ UNCHANGED <<asked, ready, buf, to, then, rq, wq, peers, cut, ended>>

(* relaydata: select, then one read and one write for each side it returned. *)
Readable(e) == rq[e] # <<>> \/ fin[e]

(* Mutant: the destination is not in afds. *)
Mut_Select ==
    /\ At("select") /\ Readable("c")
    /\ ready' = {"c"}
    /\ pc' = "relay"
    /\ UNCHANGED <<asked, buf, to, then, rq, wq, peers, cut, ended>>

Select ==
    /\ At("select") /\ \E e \in Sides : Readable(e)
    /\ ready' = {e \in Sides : Readable(e)}
    /\ pc' = "relay"
    /\ UNCHANGED <<asked, buf, to, then, rq, wq, peers, cut, ended>>

Side == IF "c" \in ready THEN "c" ELSE "s"

Relay ==
    /\ At("relay") /\ rq[Side] # <<>>
    /\ LET e == Side
           n == IF Len(rq[e]) < MAXBUFFSIZE THEN Len(rq[e]) ELSE MAXBUFFSIZE
       IN  /\ rq' = [rq EXCEPT ![e] = SubSeq(@, n + 1, Len(@))]
           /\ ready' = ready \ {e}
           /\ Write(SubSeq(rq[e], 1, n), Other(e), IF ready = {e} THEN "select" ELSE "relay")
    /\ UNCHANGED asked

RelayEnds == At("relay") /\ rq[Side] = <<>> /\ Finish(Side) /\ UNCHANGED asked

----------------------------------------------------------------------------
(* The peers. *)
Connected(e) == e = "c" \/ pc \in {"select", "relay"} \/ then \in {"select", "relay"}

Send(e) ==
    /\ Connected(e) /\ ~At("closed") /\ ~fin[e]
    /\ sent[e] < Units /\ Len(rq[e]) < Cap
    /\ sent' = [sent EXCEPT ![e] = @ + 1]
    /\ rq' = [rq EXCEPT ![e] = Append(@, sent[e] + 1)]
    /\ UNCHANGED <<pc, asked, ready, buf, to, then, wq, got, fin, gone, cut, ended>>

Receive(e) ==
    /\ wq[e] # <<>>
    /\ wq' = [wq EXCEPT ![e] = Tail(@)]
    /\ got' = [got EXCEPT ![e] = Append(@, Head(wq[e]))]
    /\ UNCHANGED <<pc, asked, ready, buf, to, then, rq, sent, fin, gone, cut, ended>>

Shutdown(e) ==
    /\ Connected(e) /\ ~At("closed") /\ ~fin[e]
    /\ fin' = [fin EXCEPT ![e] = TRUE]
    /\ UNCHANGED <<pc, asked, ready, buf, to, then, rq, wq, sent, got, gone, cut, ended>>

Leave(e) ==
    /\ Connected(e) /\ ~At("closed") /\ ~gone[e]
    /\ fin' = [fin EXCEPT ![e] = TRUE] /\ gone' = [gone EXCEPT ![e] = TRUE]
    /\ wq' = [wq EXCEPT ![e] = <<>>]
    /\ UNCHANGED <<pc, asked, ready, buf, to, then, rq, sent, got, cut, ended>>

(* A reset reaches a peer before what was under way to it. *)
Reset(e) ==
    /\ e \in cut /\ wq[e] # <<>>
    /\ wq' = [wq EXCEPT ![e] = <<>>]
    /\ UNCHANGED <<pc, asked, ready, buf, to, then, rq, peers, cut, ended>>

----------------------------------------------------------------------------
Init ==
    /\ pc = "request" /\ request \in Requests /\ parsed = None /\ target = <<>>
    /\ lost = 0 /\ ready = {} /\ buf = <<>> /\ to = "c" /\ then = "request"
    /\ rq = [e \in Sides |-> <<>>] /\ wq = [e \in Sides |-> <<>>]
    /\ sent = [e \in Sides |-> 0] /\ got = [e \in Sides |-> <<>>]
    /\ fin = [e \in Sides |-> FALSE] /\ gone = [e \in Sides |-> FALSE]
    /\ cut = {} /\ ended = ""

Process ==
    \/ Request \/ Refuse \/ Reject \/ Connect \/ ConnectFails \/ Bind
    \/ WriteUnit \/ WriteToGone \/ Written \/ Select \/ Relay \/ RelayEnds

Next ==
    \/ Process \/ Accept
    \/ \E e \in Sides : Send(e) \/ Receive(e) \/ Shutdown(e) \/ Leave(e) \/ Reset(e)

Spec == Init /\ [][Next]_vars

(* The process runs; peers need not send, receive or connect. *)
FairSpec == Spec /\ WF_vars(Process)

----------------------------------------------------------------------------
Numbers(m, n) == [i \in 1..(IF n < m THEN 0 ELSE n - m + 1) |-> m + i - 1]

(* What peer e is to receive. *)
Replies ==
    IF pc \in {"request", "connect", "bind"} THEN <<>>
    ELSE IF At("accept") \/ then = "accept" \/ parsed.cd = CONNECT THEN <<ACCEPTED>>
    ELSE <<ACCEPTED, ACCEPTED>>

Due(e) ==
    IF e = "s"
    THEN (IF parsed = request THEN <<>> ELSE <<REST>>) \o Numbers(lost + 1, sent["c"])
    ELSE Replies \o Numbers(1, sent["s"])

Relaying == pc \in {"select", "relay"} \/ then \in {"select", "relay"}

(***************************************************************************)
(* While the session relays, what a peer has received, what is under way   *)
(* to it, what is being written and what is unread make up what it is to   *)
(* receive, the replies before the data, nothing twice or out of order.    *)
(* After the end of file of one side the other receives all that this side *)
(* has sent, unless it was itself reset or gone; what the other side has   *)
(* sent may be lost.                                                       *)
(***************************************************************************)
Delivered ==
    \A e \in Sides : ~gone[e] =>
        /\ Relaying => got[e] \o wq[e] \o (IF to = e THEN buf ELSE <<>>) \o rq[Other(e)] = Due(e)
        /\ ended = Other(e) /\ e \notin cut => got[e] \o wq[e] = Due(e)

(***************************************************************************)
(* What a peer has sent is taken by the process, unless it is blocked      *)
(* writing to a peer that does not receive: one slow peer stops both       *)
(* directions.                                                             *)
(***************************************************************************)
RelayProgress ==
    \A e \in Sides :
        (Relaying /\ rq[e] # <<>>)
            ~> \/ rq[e] = <<>> \/ At("closed")
               \/ At("write") /\ Len(wq[to]) = Cap

(***************************************************************************)
(* A connection is opened only to an address that a rule of the file       *)
(* permits for the command, and to the one the client asked for if the     *)
(* request had arrived as far as the address.  A rule with another mode    *)
(* than c and b may count for any command.                                 *)
(***************************************************************************)
ConnectsAsAsked ==
    Relaying =>
        /\ \E i \in DOMAIN Rules :
              /\ Rules[i].action = "permit"
              /\ Rules[i].mode = "c" => parsed.cd = CONNECT
              /\ Rules[i].mode = "b" => parsed.cd = BIND
              /\ \A k \in DOMAIN target : Rules[i].mask[k] \in {target[k], -1}
        /\ parsed.addr = request.addr =>
              target = IF request.addr[1] = 0 THEN Resolve[parsed.name] ELSE request.addr
=============================================================================
