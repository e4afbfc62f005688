------------------------------ MODULE Console ------------------------------
(***************************************************************************)
(* A session of the console, np_project4/console.cpp (without a proxy it   *)
(* is that of np_project3/console.cpp): it connects, through the SOCKS     *)
(* server if has_proxy, and sends the lines of a batch file, one 200 ms    *)
(* after each read in which it finds a prompt.                             *)
(*                                                                         *)
(* The shell it talks to is external: it prints a prompt, "%" and " ",     *)
(* after its greeting and after the output of each line, and closes the    *)
(* connection at "exit".  Output may hold a "% " of its own.  A read       *)
(* returns any first part of what is on its way.                           *)
(*                                                                         *)
(* The io_service runs one handler at a time: an action is a handler with  *)
(* all it calls.  A timer that has expired has its handler queued (due);   *)
(* setting it again only cancels a wait that has not expired.              *)
(***************************************************************************)
EXTENDS Integers, Sequences, FiniteSets

CONSTANTS
    Files,       \* batch files: sequences of lines, "exit" among them or not
    Outputs,     \* what a line may print: sequences of "x", "%", " "
    Proxies,     \* the values has_proxy may have
    MaxSent      \* bound: lines sent

VARIABLES
    pc,
    has_proxy,
    file,        \* the batch file
    left, open,  \* what is left of it; it has not been closed
    timer, due,  \* a wait is pending; handlers of expired waits
    down, up,    \* on its way from and to the shell
    sent,
    shell,       \* "off", "greets", "asks" (at its prompt) or "gone"
    asked,       \* prompts the shell has printed
    fakes,       \* "% " printed by commands
    split        \* a read ended within "% "

cvars == <<pc, has_proxy, file, left, open, timer, due, down, up, sent, shell, asked, fakes, split>>
batch == <<has_proxy, file, left, open>>
ghosts == <<asked, fakes, split>>

ASSUME ConsoleAssumption ==
    /\ Proxies \subseteq BOOLEAN /\ MaxSent \in Nat
    /\ \A f \in Files \cup Outputs : f \in Seq(STRING)

At(l) == pc = l
Prompt == <<"%", " ">>
Prompts(s) == {i \in 1..Len(s)-1 : s[i] = "%" /\ s[i+1] = " "}
HasPrompt(s) == Prompts(s) # {}

----------------------------------------------------------------------------
Resolve ==
    /\ At("resolve")
    /\ pc' \in {"connect", "closed"}
    /\ UNCHANGED <<batch, timer, due, down, up, sent, shell, ghosts>>

Connect ==
    /\ At("connect")
    /\ pc' \in {IF has_proxy THEN "reply" ELSE "reading", "closed"}
    /\ shell' = IF pc' = "reading" THEN "greets" ELSE shell
    /\ UNCHANGED <<batch, timer, due, down, up, sent, ghosts>>

(* The answer of the SOCKS server, two bytes of it; or none. *)
ProxyAnswers ==
    /\ At("reply") /\ shell = "off" /\ down = <<>>
    /\ \/ down' = <<"r", "5A">> /\ shell' = "greets"
       \/ down' = <<"r", "5B">> /\ shell' = "gone"
       \/ down' = <<>> /\ shell' = "gone"
    /\ UNCHANGED <<pc, batch, timer, due, up, sent, ghosts>>

(* At most the reply is read.  When it comes in two parts neither branch   *)
(* is taken, no handler is left, and the session ends. *)
read_socks_request ==
    /\ At("reply")
    /\ \/ /\ down # <<>>
          /\ \E n \in 1..2 :
                /\ pc' = IF n = 2 /\ down[2] = "5A" THEN "reading" ELSE "closed"
                /\ down' = SubSeq(down, n + 1, Len(down))
       \/ /\ down = <<>> /\ shell = "gone"
          /\ pc' = "closed" /\ UNCHANGED down
    /\ UNCHANGED <<batch, timer, due, up, sent, shell, ghosts>>

(* Mutant: the next read is only started if there was no prompt. *)
Mut_do_read ==
    /\ At("reading") /\ down # <<>>
    /\ \E n \in 1..Len(down) :
          LET data == SubSeq(down, 1, n)
          IN  /\ down' = SubSeq(down, n + 1, Len(down))
              /\ timer' = (timer \/ HasPrompt(data))
              /\ split' = (split \/ (n < Len(down) /\ <<down[n], down[n+1]>> = Prompt))
              /\ pc' = IF HasPrompt(data) THEN "stopped" ELSE pc
    /\ UNCHANGED <<batch, due, up, sent, shell, asked, fakes>>

do_read ==
    /\ At("reading") /\ down # <<>>
    /\ \E n \in 1..Len(down) :
          LET data == SubSeq(down, 1, n)
          IN  /\ down' = SubSeq(down, n + 1, Len(down))
              /\ timer' = (timer \/ HasPrompt(data))
              /\ split' = (split \/ (n < Len(down) /\ <<down[n], down[n+1]>> = Prompt))
    /\ UNCHANGED <<pc, batch, due, up, sent, shell, asked, fakes>>

ReadFails ==
    /\ At("reading") /\ down = <<>> /\ shell = "gone"
    /\ pc' = "closed"
    /\ UNCHANGED <<batch, timer, due, down, up, sent, shell, ghosts>>

Expire ==
    /\ timer
    /\ timer' = FALSE /\ due' = due + 1
    /\ UNCHANGED <<pc, batch, down, up, sent, shell, ghosts>>

(* Mutant: the file is not closed after "exit". *)
Mut_do_send_cmd ==
    /\ due > 0 /\ Len(sent) < MaxSent
    /\ LET line == IF left # <<>> THEN Head(left) ELSE ""
       IN  /\ left' = IF left # <<>> THEN Tail(left) ELSE left
           /\ sent' = Append(sent, line)
           /\ up' = IF shell = "gone" THEN up ELSE Append(up, line)
    /\ due' = due - 1
    /\ UNCHANGED <<pc, has_proxy, file, open, timer, down, shell, ghosts>>

(* getline yields "" at the end of the file and when it is closed; what is *)
(* written after the shell has gone is lost. *)
do_send_cmd ==
    /\ due > 0 /\ Len(sent) < MaxSent
    /\ LET line == IF open /\ left # <<>> THEN Head(left) ELSE ""
       IN  /\ left' = IF open /\ left # <<>> THEN Tail(left) ELSE left
           /\ open' = (open /\ line # "exit")
           /\ sent' = Append(sent, line)
           /\ up' = IF shell = "gone" THEN up ELSE Append(up, line)
    /\ due' = due - 1
    /\ UNCHANGED <<pc, has_proxy, file, timer, down, shell, ghosts>>

----------------------------------------------------------------------------
(* The shell. *)
Greet ==
    /\ shell = "greets"
    /\ shell' = "asks"
    /\ down' = down \o <<"x">> \o Prompt
    /\ asked' = asked + 1
    /\ UNCHANGED <<pc, batch, timer, due, up, sent, fakes, split>>

Execute ==
    /\ shell = "asks" /\ up # <<>> /\ Head(up) # "exit"
    /\ \E o \in Outputs :
          /\ down' = down \o o \o Prompt
          /\ fakes' = fakes + Cardinality(Prompts(o))
    /\ asked' = asked + 1
    /\ up' = Tail(up)
    /\ UNCHANGED <<pc, batch, timer, due, sent, shell, split>>

Exit ==
    /\ shell = "asks" /\ up # <<>> /\ Head(up) = "exit"
    /\ shell' = "gone" /\ up' = <<>>
    /\ UNCHANGED <<pc, batch, timer, due, down, sent, ghosts>>

----------------------------------------------------------------------------
ConsoleInit ==
    /\ pc = "off" /\ has_proxy \in Proxies
    /\ file \in Files /\ left = file /\ open = TRUE
    /\ timer = FALSE /\ due = 0
    /\ down = <<>> /\ up = <<>> /\ sent = <<>>
    /\ shell = "off" /\ asked = 0 /\ fakes = 0 /\ split = FALSE

(* main: one session per host; start. *)
ConsoleStarts ==
    /\ At("off") /\ pc' = "resolve"
    /\ UNCHANGED <<batch, timer, due, down, up, sent, shell, ghosts>>

Handlers == Resolve \/ Connect \/ read_socks_request \/ do_read \/ ReadFails \/ Expire \/ do_send_cmd
Shell == ProxyAnswers \/ Greet \/ Execute \/ Exit


(* No handler is left: the session object and then the process end. *)
ConsoleEnded == At("closed") /\ ~timer /\ due = 0

----------------------------------------------------------------------------
(* The commands of the file: up to the first "exit". *)
Commands ==
    LET n == IF \E i \in DOMAIN file : file[i] = "exit"
             THEN CHOOSE i \in DOMAIN file :
                     file[i] = "exit" /\ \A j \in 1..i-1 : file[j] # "exit"
             ELSE Len(file)
    IN  SubSeq(file, 1, n)

(***************************************************************************)
(* The lines of the file are sent in order, nothing after "exit" but empty *)
(* lines; and never more lines than prompts were printed, counting those   *)
(* "% " which a command printed and the console takes for prompts.         *)
(***************************************************************************)
SentOnPrompt ==
    /\ Len(sent) <= asked + fakes
    /\ \A i \in DOMAIN sent :
          sent[i] = IF i <= Len(Commands) THEN Commands[i] ELSE ""

(***************************************************************************)
(* A session that talks to its shell sends the whole file, however reads   *)
(* and waits fall, unless a prompt came in two reads: then it is not seen, *)
(* and both sides wait for ever.                                           *)
(***************************************************************************)
BatchCompleted ==
    At("reading") ~> split \/ Len(sent) >= Len(Commands) \/ Len(sent) = MaxSent
=============================================================================
