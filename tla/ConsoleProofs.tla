---------------------------- MODULE ConsoleProofs ----------------------------
(***************************************************************************)
(* A theorem about the console that the HTTP server starts, for every      *)
(* batch file, every output of the commands and every way reads cut it.    *)
(***************************************************************************)
EXTENDS RemoteBatch, SequenceTheorems, FiniteSetTheorems, WellFoundedInduction, TLAPS

(* The strings: the provers do not know that a literal is one. *)
Word == STRING \cup {"", "x", "%", " ", "r", "5A", "5B"}
Text == Seq(Word)

TypeInv ==
    /\ file \in Text /\ left \in Text /\ down \in Text /\ sent \in Text
    /\ due \in Nat /\ asked \in Nat /\ fakes \in Nat
    /\ timer \in BOOLEAN /\ open \in BOOLEAN

(* While the file is open what is left of it is what has not been sent; it *)
(* is closed when "exit" has been. *)
Unsent(s) == IF Len(s) < Len(file) THEN SubSeq(file, Len(s) + 1, Len(file)) ELSE <<>>

FileInv ==
    /\ open => /\ left = Unsent(sent)
               /\ \A i \in DOMAIN file : i <= Len(sent) => file[i] # "exit"
    /\ ~open => \E i \in DOMAIN file : i <= Len(sent) /\ file[i] = "exit"

InOrder ==
    \A i \in DOMAIN sent : sent[i] = IF i <= Len(Commands) THEN Commands[i] ELSE ""

(* A line was sent, or is about to be, or a prompt waits to be read, for   *)
(* one prompt each; a prompt never ends halfway on its way. *)
Waits == IF timer THEN 1 ELSE 0

PromptInv ==
    /\ Len(sent) + due + Waits + Cardinality(Prompts(down)) <= asked + fakes
    /\ down = <<>> \/ down[Len(down)] # "%"

Inv == TypeInv /\ FileInv /\ InOrder /\ PromptInv

----------------------------------------------------------------------------
LEMMA Words ==
    /\ "" \in Word /\ "x" \in Word /\ "%" \in Word /\ " " \in Word /\ "r" \in Word
    /\ "5A" \in Word /\ "5B" \in Word
    /\ \A a \in Word : <<a>> \in Text
    /\ \A a, b \in Word : <<a, b>> \in Text
    /\ <<>> \in Text
    /\ \A f \in Files \cup Outputs : f \in Text
<1>1. /\ "" \in Word /\ "x" \in Word /\ "%" \in Word /\ " " \in Word /\ "r" \in Word
      /\ "5A" \in Word /\ "5B" \in Word
  BY DEF Word
<1>2. STRING \subseteq Word
  BY DEF Word
<1>. HIDE DEF Word
<1>3. \A a \in Word : <<a>> \in Text
  BY DEF Text
<1>4. \A a, b \in Word : <<a, b>> \in Text
  BY DEF Text
<1>5. <<>> \in Text
  BY EmptySeq DEF Text
<1>6. Seq(STRING) \subseteq Seq(Word)
  BY <1>2, SeqMonotonic
<1>7. \A f \in Files \cup Outputs : f \in Text
  BY <1>6, ConsoleAssumption DEF Text
<1>. QED  BY <1>1, <1>3, <1>4, <1>5, <1>7

LEMMA Least ==
    ASSUME NEW T, T \subseteq Nat, T # {}
    PROVE  \E x \in T : \A y \in T : x <= y
<1>. DEFINE R == OpToRel(<, Nat)
<1>1. IsWellFoundedOn(R, Nat)
  BY NatLessThanWellFounded
<1>2. \A x, y \in Nat : y < x => <<y, x>> \in R
  BY DEF OpToRel
<1>. HIDE DEF R
<1>3. PICK x \in T : \A y \in T : <<y, x>> \notin R
  BY <1>1, WFMin
<1>4. ASSUME NEW y \in T PROVE x <= y
  <2>1. x \in Nat /\ y \in Nat
    OBVIOUS
  <2>2. ~(y < x)
    BY <1>2, <1>3, <1>4, <2>1
  <2>. QED  BY <2>1, <2>2
<1>. QED  BY <1>4

LEMMA Within ==
    ASSUME NEW l \in Nat, NEW n \in 0..l, NEW k \in Int, k = l - n
    PROVE  \A i \in 1..k-1 :
              /\ i \in 1..k /\ i + 1 \in 1..k /\ i \in Nat \ {0} /\ i + n \in 1..l-1
              /\ n + i = i + n /\ n + (i + 1) = i + n + 1
OBVIOUS

LEMMA Before ==
    ASSUME NEW l \in Nat, NEW n \in 0..l
    PROVE  \A i \in 1..n-1 :
              i \in 1..n /\ i + 1 \in 1..n /\ i \in 1..l-1 /\ i \in 1..l /\ i \in Nat /\ i < n
OBVIOUS

(* The commands of a file are its lines up to the first "exit". *)
LEMMA CommandsAre ==
    ASSUME file \in Text
    PROVE  \E n \in 0..Len(file) :
              /\ Len(Commands) = n /\ \A i \in 1..n : Commands[i] = file[i]
              /\ \A i \in 1..n-1 : file[i] # "exit"
              /\ (\A i \in 1..Len(file) : file[i] # "exit") => n = Len(file)
              /\ (\E i \in 1..Len(file) : file[i] = "exit") => n # 0 /\ file[n] = "exit"
<1>. DEFINE exits == {i \in 1..Len(file) : file[i] = "exit"}
            first(i) == file[i] = "exit" /\ \A j \in 1..i-1 : file[j] # "exit"
            n == IF \E i \in DOMAIN file : file[i] = "exit"
                 THEN CHOOSE i \in DOMAIN file : first(i) ELSE Len(file)
<1>1. DOMAIN file = 1..Len(file) /\ Len(file) \in Nat
  BY DEF Text
<1>2. ASSUME exits # {} PROVE n \in DOMAIN file /\ first(n)
  <2>1. PICK i \in exits : \A j \in exits : i <= j
    <3>1. exits \subseteq Nat
      BY <1>1
    <3>. HIDE DEF exits
    <3>. QED  BY <1>2, <3>1, Least
  <2>2. \A j \in 1..i-1 : j \in 1..Len(file) /\ j \notin exits
    <3>1. i \in 1..Len(file)
      OBVIOUS
    <3>. HIDE DEF exits
    <3>2. SUFFICES ASSUME NEW j \in 1..i-1 PROVE j \in 1..Len(file) /\ j \notin exits
      OBVIOUS
    <3>3. j \in 1..Len(file) /\ ~(i <= j)
      BY <1>1, <3>1
    <3>. QED  BY <2>1, <3>3
  <2>3. i \in DOMAIN file /\ first(i)
    BY <1>1, <2>1, <2>2
  <2>. HIDE DEF first
  <2>4. \E k \in DOMAIN file : file[k] = "exit"
    BY <1>1, <1>2
  <2>. QED  BY <2>3, <2>4
<1>3. n \in 0..Len(file)
  BY <1>1, <1>2
<1>4. Commands = SubSeq(file, 1, n)
  BY DEF Commands
<1>5. /\ \A i \in 1..n-1 : file[i] # "exit"
      /\ exits = {} => n = Len(file)
      /\ exits # {} => n # 0 /\ file[n] = "exit"
  <2>1. CASE exits = {}
    <3>1. n = Len(file)
      BY <1>1, <2>1
    <3>2. \A i \in 1..n-1 : i \in 1..Len(file)
      <4>. HIDE DEF n
      <4>. QED  BY <1>1, <1>3, Before
    <3>. QED  BY <2>1, <3>1, <3>2
  <2>2. CASE exits # {}
    BY <1>1, <1>2, <2>2
  <2>. QED  BY <2>1, <2>2
<1>. HIDE DEF n
<1>6. Len(Commands) = n /\ \A i \in 1..n : Commands[i] = file[i]
  <2>1. \A i \in 1..n : file[i] \in Word
    BY <1>3, ElementOfSeq DEF Text
  <2>2. n \in Int /\ n - 1 + 1 = n /\ 1 \in Int /\ (1 <= n \/ n = 0) /\ \A i \in 1..n : 1+i-1 = i
    BY <1>1, <1>3
  <2>. QED  BY <1>4, <2>1, <2>2, SubSeqProperties
<1>. QED  BY <1>3, <1>5, <1>6

----------------------------------------------------------------------------
(* Prompts on their way. *)

LEMMA PromptsFinite ==
    ASSUME NEW s \in Text
    PROVE  IsFiniteSet(Prompts(s)) /\ Cardinality(Prompts(s)) \in Nat
<1>1. Len(s) \in Nat
  BY DEF Text
<1>2. IsFiniteSet(1..Len(s)-1)
  BY <1>1, FS_Interval
<1>3. Prompts(s) \in SUBSET (1..Len(s)-1)
  BY DEF Prompts
<1>. QED  BY <1>2, <1>3, FS_Subset, FS_CardinalityType

(* What a read leaves has one prompt less, if it found one. *)
LEMMA PromptsLeft ==
    ASSUME NEW s \in Text, NEW n \in 0..Len(s)
    PROVE  LET data == SubSeq(s, 1, n)
               rest == SubSeq(s, n + 1, Len(s))
           IN  /\ rest \in Text
               /\ Cardinality(Prompts(rest)) + (IF HasPrompt(data) THEN 1 ELSE 0)
                      <= Cardinality(Prompts(s))
               /\ rest # <<>> => rest[Len(rest)] = s[Len(s)] /\ s # <<>>
<1>. DEFINE data == SubSeq(s, 1, n)
            rest == SubSeq(s, n + 1, Len(s))
            P == Prompts(s)
            Q == Prompts(rest)
<1>1. Len(s) \in Nat /\ n \in Nat /\ n <= Len(s) /\ \A i \in 1..Len(s) : s[i] \in Word
  BY DEF Text
<1>2. /\ data \in Text /\ Len(data) = n /\ \A i \in 1..n : data[i] = s[i]
  BY <1>1 DEF Text
<1>3. /\ rest \in Text /\ Len(rest) = Len(s) - n
      /\ \A i \in 1..Len(s)-n : rest[i] = s[n+i]
  <2>1. \A i \in n+1..Len(s) : s[i] \in Word
    BY <1>1
  <2>2. n + 1 \in Int /\ Len(s) \in Int
    BY <1>1
  <2>3. /\ rest \in Text /\ Len(rest) = (IF n + 1 <= Len(s) THEN Len(s) - (n+1) + 1 ELSE 0)
        /\ \A i \in 1..Len(s)-(n+1)+1 : rest[i] = s[n+1+i-1]
    BY <2>1, <2>2, SubSeqProperties DEF Text
  <2>. HIDE DEF rest
  <2>4. Len(rest) = Len(s) - n
    BY <1>1, <2>3
  <2>5. \A i \in 1..Len(s)-n : rest[i] = s[n+i]
    <3>1. \A i \in 1..Len(s)-n : i \in 1..Len(s)-(n+1)+1 /\ n+1+i-1 = n+i
      BY <1>1
    <3>. QED  BY <2>3, <3>1
  <2>. QED  BY <2>3, <2>4, <2>5
<1>. HIDE DEF data, rest
<1>4. IsFiniteSet(P) /\ Cardinality(P) \in Nat /\ IsFiniteSet(Q) /\ Cardinality(Q) \in Nat
  BY <1>3, PromptsFinite
<1>5. \A i \in Q : i + n \in P /\ i \in Nat \ {0}
  <2>1. SUFFICES ASSUME NEW i \in Q PROVE i + n \in P /\ i \in Nat \ {0}
    OBVIOUS
  <2>2. i \in 1..Len(rest)-1 /\ rest[i] = "%" /\ rest[i+1] = " "
    BY DEF Prompts
  <2>3. /\ i \in 1..Len(rest) /\ i + 1 \in 1..Len(rest)
        /\ i \in Nat \ {0} /\ i + n \in 1..Len(s)-1
        /\ n + i = i + n /\ n + (i + 1) = i + n + 1
    <3>1. Len(rest) \in Int /\ Len(rest) = Len(s) - n /\ Len(s) \in Nat /\ n \in 0..Len(s)
      BY <1>1, <1>3
    <3>2. \A j \in 1..Len(rest)-1 :
              /\ j \in 1..Len(rest) /\ j + 1 \in 1..Len(rest)
              /\ j \in Nat \ {0} /\ j + n \in 1..Len(s)-1
              /\ n + j = j + n /\ n + (j + 1) = j + n + 1
      BY ONLY <3>1, Within
    <3>. HIDE DEF Q
    <3>. QED  BY <2>2, <3>2
  <2>4. rest[i] = s[n+i] /\ rest[i+1] = s[n+(i+1)]
    BY <1>3, <2>3
  <2>5. s[i+n] = "%" /\ s[i+n+1] = " "
    BY <2>2, <2>3, <2>4
  <2>. QED  BY <2>3, <2>5 DEF Prompts
<1>6. \A i \in Prompts(data) : i \in P /\ i \in Nat /\ i < n
  <2>1. SUFFICES ASSUME NEW i \in Prompts(data) PROVE i \in P /\ i \in Nat /\ i < n
    OBVIOUS
  <2>2. i \in 1..Len(data)-1 /\ data[i] = "%" /\ data[i+1] = " "
    BY DEF Prompts
  <2>3. i \in 1..n /\ i+1 \in 1..n /\ i \in 1..Len(s)-1 /\ i \in Nat /\ i < n
    BY <1>1, <1>2, <2>2, Before
  <2>4. s[i] = "%" /\ s[i+1] = " "
    BY <1>2, <2>2, <2>3
  <2>. QED  BY <2>3, <2>4 DEF Prompts
<1>7. ASSUME NEW T, T \subseteq P, \A i \in Q : i + n \in T
      PROVE  Cardinality(Q) <= Cardinality(T)
  <2>. DEFINE f == [i \in Q |-> i + n]
  <2>1. f \in Injection(Q, T)
    <3>1. f \in [Q -> T]
      BY <1>7
    <3>2. \A i, j \in Q : f[i] = f[j] => i = j
      BY <1>1, <1>5
    <3>. QED  BY <3>1, <3>2 DEF Injection, IsInjective
  <2>2. IsFiniteSet(T)
    BY <1>4, <1>7, FS_Subset
  <2>. HIDE DEF f
  <2>. QED  BY <2>1, <2>2, FS_Injection
<1>8. Cardinality(Q) + (IF HasPrompt(data) THEN 1 ELSE 0) <= Cardinality(P)
  <2>1. CASE ~HasPrompt(data)
    <3>1. Cardinality(Q) <= Cardinality(P)
      BY <1>5, <1>7
    <3>. QED  BY <1>4, <2>1, <3>1
  <2>2. CASE HasPrompt(data)
    <3>1. PICK j : j \in Prompts(data)
      BY <2>2 DEF HasPrompt
    <3>. DEFINE T == P \ {j}
    <3>2. Cardinality(T) = Cardinality(P) - 1
      BY <1>4, <1>6, <3>1, FS_RemoveElement
    <3>3. \A i \in Q : i + n \in T
      BY <1>1, <1>5, <1>6, <3>1
    <3>4. T \subseteq P
      OBVIOUS
    <3>. HIDE DEF T
    <3>5. Cardinality(Q) <= Cardinality(T)
      BY <1>7, <3>3, <3>4
    <3>. QED  BY <1>4, <2>2, <3>2, <3>5
  <2>. QED  BY <2>1, <2>2
<1>9. rest # <<>> => rest[Len(rest)] = s[Len(s)] /\ s # <<>>
  <2>. SUFFICES ASSUME rest # <<>> PROVE rest[Len(rest)] = s[Len(s)] /\ s # <<>>
    OBVIOUS
  <2>1. Len(rest) # 0 /\ Len(rest) \in Nat
    BY <1>3, EmptySeq DEF Text
  <2>2. Len(rest) \in 1..Len(s)-n /\ n + Len(rest) = Len(s) /\ Len(s) # 0
    BY <1>1, <1>3, <2>1
  <2>. QED  BY <1>3, <2>2
<1>. QED  BY <1>3, <1>8, <1>9 DEF data, rest

LEMMA SmallPrompts ==
    /\ Prompts(<<>>) = {} /\ Prompts(<<"x">>) = {} /\ Prompts(<<"r", "5A">>) = {}
    /\ Prompts(<<"r", "5B">>) = {}
    /\ Cardinality({}) = 0
<1>1. Prompts(<<>>) = {} /\ Prompts(<<"x">>) = {}
  BY DEF Prompts
<1>2. \A i \in 1..2-1 : i = 1
  OBVIOUS
<1>3. ASSUME NEW c PROVE Prompts(<<"r", c>>) = {}
  <2>1. Len(<<"r", c>>) = 2 /\ <<"r", c>>[1] = "r"
    OBVIOUS
  <2>. DEFINE p == <<"r", c>>
  <2>. HIDE DEF p
  <2>2. Prompts(p) = {i \in 1..Len(p)-1 : p[i] = "%" /\ p[i+1] = " "}
    BY DEF Prompts
  <2>3. ASSUME NEW i \in Prompts(p) PROVE FALSE
    <3>1. i \in 1..Len(p)-1 /\ p[i] = "%"
      BY <2>2
    <3>2. i \in 1..2-1
      BY <2>1, <3>1 DEF p
    <3>3. i = 1
      BY <1>2, <3>2
    <3>. QED  BY <2>1, <3>1, <3>3 DEF p
  <2>. QED  BY <2>3 DEF p
<1>. QED  BY <1>1, <1>3, FS_EmptySet

(* Output and a prompt behind what is on its way: no prompt appears at the *)
(* seams. *)
LEMMA PromptsAppended ==
    ASSUME NEW d \in Text, NEW o \in Text, d = <<>> \/ d[Len(d)] # "%"
    PROVE  LET s == d \o o \o Prompt
           IN  /\ s \in Text
               /\ Cardinality(Prompts(s)) <= Cardinality(Prompts(d)) + Cardinality(Prompts(o)) + 1
               /\ s[Len(s)] # "%"
<1>. DEFINE e == d \o o
            s == e \o Prompt
            l == Len(d)
            m == Len(o)
<1>1. l \in Nat /\ m \in Nat /\ (l # 0 => d[l] # "%")
  BY EmptySeq DEF Text
<1>2. e \in Text /\ Len(e) = l + m
  BY ConcatProperties DEF Text
<1>3. \A i \in 1..l+m : e[i] = IF i <= l THEN d[i] ELSE o[i-l]
  BY ConcatProperties DEF Text
<1>. HIDE DEF e
<1>4. Prompt \in Text /\ Len(Prompt) = 2 /\ Prompt[1] = "%" /\ Prompt[2] = " "
  <2>1. Prompt = <<"%", " ">>
    BY DEF Prompt
  <2>2. Prompt \in Text
    BY <2>1, Words
  <2>3. Len(Prompt) = 2
    BY <2>1
  <2>4. Prompt[1] = "%" /\ Prompt[2] = " "
    BY <2>1
  <2>. QED  BY <2>2, <2>3, <2>4
<1>5. s \in Text /\ Len(s) = l + m + 2
  <2>1. s \in Text /\ Len(s) = Len(e) + Len(Prompt)
    BY <1>2, <1>4, ConcatProperties DEF Text
  <2>. QED  BY <1>1, <1>2, <1>4, <2>1
<1>6. \A i \in 1..l+m+2 : s[i] = IF i <= l + m THEN e[i] ELSE Prompt[i-(l+m)]
  <2>1. e \in Seq(Word) /\ Prompt \in Seq(Word)
    BY <1>2, <1>4 DEF Text
  <2>2. \A i \in 1..Len(e)+Len(Prompt) :
            s[i] = IF i <= Len(e) THEN e[i] ELSE Prompt[i-Len(e)]
    BY <2>1, ConcatProperties
  <2>3. Len(e) = l + m /\ Len(e) + Len(Prompt) = l + m + 2
    BY <1>2, <1>4
  <2>. HIDE DEF s, l, m
  <2>. QED  BY <2>2, <2>3
<1>. HIDE DEF s
<1>7. /\ \A i \in 1..l : s[i] = d[i]
      /\ \A i \in 1..m : s[l+i] = o[i]
      /\ s[l+m+1] = "%" /\ s[l+m+2] = " "
  <2>1. \A i \in 1..l : i \in 1..l+m /\ i \in 1..l+m+2 /\ i <= l /\ i <= l + m
    BY <1>1
  <2>2. \A i \in 1..m : /\ l+i \in 1..l+m /\ l+i \in 1..l+m+2 /\ ~(l+i <= l)
                       /\ l+i <= l+m /\ l+i-l = i
    BY <1>1
  <2>3. /\ l+m+1 \in 1..l+m+2 /\ l+m+2 \in 1..l+m+2
        /\ ~(l+m+1 <= l+m) /\ ~(l+m+2 <= l+m) /\ l+m+1-(l+m) = 1 /\ l+m+2-(l+m) = 2
    BY <1>1
  <2>. HIDE DEF l, m
  <2>4. \A i \in 1..l : s[i] = d[i]
    BY <1>3, <1>6, <2>1
  <2>5. \A i \in 1..m : s[l+i] = o[i]
    <3>. SUFFICES ASSUME NEW i \in 1..m PROVE s[l+i] = o[i]
      OBVIOUS
    <3>. DEFINE j == l + i
    <3>1. /\ j \in 1..l+m /\ j \in 1..l+m+2 /\ ~(j <= l) /\ j <= l+m /\ j-l = i
      <4>1. l \in Nat /\ m \in Nat /\ i \in 1..m
        BY <1>1
      <4>. QED  BY ONLY <4>1
    <3>. HIDE DEF j
    <3>2. s[j] = o[j-l]
      BY <1>3, <1>6, <3>1
    <3>. QED  BY <3>1, <3>2 DEF j
  <2>6. s[l+m+1] = Prompt[1] /\ s[l+m+2] = Prompt[2]
    <3>. DEFINE a == l+m+1
                b == l+m+2
    <3>1. /\ a \in 1..l+m+2 /\ b \in 1..l+m+2
          /\ ~(a <= l+m) /\ ~(b <= l+m) /\ a-(l+m) = 1 /\ b-(l+m) = 2
      <4>1. l \in Nat /\ m \in Nat
        BY <1>1
      <4>. QED  BY ONLY <4>1
    <3>. HIDE DEF a, b
    <3>2. s[a] = Prompt[1] /\ s[b] = Prompt[2]
      BY <1>6, <3>1
    <3>. QED  BY <3>2 DEF a, b
  <2>. QED  BY <1>4, <2>4, <2>5, <2>6
<1>. DEFINE A == Prompts(d)
            B == {i \in 1..l+m+1 : i - l \in Prompts(o)}
<1>8. Prompts(s) \subseteq A \cup B \cup {l+m+1}
  <2>1. SUFFICES ASSUME NEW i \in Prompts(s) PROVE i \in A \cup B \cup {l+m+1}
    OBVIOUS
  <2>2. i \in 1..l+m+1 /\ s[i] = "%" /\ s[i+1] = " "
    <3>1. i \in 1..Len(s)-1 /\ s[i] = "%" /\ s[i+1] = " "
      BY DEF Prompts
    <3>2. Len(s)-1 = l+m+1
      BY <1>1, <1>5
    <3>. QED  BY <3>1, <3>2
  <2>3. CASE i \in 1..l-1
    <3>1. i \in 1..l /\ i+1 \in 1..l
      BY <1>1, <2>3
    <3>2. d[i] = "%" /\ d[i+1] = " "
      BY <1>7, <2>2, <3>1
    <3>. QED  BY <2>3, <3>2 DEF Prompts
  <2>4. ASSUME i = l PROVE FALSE
    <3>1. i \in 1..l+m+1
      BY <2>2
    <3>2. l \in Nat /\ m \in Nat
      BY <1>1
    <3>3. l \in 1..l /\ l # 0
      BY <2>4, <3>1, <3>2
    <3>. QED  BY <1>1, <1>7, <2>2, <2>4, <3>3
  <2>5. CASE i \in l+1..l+m-1
    <3>1. i-l \in 1..m-1 /\ i-l \in 1..m /\ i-l+1 \in 1..m /\ l+(i-l) = i /\ l+(i-l+1) = i+1
      BY <1>1, <2>5
    <3>2. o[i-l] = "%" /\ o[i-l+1] = " "
      BY <1>7, <2>2, <3>1
    <3>3. i-l \in Prompts(o)
      BY <3>1, <3>2 DEF Prompts
    <3>. QED  BY <2>2, <3>3
  <2>6. ASSUME i = l+m, m # 0 PROVE FALSE
    <3>1. i+1 = l+m+1
      BY <1>1, <2>6
    <3>. QED  BY <1>7, <2>2, <3>1
  <2>7. i \in 1..l-1 \/ i = l \/ i \in l+1..l+m-1 \/ (i = l+m /\ m # 0) \/ i = l+m+1
    <3>1. i \in 1..l+m+1 /\ l \in Nat /\ m \in Nat
      BY <1>1, <2>2
    <3>. QED  BY ONLY <3>1
  <2>. HIDE DEF A, B, l, m
  <2>. QED  BY <2>3, <2>4, <2>5, <2>6, <2>7
<1>9. IsFiniteSet(B) /\ Cardinality(B) <= Cardinality(Prompts(o)) /\ Cardinality(B) \in Nat
  <2>. DEFINE f == [i \in B |-> i - l]
  <2>1. f \in Injection(B, Prompts(o))
    <3>1. f \in [B -> Prompts(o)]
      OBVIOUS
    <3>2. \A i \in B : i \in Int
      BY <1>1
    <3>3. \A i, j \in B : f[i] = f[j] => i = j
      <4>. SUFFICES ASSUME NEW i \in B, NEW j \in B, f[i] = f[j] PROVE i = j
        OBVIOUS
      <4>1. i - l = j - l /\ i \in Int /\ j \in Int
        BY <3>2
      <4>. QED  BY <1>1, <4>1
    <3>. QED  BY <3>1, <3>3 DEF Injection, IsInjective
  <2>. HIDE DEF f, B
  <2>2. IsFiniteSet(Prompts(o))
    BY PromptsFinite
  <2>. QED  BY <2>1, <2>2, FS_Injection, FS_CardinalityType
<1>10. IsFiniteSet(A) /\ Cardinality(A) \in Nat
  BY PromptsFinite
<1>. HIDE DEF A, B
<1>11. IsFiniteSet(A \cup B) /\ Cardinality(A \cup B) <= Cardinality(A) + Cardinality(B)
  <2>1. IsFiniteSet(A \cap B)
    BY <1>10, FS_Subset
  <2>2. Cardinality(A \cap B) \in Nat
    BY <2>1, FS_CardinalityType
  <2>3. /\ IsFiniteSet(A \cup B)
        /\ Cardinality(A \cup B) = Cardinality(A) + Cardinality(B) - Cardinality(A \cap B)
    BY <1>9, <1>10, FS_Union
  <2>. QED  BY <1>9, <1>10, <2>2, <2>3
<1>12. /\ IsFiniteSet(A \cup B \cup {l+m+1})
       /\ Cardinality(A \cup B \cup {l+m+1}) <= Cardinality(A) + Cardinality(B) + 1
  <2>1. Cardinality(A \cup B) \in Nat
    BY <1>11, FS_CardinalityType
  <2>2. /\ IsFiniteSet(A \cup B \cup {l+m+1})
        /\ \/ Cardinality(A \cup B \cup {l+m+1}) = Cardinality(A \cup B)
           \/ Cardinality(A \cup B \cup {l+m+1}) = Cardinality(A \cup B) + 1
    BY <1>11, FS_AddElement
  <2>. QED  BY <1>9, <1>10, <1>11, <2>1, <2>2
<1>13. Cardinality(Prompts(s)) <= Cardinality(A \cup B \cup {l+m+1})
  BY <1>8, <1>12, FS_Subset
<1>14. /\ Cardinality(Prompts(s)) \in Nat /\ Cardinality(Prompts(o)) \in Nat
       /\ Cardinality(A \cup B \cup {l+m+1}) \in Nat
  BY <1>5, <1>12, PromptsFinite, FS_CardinalityType
<1>15. Cardinality(Prompts(s)) <= Cardinality(A) + Cardinality(Prompts(o)) + 1
  BY <1>9, <1>10, <1>12, <1>13, <1>14
<1>16. s[Len(s)] # "%"
  BY <1>5, <1>7
<1>. QED  BY <1>5, <1>15, <1>16 DEF A, s, e

----------------------------------------------------------------------------
(* The line that is sent next is the next line of the file, or empty. *)
NextLine == IF open /\ left # <<>> THEN Head(left) ELSE ""

LEMMA FileLines ==
    ASSUME TypeInv, FileInv, InOrder, open
    PROVE  LET t == Append(sent, NextLine)
           IN  /\ NextLine \in Word
               /\ (IF left # <<>> THEN Tail(left) ELSE left) = Unsent(t)
               /\ Len(sent) < Len(file) => NextLine = file[Len(sent)+1]
               /\ Len(sent) >= Len(file) => NextLine = ""
<1>. DEFINE k == Len(file)
            l == Len(sent)
            t == Append(sent, NextLine)
<1>1. k \in Nat /\ l \in Nat /\ left = Unsent(sent)
  BY DEF TypeInv, FileInv, Text
<1>2. CASE l < k
  <2>1. l + 1 \in 1..k /\ k \in l+1..k
    BY <1>1, <1>2
  <2>2. left = SubSeq(file, l+1, k)
    BY <1>1, <1>2 DEF Unsent
  <2>3. Head(left) = file[l+1] /\ Tail(left) = SubSeq(file, l+1+1, k)
    BY <2>1, <2>2, HeadTailOfSubSeq DEF TypeInv, Text
  <2>4. left # <<>>
    <3>1. left = <<file[l+1]>> \o SubSeq(file, l+1+1, k)
      BY <2>1, <2>2, SubSeqRecursiveFirst DEF TypeInv, Text
    <3>2. file[l+1] \in Word
      BY <2>1, ElementOfSeq DEF TypeInv, Text
    <3>3. SubSeq(file, l+1+1, k) \in Seq(Word)
      <4>1. l+1+1 \in Int /\ k \in Int /\ \A i \in l+1+1..k : i \in 1..k
        BY <1>1
      <4>2. \A i \in l+1+1..k : file[i] \in Word
        BY <4>1, ElementOfSeq DEF TypeInv, Text
      <4>. QED  BY <4>1, <4>2, SubSeqProperties
    <3>4. <<file[l+1]>> \in Seq(Word) /\ Len(<<file[l+1]>>) = 1
      BY <3>2
    <3>5. Len(left) = 1 + Len(SubSeq(file, l+1+1, k))
      BY <3>1, <3>3, <3>4, ConcatProperties
    <3>6. Len(SubSeq(file, l+1+1, k)) \in Nat
      BY <3>3
    <3>. QED  BY <3>5, <3>6, EmptySeq
  <2>5. NextLine = file[l+1]
    BY <2>3, <2>4 DEF NextLine
  <2>6. NextLine \in Word
    BY <2>1, <2>5, ElementOfSeq DEF TypeInv, Text
  <2>7. Len(t) = l + 1
    BY <2>6, AppendProperties DEF TypeInv, Text
  <2>8. Tail(left) = Unsent(t)
    <3>1. CASE l + 1 < k
      BY <2>3, <2>7, <3>1 DEF Unsent
    <3>2. CASE ~(l + 1 < k)
      <4>1. k < l+1+1 /\ k \in Int /\ l+1+1 \in Int
        BY <1>1, <3>2
      <4>. QED  BY <2>3, <2>7, <3>2, <4>1, SubSeqEmpty DEF Unsent
    <3>. QED  BY <3>1, <3>2
  <2>9. (IF left # <<>> THEN Tail(left) ELSE left) = Unsent(t)
    BY <2>4, <2>8
  <2>10. ~(l >= k)
    BY <1>1, <1>2
  <2>. HIDE DEF t, l, k
  <2>. QED  BY <2>5, <2>6, <2>9, <2>10 DEF t, l, k
<1>3. CASE ~(l < k)
  <2>1. left = <<>> /\ NextLine = ""
    BY <1>1, <1>3 DEF Unsent, NextLine
  <2>2. Len(t) = l + 1
    <3>1. NextLine \in Word
      BY <2>1, Words
    <3>. QED  BY <3>1, AppendProperties DEF TypeInv, Text
  <2>3. ~(l + 1 < k)
    BY <1>1, <1>3
  <2>4. Unsent(t) = <<>>
    BY <2>2, <2>3 DEF Unsent
  <2>5. NextLine \in Word
    BY <2>1, Words
  <2>6. (IF left # <<>> THEN Tail(left) ELSE left) = Unsent(t)
    BY <2>1, <2>4
  <2>. HIDE DEF t, l, k
  <2>. QED  BY <1>3, <2>1, <2>5, <2>6 DEF t, l, k
<1>. QED  BY <1>2, <1>3

(* The commands end at the first "exit", and sending one more line keeps   *)
(* the order of the lines. *)
LEMMA OrderKept ==
    ASSUME Inv
    PROVE  NextLine = IF Len(sent) + 1 <= Len(Commands) THEN Commands[Len(sent)+1] ELSE ""
<1>. DEFINE k == Len(file)
            l == Len(sent)
<1>1. k \in Nat /\ l \in Nat /\ file \in Text /\ DOMAIN file = 1..k
  BY DEF Inv, TypeInv, Text
<1>2. PICK n \in 0..k :
        /\ Len(Commands) = n /\ \A i \in 1..n : Commands[i] = file[i]
        /\ \A i \in 1..n-1 : file[i] # "exit"
        /\ (\A i \in 1..k : file[i] # "exit") => n = k
        /\ (\E i \in 1..k : file[i] = "exit") => n # 0 /\ file[n] = "exit"
  BY <1>1, CommandsAre
<1>3. CASE open
  <2>1. \A i \in 1..k : i <= l => file[i] # "exit"
    BY <1>1, <1>3 DEF Inv, FileInv
  <2>2. /\ l < k => NextLine = file[l+1]
        /\ l >= k => NextLine = ""
    BY <1>3, FileLines DEF Inv
  <2>3. CASE l < k
    <3>1. l < n
      <4>1. CASE \A i \in 1..k : file[i] # "exit"
        BY <1>2, <2>3, <4>1
      <4>2. CASE \E i \in 1..k : file[i] = "exit"
        <5>1. n \in 1..k /\ file[n] = "exit"
          <6>1. n # 0 /\ file[n] = "exit"
            BY <1>2, <4>2
          <6>2. n \in 1..k
            <7>1. n \in 0..k /\ n # 0 /\ k \in Nat
              BY <1>1, <6>1
            <7>. QED  BY ONLY <7>1
          <6>. QED  BY <6>1, <6>2
        <5>2. ~(n <= l)
          BY <2>1, <5>1
        <5>. QED  BY <1>1, <5>1, <5>2
      <4>. QED  BY <4>1, <4>2
    <3>2. l+1 <= n /\ l+1 \in 1..n
      BY <1>1, <3>1
    <3>. HIDE DEF k, l
    <3>. QED  BY <1>2, <2>2, <2>3, <3>2 DEF l
  <2>4. CASE ~(l < k)
    <3>1. ~(l+1 <= n) /\ l >= k
      BY <1>1, <2>4
    <3>. QED  BY <1>2, <2>2, <3>1
  <2>. QED  BY <2>3, <2>4
<1>4. CASE ~open
  <2>1. PICK i \in 1..k : i <= l /\ file[i] = "exit"
    BY <1>1, <1>4 DEF Inv, FileInv
  <2>2. ~(i \in 1..n-1)
    BY <1>2, <2>1
  <2>3. ~(l+1 <= n)
    <3>1. i \in 1..k /\ i <= l /\ ~(i \in 1..n-1) /\ n \in 0..k /\ l \in Nat /\ k \in Nat
      BY <1>1, <2>1, <2>2
    <3>. HIDE DEF l, k
    <3>. QED  BY ONLY <3>1
  <2>. QED  BY <1>2, <1>4, <2>3 DEF NextLine
<1>. QED  BY <1>3, <1>4

LEMMA SendStep ==
    Inv /\ do_send_cmd => Inv'
<1>. SUFFICES ASSUME Inv, do_send_cmd PROVE Inv'
  OBVIOUS
<1>. DEFINE l == Len(sent)
<1>1. /\ due > 0 /\ due' = due - 1
      /\ left' = IF open /\ left # <<>> THEN Tail(left) ELSE left
      /\ open' = (open /\ NextLine # "exit")
      /\ sent' = Append(sent, NextLine)
      /\ UNCHANGED <<pc, has_proxy, file, timer, down, shell, asked, fakes, split>>
  BY DEF do_send_cmd, NextLine, ghosts
<1>2. NextLine \in Word
  <2>1. CASE open
    BY <2>1, FileLines DEF Inv
  <2>2. CASE ~open
    BY <2>2, Words DEF NextLine
  <2>. QED  BY <2>1, <2>2
<1>3. /\ sent' \in Text /\ Len(sent') = l + 1 /\ l \in Nat
      /\ \A i \in 1..l : sent'[i] = sent[i]
      /\ sent'[l+1] = NextLine
  <2>1. sent \in Text
    BY DEF Inv, TypeInv
  <2>. QED  BY <1>1, <1>2, <2>1, AppendProperties DEF Text
<1>4. TypeInv'
  <2>1. left' \in Text
    BY <1>1, HeadTailProperties DEF Inv, TypeInv, Text
  <2>2. due' \in Nat
    BY <1>1 DEF Inv, TypeInv
  <2>3. open' \in BOOLEAN
    BY <1>1 DEF Inv, TypeInv
  <2>. QED  BY <1>1, <1>3, <2>1, <2>2, <2>3 DEF Inv, TypeInv
<1>5. FileInv'
  <2>1. Len(file) \in Nat /\ DOMAIN file = 1..Len(file)
    BY DEF Inv, TypeInv, Text
  <2>2. CASE open
    <3>1. /\ left' = Unsent(sent') 
          /\ l < Len(file) => NextLine = file[l+1]
          /\ l >= Len(file) => NextLine = ""
      BY <1>1, <2>2, FileLines DEF Inv
    <3>2. Unsent(sent') = Unsent(sent)'
      BY <1>1 DEF Unsent
    <3>3. \A i \in DOMAIN file : i <= l => file[i] # "exit"
      BY <2>2 DEF Inv, FileInv
    <3>4. ASSUME NextLine # "exit", NEW i \in DOMAIN file, i <= l + 1
          PROVE  file[i] # "exit"
      <4>1. CASE i <= l
        BY <3>3, <4>1
      <4>2. CASE ~(i <= l)
        <5>1. i = l + 1 /\ l < Len(file)
          BY <1>3, <2>1, <3>4, <4>2
        <5>. QED  BY <3>1, <3>4, <5>1
      <4>. QED  BY <4>1, <4>2
    <3>5. ASSUME NextLine = "exit"
          PROVE  \E i \in DOMAIN file : i <= l + 1 /\ file[i] = "exit"
      <4>1. ~(l >= Len(file))
        BY <3>1, <3>5
      <4>2. l < Len(file) /\ l+1 \in DOMAIN file /\ l+1 <= l+1
        BY <1>3, <2>1, <4>1
      <4>. QED  BY <3>1, <3>5, <4>2
    <3>. QED  BY <1>1, <1>3, <2>2, <3>1, <3>2, <3>4, <3>5 DEF FileInv
  <2>3. CASE ~open
    <3>1. PICK i \in DOMAIN file : i <= l /\ file[i] = "exit"
      BY <2>3 DEF Inv, FileInv
    <3>2. i <= l + 1
      BY <1>3, <2>1, <3>1
    <3>. QED  BY <1>1, <1>3, <2>3, <3>1, <3>2 DEF FileInv
  <2>. QED  BY <2>2, <2>3
<1>6. InOrder'
  <2>1. DOMAIN sent' = 1..l+1 /\ DOMAIN sent = 1..l
    BY <1>3 DEF Inv, TypeInv, Text
  <2>2. Commands' = Commands
    BY <1>1 DEF Commands
  <2>3. ASSUME NEW i \in 1..l+1
        PROVE  sent'[i] = IF i <= Len(Commands) THEN Commands[i] ELSE ""
    <3>1. CASE i \in 1..l
      BY <1>3, <2>1, <3>1 DEF Inv, InOrder
    <3>2. CASE i = l+1
      BY <1>3, <3>2, OrderKept
    <3>3. i \in 1..l \/ i = l+1
      BY <1>3
    <3>. QED  BY <3>1, <3>2, <3>3
  <2>. QED  BY <2>1, <2>2, <2>3 DEF InOrder
<1>7. PromptInv'
  <2>1. Waits' = Waits /\ Prompts(down)' = Prompts(down)
    BY <1>1 DEF Waits, Prompts
  <2>2. /\ Waits \in Nat /\ Cardinality(Prompts(down)) \in Nat
        /\ due \in Nat /\ asked \in Nat /\ fakes \in Nat
    BY PromptsFinite DEF Inv, TypeInv, Waits
  <2>3. Len(sent') + due' + Waits + Cardinality(Prompts(down)) <= asked + fakes
    BY <1>1, <1>3, <2>2 DEF Inv, PromptInv
  <2>. QED  BY <1>1, <2>1, <2>3 DEF Inv, PromptInv
<1>. QED  BY <1>4, <1>5, <1>6, <1>7 DEF Inv

(* The steps that send nothing leave the file and the lines sent alone. *)
LEMMA FileKept ==
    ASSUME Inv, UNCHANGED <<batch, sent>>
    PROVE  FileInv' /\ InOrder'
<1>1. Unsent(sent)' = Unsent(sent) /\ Commands' = Commands
  BY DEF batch, Unsent, Commands
<1>. QED  BY <1>1 DEF Inv, FileInv, InOrder, batch

LEMMA NatSum == \A a, b \in Nat : a + b \in Nat
OBVIOUS

LEMMA Balance ==
    ASSUME NEW n \in Nat, NEW p \in Nat, NEW q \in Nat, NEW r \in Nat, NEW t \in Nat, NEW i \in Nat,
           n + p <= q, r <= p + i, t = q + i
    PROVE  n + r <= t
OBVIOUS

(* The bookkeeping of the prompts in one step: how many more were printed, *)
(* and where the others have gone. *)
LEMMA PromptsKept ==
    ASSUME Inv, UNCHANGED <<batch, sent>>,
           down' \in Text, due' \in Nat, asked' \in Nat, fakes' \in Nat, timer' \in BOOLEAN,
           down' = <<>> \/ down'[Len(down')] # "%",
           NEW i \in Nat, asked' + fakes' = asked + fakes + i,
           due' + Waits' + Cardinality(Prompts(down')) <= due + Waits + Cardinality(Prompts(down)) + i
    PROVE  Inv'
<1>1. TypeInv'
  BY DEF Inv, TypeInv, batch
<1>2. /\ Cardinality(Prompts(down)) \in Nat /\ Cardinality(Prompts(down')) \in Nat
      /\ Waits \in Nat /\ Waits' \in Nat /\ Len(sent) \in Nat
      /\ due \in Nat /\ asked \in Nat /\ fakes \in Nat
  BY PromptsFinite DEF Inv, TypeInv, Waits, Text
<1>3. Len(sent) + due' + Waits' + Cardinality(Prompts(down')) <= asked' + fakes'
  <2>. DEFINE p == due + Waits + Cardinality(Prompts(down))
              r == due' + Waits' + Cardinality(Prompts(down'))
              q == asked + fakes
              t == asked' + fakes'
  <2>1. p \in Nat /\ r \in Nat /\ q \in Nat /\ t \in Nat /\ Len(sent) \in Nat
    <3>1. p \in Nat
      BY <1>2
    <3>2. r \in Nat
      <4>1. due' \in Nat /\ Waits' \in Nat /\ Cardinality(Prompts(down')) \in Nat
        BY <1>2
      <4>. QED  BY ONLY <4>1
    <3>3. q \in Nat
      BY <1>2
    <3>4. t \in Nat
      <4>1. asked' \in Nat /\ fakes' \in Nat
        OBVIOUS
      <4>. HIDE DEF t
      <4>. QED  BY <4>1, NatSum DEF t
    <3>. QED  BY <1>2, <3>1, <3>2, <3>3, <3>4
  <2>2. Len(sent) + p <= q
    BY <1>2 DEF Inv, PromptInv
  <2>3. r <= p + i /\ t = q + i
    <3>. HIDE DEF p, r, q, t
    <3>. QED  BY DEF p, r, q, t
  <2>4. Len(sent) + r = Len(sent) + due' + Waits' + Cardinality(Prompts(down'))
    BY <1>2
  <2>5. Len(sent) + r <= t
    <3>. HIDE DEF p, r, q, t
    <3>. QED  BY <2>1, <2>2, <2>3, Balance
  <2>. QED  BY <2>4, <2>5
<1>4. PromptInv'
  BY <1>3 DEF PromptInv
<1>. QED  BY <1>1, <1>4, FileKept DEF Inv

LEMMA InitInv == Init => Inv
<1>. SUFFICES ASSUME Init PROVE Inv
  OBVIOUS
<1>1. /\ file \in Files /\ left = file /\ open = TRUE /\ timer = FALSE /\ due = 0
      /\ down = <<>> /\ sent = <<>> /\ asked = 0 /\ fakes = 0
  BY DEF Init, ConsoleInit
<1>2. file \in Text /\ <<>> \in Text /\ Len(<<>>) = 0 /\ Len(file) \in Nat /\ DOMAIN file = 1..Len(file)
  <2>1. file \in Text /\ <<>> \in Text
    BY <1>1, Words
  <2>2. Len(<<>>) = 0
    OBVIOUS
  <2>3. Len(file) \in Nat /\ DOMAIN file = 1..Len(file)
    BY <2>1 DEF Text
  <2>. QED  BY <2>1, <2>2, <2>3
<1>3. TypeInv
  BY <1>1, <1>2 DEF TypeInv
<1>4. FileInv
  <2>1. left = Unsent(sent)
    <3>1. CASE 0 < Len(file)
      <4>1. SubSeq(file, 1, Len(file)) = file
        BY <1>2, SubSeqFull DEF Text
      <4>. QED  BY <1>1, <1>2, <3>1, <4>1 DEF Unsent
    <3>2. CASE ~(0 < Len(file))
      <4>1. file = <<>>
        BY <1>2, <3>2, EmptySeq DEF Text
      <4>. QED  BY <1>1, <1>2, <4>1 DEF Unsent
    <3>. QED  BY <3>1, <3>2
  <2>2. \A i \in DOMAIN file : ~(i <= 0)
    BY <1>2
  <2>. QED  BY <1>1, <1>2, <2>1, <2>2 DEF FileInv
<1>5. InOrder
  <2>1. DOMAIN sent = {}
    BY <1>1
  <2>. QED  BY <2>1 DEF InOrder
<1>6. PromptInv
  <2>1. Cardinality(Prompts(down)) = 0 /\ Waits = 0
    BY <1>1, SmallPrompts DEF Waits
  <2>. QED  BY <1>1, <1>2, <2>1 DEF PromptInv
<1>. QED  BY <1>3, <1>4, <1>5, <1>6 DEF Inv

(* Steps that touch neither the way down nor the timer nor the file. *)
LEMMA QuietStep ==
    ASSUME Inv, UNCHANGED <<batch, timer, due, down, sent, asked, fakes>>
    PROVE  Inv'
<1>1. /\ TypeInv' /\ Waits' = Waits /\ Prompts(down)' = Prompts(down)
  BY DEF Inv, TypeInv, batch, Waits, Prompts
<1>2. PromptInv'
  BY <1>1 DEF Inv, PromptInv
<1>. QED  BY <1>1, <1>2, FileKept DEF Inv

(* A read of n bytes. *)
LEMMA Rest ==
    ASSUME Inv, NEW n \in Nat \ {0}, down' = SubSeq(down, n + 1, Len(down))
    PROVE  /\ down' \in Text /\ (down' = <<>> \/ down'[Len(down')] # "%")
           /\ Cardinality(Prompts(down')) <= Cardinality(Prompts(down))
           /\ n <= Len(down) /\ HasPrompt(SubSeq(down, 1, n)) =>
                  Cardinality(Prompts(down')) + 1 <= Cardinality(Prompts(down))
<1>1. down \in Text /\ Len(down) \in Nat /\ (down = <<>> \/ down[Len(down)] # "%")
  BY DEF Inv, TypeInv, PromptInv, Text
<1>2. CASE n <= Len(down)
  <2>1. n \in 0..Len(down)
    BY <1>1, <1>2
  <2>2. /\ down' \in Text
        /\ Cardinality(Prompts(down')) + (IF HasPrompt(SubSeq(down, 1, n)) THEN 1 ELSE 0)
              <= Cardinality(Prompts(down))
        /\ down' # <<>> => down'[Len(down')] = down[Len(down)] /\ down # <<>>
    BY <1>1, <2>1, PromptsLeft
  <2>3. Cardinality(Prompts(down')) \in Nat /\ Cardinality(Prompts(down)) \in Nat
    BY <1>1, <2>2, PromptsFinite
  <2>4. down' = <<>> \/ down'[Len(down')] # "%"
    BY <1>1, <2>2
  <2>5. Cardinality(Prompts(down')) <= Cardinality(Prompts(down))
    BY <2>2, <2>3
  <2>6. HasPrompt(SubSeq(down, 1, n)) =>
            Cardinality(Prompts(down')) + 1 <= Cardinality(Prompts(down))
    BY <2>2, <2>3
  <2>. QED  BY <2>2, <2>4, <2>5, <2>6
<1>3. CASE ~(n <= Len(down))
  <2>1. Len(down) < n + 1 /\ n + 1 \in Int /\ Len(down) \in Int
    BY <1>1, <1>3
  <2>2. down' = <<>>
    BY <2>1, SubSeqEmpty
  <2>3. Cardinality(Prompts(down')) = 0 /\ Cardinality(Prompts(down)) \in Nat
    BY <1>1, <2>2, SmallPrompts, PromptsFinite
  <2>4. down' \in Text
    BY <2>2, Words
  <2>5. Cardinality(Prompts(down')) <= Cardinality(Prompts(down))
    BY <2>3
  <2>. QED  BY <1>3, <2>2, <2>4, <2>5
<1>. QED  BY <1>2, <1>3

LEMMA HandlerStep ==
    ASSUME Inv, Handlers PROVE Inv'
<1>1. CASE Resolve
  BY <1>1, QuietStep DEF Resolve, ghosts
<1>2. CASE Connect
  BY <1>2, QuietStep DEF Connect, ghosts
<1>3. CASE ReadFails
  BY <1>3, QuietStep DEF ReadFails, ghosts
<1>4. CASE do_send_cmd
  BY <1>4, SendStep
<1>5. /\ due \in Nat /\ asked \in Nat /\ fakes \in Nat /\ timer \in BOOLEAN
      /\ down \in Text /\ (down = <<>> \/ down[Len(down)] # "%")
      /\ Cardinality(Prompts(down)) \in Nat /\ Waits \in Nat
  BY PromptsFinite DEF Inv, TypeInv, PromptInv, Waits
<1>6. CASE Expire
  <2>1. /\ timer /\ ~timer' /\ due' = due + 1
        /\ UNCHANGED <<batch, down, sent, asked, fakes>>
    BY <1>6 DEF Expire, ghosts
  <2>2. Waits = 1 /\ Waits' = 0
    BY <2>1 DEF Waits
  <2>3. due' + Waits' + Cardinality(Prompts(down')) <= due + Waits + Cardinality(Prompts(down)) + 0
    BY <1>5, <2>1, <2>2
  <2>4. asked' + fakes' = asked + fakes + 0 /\ due' \in Nat /\ timer' \in BOOLEAN
    <3>1. timer' = FALSE
      BY <1>6 DEF Expire
    <3>2. asked' = asked /\ fakes' = fakes
      BY <2>1
    <3>3. asked + fakes = asked + fakes + 0 /\ due + 1 \in Nat
      BY <1>5
    <3>. QED  BY <2>1, <3>1, <3>2, <3>3
  <2>. QED  BY <1>5, <2>1, <2>3, <2>4, PromptsKept
<1>7. CASE read_socks_request
  <2>1. UNCHANGED <<batch, timer, due, sent, asked, fakes>>
    BY <1>7 DEF read_socks_request, ghosts
  <2>2. CASE UNCHANGED down
    BY <2>1, <2>2, QuietStep
  <2>3. CASE \E n \in 1..2 : down' = SubSeq(down, n + 1, Len(down))
    <3>1. PICK n \in 1..2 : down' = SubSeq(down, n + 1, Len(down))
      BY <2>3
    <3>2. /\ down' \in Text /\ (down' = <<>> \/ down'[Len(down')] # "%")
          /\ Cardinality(Prompts(down')) <= Cardinality(Prompts(down))
      <4>1. n \in Nat \ {0}
        OBVIOUS
      <4>. QED  BY <3>1, <4>1, Rest
    <3>3. Cardinality(Prompts(down')) \in Nat /\ Waits' = Waits
      BY <2>1, <3>2, PromptsFinite DEF Waits
    <3>4. due' + Waits' + Cardinality(Prompts(down')) <= due + Waits + Cardinality(Prompts(down)) + 0
      BY <1>5, <2>1, <3>2, <3>3
    <3>5. asked' + fakes' = asked + fakes + 0
      BY <1>5, <2>1
    <3>. QED  BY <1>5, <2>1, <3>2, <3>4, <3>5, PromptsKept
  <2>. QED  BY <1>7, <2>2, <2>3 DEF read_socks_request
<1>8. CASE do_read
  <2>1. UNCHANGED <<batch, due, sent, asked, fakes>>
    BY <1>8 DEF do_read
  <2>2. PICK n \in 1..Len(down) :
          /\ down' = SubSeq(down, n + 1, Len(down))
          /\ timer' = (timer \/ HasPrompt(SubSeq(down, 1, n)))
    BY <1>8 DEF do_read
  <2>3. n \in Nat \ {0} /\ n <= Len(down)
    BY <1>5 DEF Text
  <2>4. /\ down' \in Text /\ (down' = <<>> \/ down'[Len(down')] # "%")
        /\ Cardinality(Prompts(down')) <= Cardinality(Prompts(down))
        /\ HasPrompt(SubSeq(down, 1, n)) =>
              Cardinality(Prompts(down')) + 1 <= Cardinality(Prompts(down))
    BY <2>2, <2>3, Rest
  <2>5. Cardinality(Prompts(down')) \in Nat /\ timer' \in BOOLEAN
    BY <1>5, <2>2, <2>4, PromptsFinite
  <2>6. Waits' + Cardinality(Prompts(down')) <= Waits + Cardinality(Prompts(down))
    <3>1. CASE timer' = timer
      BY <1>5, <2>4, <2>5, <3>1 DEF Waits
    <3>2. CASE ~timer /\ timer' /\ HasPrompt(SubSeq(down, 1, n))
      BY <1>5, <2>4, <2>5, <3>2 DEF Waits
    <3>. QED  BY <1>5, <2>2, <3>1, <3>2
  <2>7. due' + Waits' + Cardinality(Prompts(down')) <= due + Waits + Cardinality(Prompts(down)) + 0
    <3>1. Waits' \in Nat
      BY DEF Waits
    <3>. QED  BY <1>5, <2>1, <2>5, <2>6, <3>1
  <2>8. asked' + fakes' = asked + fakes + 0
    BY <1>5, <2>1
  <2>. QED  BY <1>5, <2>1, <2>4, <2>5, <2>7, <2>8, PromptsKept
<1>. QED  BY <1>1, <1>2, <1>3, <1>4, <1>6, <1>7, <1>8 DEF Handlers

(* What the shell prints: some output o and a prompt. *)
LEMMA Printed ==
    ASSUME Inv, NEW o \in Text, down' = down \o o \o Prompt,
           UNCHANGED <<batch, timer, due, sent>>,
           asked' = asked + 1, fakes' = fakes + Cardinality(Prompts(o))
    PROVE  Inv'
<1>1. /\ due \in Nat /\ asked \in Nat /\ fakes \in Nat /\ timer \in BOOLEAN
      /\ down \in Text /\ (down = <<>> \/ down[Len(down)] # "%")
      /\ Cardinality(Prompts(down)) \in Nat /\ Cardinality(Prompts(o)) \in Nat
      /\ Waits \in Nat
  BY PromptsFinite DEF Inv, TypeInv, PromptInv, Waits
<1>2. /\ down' \in Text /\ down'[Len(down')] # "%"
      /\ Cardinality(Prompts(down')) <= Cardinality(Prompts(down)) + Cardinality(Prompts(o)) + 1
  BY <1>1, PromptsAppended
<1>3. Cardinality(Prompts(down')) \in Nat
  BY <1>2, PromptsFinite
<1>. DEFINE i == Cardinality(Prompts(o)) + 1
<1>4. i \in Nat /\ asked' \in Nat /\ fakes' \in Nat /\ asked' + fakes' = asked + fakes + i
  BY <1>1
<1>5. due' + Waits' + Cardinality(Prompts(down')) <= due + Waits + Cardinality(Prompts(down)) + i
  <2>1. Waits' = Waits
    BY DEF Waits
  <2>. QED  BY <1>1, <1>2, <1>3, <2>1
<1>. HIDE DEF i
<1>. QED  BY <1>1, <1>2, <1>4, <1>5, PromptsKept

LEMMA ShellStep ==
    ASSUME Inv, Shell PROVE Inv'
<1>1. CASE Exit
  BY <1>1, QuietStep DEF Exit, ghosts
<1>2. CASE Greet
  <2>1. <<"x">> \in Text /\ Cardinality(Prompts(<<"x">>)) = 0
    BY Words, SmallPrompts
  <2>2. fakes' = fakes + 0 
    BY <1>2 DEF Greet, Inv, TypeInv
  <2>. QED  BY <1>2, <2>1, <2>2, Printed DEF Greet
<1>3. CASE Execute
  <2>1. PICK o \in Outputs :
          /\ down' = down \o o \o Prompt
          /\ fakes' = fakes + Cardinality(Prompts(o))
    BY <1>3 DEF Execute
  <2>2. o \in Text
    BY Words
  <2>. QED  BY <1>3, <2>1, <2>2, Printed DEF Execute
<1>4. CASE ProxyAnswers
  <2>1. down = <<>> /\ UNCHANGED <<batch, timer, due, sent, asked, fakes>>
    BY <1>4 DEF ProxyAnswers, ghosts
  <2>2. \E c \in {"5A", "5B"} : down' = <<"r", c>> \/ down' = <<>>
    BY <1>4 DEF ProxyAnswers
  <2>3. /\ due \in Nat /\ asked \in Nat /\ fakes \in Nat /\ timer \in BOOLEAN /\ Waits \in Nat
    BY DEF Inv, TypeInv, Waits
  <2>4. down' \in Text /\ Prompts(down') = {} /\ (down' = <<>> \/ down'[Len(down')] # "%")
    <3>1. CASE down' = <<>>
      BY <3>1, Words, SmallPrompts
    <3>2. CASE down' = <<"r", "5A">>
      <4>1. Len(down') = 2 /\ down'[2] = "5A"
        BY <3>2
      <4>. QED  BY <3>2, <4>1, Words, SmallPrompts
    <3>3. CASE down' = <<"r", "5B">>
      <4>1. Len(down') = 2 /\ down'[2] = "5B"
        BY <3>3
      <4>. QED  BY <3>3, <4>1, Words, SmallPrompts
    <3>. QED  BY <2>2, <3>1, <3>2, <3>3
  <2>5. Cardinality(Prompts(down')) = 0 /\ Cardinality(Prompts(down)) = 0 /\ Waits' = Waits
    BY <2>1, <2>4, SmallPrompts DEF Waits
  <2>6. due' + Waits' + Cardinality(Prompts(down')) <= due + Waits + Cardinality(Prompts(down)) + 0
    BY <2>1, <2>3, <2>5
  <2>7. asked' + fakes' = asked + fakes + 0
    BY <2>1, <2>3
  <2>. QED  BY <2>1, <2>3, <2>4, <2>6, <2>7, PromptsKept
<1>. QED  BY <1>1, <1>2, <1>3, <1>4 DEF Shell

LEMMA NextInv == Inv /\ [Next]_vars => Inv'
<1>. SUFFICES ASSUME Inv, [Next]_vars PROVE Inv'
  OBVIOUS
<1>1. CASE UNCHANGED cvars
  BY <1>1, QuietStep DEF cvars, batch
<1>2. CASE Exec
  BY <1>2, QuietStep DEF Exec, ConsoleStarts, ghosts
<1>3. CASE Handlers
  BY <1>3, HandlerStep
<1>4. CASE Shell
  BY <1>4, ShellStep
<1>. QED  BY <1>1, <1>2, <1>3, <1>4 DEF Next, Http, Ends, vars

(***************************************************************************)
(* The console sends the lines of any batch file in order, nothing after   *)
(* "exit" but empty lines, and never more lines than prompts were printed, *)
(* however reads cut the output and whenever waits expire.                 *)
(***************************************************************************)
THEOREM LinesOnPrompt == Spec => []SentOnPrompt
<1>1. Inv => SentOnPrompt
  <2>. SUFFICES ASSUME Inv PROVE SentOnPrompt
    OBVIOUS
  <2>1. /\ due \in Nat /\ Waits \in Nat /\ Cardinality(Prompts(down)) \in Nat
        /\ Len(sent) \in Nat /\ asked \in Nat /\ fakes \in Nat
    BY PromptsFinite DEF Inv, TypeInv, Waits, Text
  <2>2. Len(sent) <= asked + fakes
    BY <2>1 DEF Inv, PromptInv
  <2>. QED  BY <2>2 DEF SentOnPrompt, Inv, InOrder
<1>. QED  BY <1>1, InitInv, NextInv, PTL DEF Spec
=============================================================================
