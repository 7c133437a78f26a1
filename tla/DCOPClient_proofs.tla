-------------------------- MODULE DCOPClient_proofs --------------------------
(* Proofs about DCOPClient: types, what the key keeps out of an open call,  *)
(* and whom a transaction answers.                                          *)
EXTENDS DCOPClient, TLAPS, SequenceTheorems, FiniteSetTheorems, WellFoundedInduction

-----------------------------------------------------------------------------
(* Sequences.                                                              *)

\* The least of a set of places in a sequence is one of them.
LEMMA FirstIsThere ==
  ASSUME NEW k \in Nat, NEW places, places \subseteq 1 .. k, places # {}
  PROVE  First(places) \in places
<1>1. \E i \in places : \A j \in places : ~(<<j, i>> \in OpToRel(<, Nat))
  <2>1. places \subseteq Nat
    OBVIOUS
  <2> QED
    BY <2>1, NatLessThanWellFounded, WFMin
<1>2. PICK i \in places : \A j \in places : ~(<<j, i>> \in OpToRel(<, Nat))
  BY <1>1
<1>3. \A j \in places : ~(j < i)
  <2> SUFFICES ASSUME NEW j \in places, j < i PROVE FALSE
    OBVIOUS
  <2>1. <<j, i>> \in OpToRel(<, Nat)
    BY DEF OpToRel
  <2> QED
    BY <2>1, <1>2
<1>4. \A j \in places : i <= j
  BY <1>3
<1> QED
  BY <1>4 DEF First

LEMMA FrontOfSeq ==
  ASSUME NEW S, NEW s \in Seq(S), s # << >>
  PROVE  /\ Front(s) \in Seq(S) /\ Len(s) \in Nat \ {0} /\ Len(Front(s)) = Len(s) - 1
         /\ DOMAIN Front(s) = 1 .. Len(s) - 1
         /\ \A i \in 1 .. Len(s) - 1 : Front(s)[i] = s[i]
<1>1. Len(s) \in Nat \ {0} /\ \A i \in 1 .. Len(s) : s[i] \in S
  BY EmptySeq, LenProperties
<1>2. /\ Front(s) \in Seq(S) /\ Len(Front(s)) = Len(s) - 1
      /\ \A i \in 1 .. Len(s) - 1 : Front(s)[i] = s[i]
  <2> DEFINE k == Len(s) - 1
  <2>1. k \in Nat /\ \A i \in 1 .. k : s[i] \in S
    BY <1>1
  <2> HIDE DEF k
  <2>2. /\ SubSeq(s, 1, k) \in Seq(S) /\ Len(SubSeq(s, 1, k)) = IF 1 <= k THEN k - 1 + 1 ELSE 0
        /\ \A i \in 1 .. k - 1 + 1 : SubSeq(s, 1, k)[i] = s[1 + i - 1]
    BY <2>1, SubSeqProperties
  <2>3. \A i \in 1 .. k : 1 + i - 1 = i
    BY <2>1
  <2>4. Front(s) = SubSeq(s, 1, k)
    BY DEF Front, k
  <2>5. Len(Front(s)) = k /\ \A i \in 1 .. k : Front(s)[i] = s[i]
    BY <2>1, <2>2, <2>3, <2>4
  <2> QED
    BY <2>2, <2>4, <2>5 DEF k
<1>3. DOMAIN Front(s) = 1 .. Len(Front(s))
  BY <1>2, LenProperties
<1> QED
  BY <1>1, <1>2, <1>3

LEMMA AppendToSeq ==
  ASSUME NEW S, NEW s \in Seq(S), NEW e \in S
  PROVE  /\ Append(s, e) \in Seq(S) /\ Len(s) \in Nat /\ Len(Append(s, e)) = Len(s) + 1
         /\ DOMAIN Append(s, e) = 1 .. Len(s) + 1 /\ DOMAIN s = 1 .. Len(s)
         /\ \A i \in 1 .. Len(s) : Append(s, e)[i] = s[i]
         /\ Append(s, e)[Len(s) + 1] = e
BY AppendProperties, LenProperties

\* Replacing the last element keeps the others.
LEMMA ReplaceLast ==
  ASSUME NEW S, NEW s \in Seq(S), s # << >>, NEW e \in S
  PROVE  /\ Append(Front(s), e) \in Seq(S) /\ Len(s) \in Nat \ {0}
         /\ Len(Append(Front(s), e)) = Len(s)
         /\ DOMAIN Append(Front(s), e) = 1 .. Len(s)
         /\ \A i \in 1 .. Len(s) - 1 : Append(Front(s), e)[i] = s[i]
         /\ Append(Front(s), e)[Len(s)] = e
<1>1. /\ Front(s) \in Seq(S) /\ Len(s) \in Nat \ {0} /\ Len(Front(s)) = Len(s) - 1
      /\ \A i \in 1 .. Len(s) - 1 : Front(s)[i] = s[i]
  BY FrontOfSeq
<1> QED
  BY <1>1, AppendToSeq

\* The elements before some place of a sequence are elements of it.
LEMMA ElementsBefore ==
  ASSUME NEW S, NEW s, NEW l \in Nat, s \in [1 .. l -> S], NEW k \in 1 .. l
  PROVE  {s[j] : j \in 1 .. k - 1} \subseteq S
OBVIOUS

\* Place j of what is left when place i of n is removed, a places are before it and
\* b after it.
LEMMA PlacesLeft ==
  ASSUME NEW n \in Nat, NEW i \in 1 .. n, NEW a \in Int, NEW b \in Int,
         a = i - 1, b = n - i, NEW j \in 1 .. a + b
  PROVE  /\ j <= a => j \in 1 .. a /\ j \in 1 .. n
         /\ ~(j <= a) => j - a \in 1 .. b /\ i + (j - a) \in 1 .. n
OBVIOUS

\* What is left when an element is removed was there before.
LEMMA RemoveAtKeeps ==
  ASSUME NEW S, NEW s \in Seq(S), NEW i \in DOMAIN s
  PROVE  /\ RemoveAt(s, i) \in Seq(S)
         /\ \A j \in DOMAIN RemoveAt(s, i) : \E k \in DOMAIN s : RemoveAt(s, i)[j] = s[k]
<1> DEFINE f == SubSeq(s, 1, i - 1)
           g == SubSeq(s, i + 1, Len(s))
<1>1. DOMAIN s = 1 .. Len(s) /\ Len(s) \in Nat
  BY LenProperties
<1>2. /\ f \in Seq(S) /\ Len(f) = i - 1 /\ \A j \in 1 .. Len(f) : f[j] = s[j]
  BY <1>1, SubSeqProperties
<1>3. /\ g \in Seq(S) /\ Len(g) = Len(s) - i /\ \A j \in 1 .. Len(g) : g[j] = s[i + j]
  BY <1>1, SubSeqProperties
<1>4. /\ f \o g \in Seq(S) /\ Len(f \o g) = Len(f) + Len(g)
      /\ \A j \in 1 .. Len(f) + Len(g) :
           (f \o g)[j] = IF j <= Len(f) THEN f[j] ELSE g[j - Len(f)]
  BY <1>2, <1>3, ConcatProperties
<1> HIDE DEF f, g
<1>5. ASSUME NEW j \in 1 .. Len(f) + Len(g)
      PROVE \E k \in DOMAIN s : (f \o g)[j] = s[k]
  <2>1. (f \o g)[j] = IF j <= Len(f) THEN f[j] ELSE g[j - Len(f)]
    BY <1>4, Zenon
  <2>2. /\ Len(f) \in Int /\ Len(f) = i - 1 /\ Len(g) \in Int /\ Len(g) = Len(s) - i
        /\ i \in 1 .. Len(s) /\ Len(s) \in Nat
    BY <1>1, <1>2, <1>3
  <2>3. CASE j <= Len(f)
    <3>1. j \in 1 .. Len(f) /\ j \in 1 .. Len(s)
      BY <2>2, <2>3, PlacesLeft, Zenon
    <3> QED
      BY <2>1, <2>3, <3>1, <1>1, <1>2, Zenon
  <2>4. CASE ~(j <= Len(f))
    <3>1. /\ j - Len(f) \in 1 .. Len(g) /\ i + (j - Len(f)) \in 1 .. Len(s)
      BY <2>2, <2>4, PlacesLeft, Zenon
    <3>2. g[j - Len(f)] = s[i + (j - Len(f))]
      BY <3>1, <1>3, Zenon
    <3> QED
      BY <2>1, <2>4, <3>1, <3>2, <1>1, Zenon
  <2> QED
    BY <2>3, <2>4, Zenon
<1>6. DOMAIN (f \o g) = 1 .. Len(f) + Len(g)
  BY <1>4, LenProperties
<1> QED
  BY <1>4, <1>5, <1>6 DEF RemoveAt, f, g

-----------------------------------------------------------------------------
(* Types.  A handler sends its answer to the caller, so the numbers that    *)
(* frames, messages and transactions hold must be those of calls made.      *)

Known ==
  \A c \in Client :
    /\ \A i \in DOMAIN stack[c] : stack[c][i].at # "posted" => stack[c][i].n \in DOMAIN calls
    /\ \A i \in DOMAIN toClient[c] : toClient[c][i].n \in DOMAIN calls
    /\ \A i \in DOMAIN messages[c] : messages[c][i] \in DOMAIN calls
    /\ \A t \in transactionList[c] : t.n \in DOMAIN calls

LEMMA CallsTyped ==
  ASSUME TypeOK, NEW n \in DOMAIN calls
  PROVE  n \in CallNo /\ calls[n] \in CallInfo /\ Len(calls) \in Nat
<1>1. DOMAIN calls = 1 .. Len(calls) /\ calls \in [1 .. Len(calls) -> CallInfo] /\ Len(calls) \in Nat
  BY LenProperties DEF TypeOK
<1> QED
  BY <1>1, BoundAssumption DEF TypeOK, CallNo

LEMMA TopTyped ==
  ASSUME TypeOK, Known, NEW c \in Client, ~Idle(c)
  PROVE  /\ stack[c] \in Seq(Frame) /\ stack[c] # << >>
         /\ Len(stack[c]) \in Nat \ {0} /\ DOMAIN stack[c] = 1 .. Len(stack[c])
         /\ Top(c) \in Frame /\ Top(c).oldKey \in Keys
         /\ Top(c).at # "posted" => Top(c).n \in DOMAIN calls /\ Top(c).n \in CallNo
<1>1. stack[c] \in Seq(Frame) /\ stack[c] # << >>
  BY DEF TypeOK, Idle
<1>2. Len(stack[c]) \in Nat \ {0} /\ stack[c] \in [1 .. Len(stack[c]) -> Frame]
      /\ DOMAIN stack[c] = 1 .. Len(stack[c])
  BY <1>1, LenProperties, EmptySeq
<1>3. Top(c) \in Frame /\ Top(c).oldKey \in Keys
  BY <1>2 DEF Top, Frame
<1>4. Top(c).at # "posted" => Top(c).n \in DOMAIN calls
  BY <1>2 DEF Top, Known
<1> QED
  BY <1>1, <1>2, <1>3, <1>4, CallsTyped

LEMMA PopTyped ==
  ASSUME TypeOK, Known, NEW c \in Client, ~Idle(c)
  PROVE  /\ Pop(c) \in [Client -> Seq(Frame)]
         /\ Len(Pop(c)[c]) = Len(stack[c]) - 1 /\ DOMAIN Pop(c)[c] = 1 .. Len(stack[c]) - 1
         /\ \A i \in 1 .. Len(stack[c]) - 1 : Pop(c)[c][i] = stack[c][i]
         /\ \A d \in Client \ {c} : Pop(c)[d] = stack[d]
         /\ \A d \in Client : \A i \in DOMAIN Pop(c)[d] :
              i \in DOMAIN stack[d] /\ Pop(c)[d][i] = stack[d][i]
<1>1. stack \in [Client -> Seq(Frame)] /\ stack[c] \in Seq(Frame) /\ stack[c] # << >>
      /\ DOMAIN stack[c] = 1 .. Len(stack[c])
  BY TopTyped DEF TypeOK
<1>2. /\ Front(stack[c]) \in Seq(Frame) /\ Len(Front(stack[c])) = Len(stack[c]) - 1
      /\ DOMAIN Front(stack[c]) = 1 .. Len(stack[c]) - 1
      /\ \A i \in 1 .. Len(stack[c]) - 1 : Front(stack[c])[i] = stack[c][i]
      /\ Len(stack[c]) \in Nat \ {0}
  BY <1>1, FrontOfSeq
<1>3. Pop(c) = [stack EXCEPT ![c] = Front(stack[c])]
  BY DEF Pop
<1>4. Pop(c)[c] = Front(stack[c]) /\ \A d \in Client \ {c} : Pop(c)[d] = stack[d]
  BY <1>1, <1>3
<1>5. Pop(c) \in [Client -> Seq(Frame)]
  BY <1>1, <1>2, <1>3
<1>6. ASSUME NEW d \in Client, NEW i \in DOMAIN Pop(c)[d]
      PROVE  i \in DOMAIN stack[d] /\ Pop(c)[d][i] = stack[d][i]
  <2>1. CASE d = c
    BY <2>1, <1>1, <1>2, <1>4
  <2>2. CASE d # c
    BY <2>2, <1>4
  <2> QED
    BY <2>1, <2>2
<1> QED
  BY <1>1, <1>2, <1>4, <1>5, <1>6

\* Only the queue of d is another one, with m at its end.
Appends(q, r, d, m) == r = [q EXCEPT ![d] = Append(q[d], m)]

\* A message about n is appended to a queue.
LEMMA QueueTyped ==
  ASSUME TypeOK, NEW d, NEW n, NEW m \in Message, m.n = n, Appends(toClient, toClient', d, m)
  PROVE  /\ toClient' \in [Client -> Seq(Message)]
         /\ \A e \in Client : \A i \in DOMAIN toClient'[e] :
              toClient'[e][i].n = n
              \/ (i \in DOMAIN toClient[e] /\ toClient'[e][i].n = toClient[e][i].n)
<1>1. ASSUME NEW e \in Client
      PROVE  /\ toClient'[e] \in Seq(Message)
             /\ \A i \in DOMAIN toClient'[e] :
                  toClient'[e][i].n = n
                  \/ (i \in DOMAIN toClient[e] /\ toClient'[e][i].n = toClient[e][i].n)
  <2>1. toClient[e] \in Seq(Message)
    BY DEF TypeOK
  <2>2. CASE e = d
    <3>1. toClient'[e] = Append(toClient[e], m)
      BY <2>2 DEF TypeOK, Appends
    <3>2. /\ Append(toClient[e], m) \in Seq(Message) /\ Len(toClient[e]) \in Nat
          /\ DOMAIN Append(toClient[e], m) = 1 .. Len(toClient[e]) + 1
          /\ DOMAIN toClient[e] = 1 .. Len(toClient[e])
          /\ \A i \in 1 .. Len(toClient[e]) : Append(toClient[e], m)[i] = toClient[e][i]
          /\ Append(toClient[e], m)[Len(toClient[e]) + 1] = m
      BY <2>1, AppendToSeq
    <3>3. \A i \in 1 .. Len(toClient[e]) + 1 :
            i \in 1 .. Len(toClient[e]) \/ i = Len(toClient[e]) + 1
      BY <3>2
    <3> QED
      BY <3>1, <3>2, <3>3
  <2>3. CASE e # d
    BY <2>1, <2>3 DEF TypeOK, Appends
  <2> QED
    BY <2>2, <2>3
<1>2. DOMAIN toClient' = Client /\ toClient' = [e \in Client |-> toClient'[e]]
  BY DEF TypeOK, Appends
<1> QED
  BY <1>1, <1>2

\* What the server does with a message.
LEMMA SendCases ==
  ASSUME NEW c, NEW d, NEW n, NEW tid, NEW op, Send(c, d, op, n, tid)
  PROVE  \/ /\ d \notin dead
            /\ Appends(toClient, toClient', d, [op |-> op, n |-> n, from |-> c, tid |-> tid])
         \/ /\ d \in dead /\ op = "DCOPCall"
            /\ Appends(toClient, toClient', c, Failure(d, n, 0))
         \/ /\ d \in dead /\ op # "DCOPCall" /\ toClient' = toClient
BY DEF Send, Appends

LEMMA SendTyped ==
  ASSUME TypeOK, NEW c \in Client, NEW d, NEW n \in CallNo, NEW tid \in Nat,
         NEW op \in Opcode, Send(c, d, op, n, tid), op = "DCOPCall" => d \in Client
  PROVE  /\ toClient' \in [Client -> Seq(Message)]
         /\ \A e \in Client : \A i \in DOMAIN toClient'[e] :
              toClient'[e][i].n = n
              \/ (i \in DOMAIN toClient[e] /\ toClient'[e][i].n = toClient[e][i].n)
<1>1. CASE toClient' = toClient
  BY <1>1 DEF TypeOK
<1>2. CASE \E e, m : m \in Message /\ m.n = n /\ Appends(toClient, toClient', e, m)
  BY <1>2, QueueTyped
<1>3. [op |-> op, n |-> n, from |-> c, tid |-> tid] \in Message
  BY DEF Message
<1>4. op = "DCOPCall" => Failure(d, n, 0) \in Message /\ Failure(d, n, 0).n = n
  BY DEF Message, Failure, Opcode
<1>5. [op |-> op, n |-> n, from |-> c, tid |-> tid].n = n
  OBVIOUS
<1> QED
  BY <1>1, <1>2, <1>3, <1>4, <1>5, SendCases, Zenon

\* A handler that calls stays the same but for what it did.
LEMMA CallingTyped ==
  ASSUME TypeOK, Known, NEW c \in Client
  PROVE  /\ Calling(c) \in Seq(Frame) /\ Len(Calling(c)) = Len(stack[c])
         /\ Len(stack[c]) \in Nat /\ DOMAIN stack[c] = 1 .. Len(stack[c])
         /\ DOMAIN Calling(c) = DOMAIN stack[c]
         /\ \A i \in DOMAIN stack[c] :
              /\ Calling(c)[i].at = stack[c][i].at /\ Calling(c)[i].n = stack[c][i].n
              /\ Calling(c)[i].oldKey = stack[c][i].oldKey
              /\ Calling(c)[i].did # "nothing" \/ Calling(c)[i].did = stack[c][i].did
              /\ i = Len(stack[c]) /\ stack[c][i].at = "handler" => Calling(c)[i].did # "nothing"
<1>1. stack[c] \in Seq(Frame) /\ Len(stack[c]) \in Nat /\ DOMAIN stack[c] = 1 .. Len(stack[c])
  BY LenProperties DEF TypeOK
<1>2. CASE ~(In(c, "handler") /\ Top(c).did = "nothing")
  <2>1. Calling(c) = stack[c]
    BY <1>2 DEF Calling
  <2>2. ASSUME Len(stack[c]) \in DOMAIN stack[c], stack[c][Len(stack[c])].at = "handler"
        PROVE stack[c][Len(stack[c])].did # "nothing"
    <3>1. stack[c] # << >>
      BY <2>2, <1>1, EmptySeq
    <3> QED
      BY <1>2, <2>2, <3>1 DEF In, Top
  <2> QED
    BY <1>1, <2>1, <2>2
<1>3. CASE In(c, "handler") /\ Top(c).did = "nothing"
  <2> DEFINE f == [Top(c) EXCEPT !.did = "called"]
  <2>1. ~Idle(c)
    BY <1>3 DEF In, Idle
  <2>2. Top(c) \in Frame /\ stack[c] # << >>
    BY <2>1, TopTyped
  <2>3. f \in Frame /\ f.at = Top(c).at /\ f.n = Top(c).n /\ f.oldKey = Top(c).oldKey
        /\ f.did = "called"
    BY <2>2 DEF Frame
  <2> HIDE DEF f
  <2>4. Calling(c) = Append(Front(stack[c]), f)
    BY <1>3 DEF Calling, ReplaceTop, f
  <2>5. /\ Append(Front(stack[c]), f) \in Seq(Frame) /\ Len(stack[c]) \in Nat \ {0}
        /\ Len(Append(Front(stack[c]), f)) = Len(stack[c])
        /\ DOMAIN Append(Front(stack[c]), f) = 1 .. Len(stack[c])
        /\ \A i \in 1 .. Len(stack[c]) - 1 : Append(Front(stack[c]), f)[i] = stack[c][i]
        /\ Append(Front(stack[c]), f)[Len(stack[c])] = f
    BY <1>1, <2>2, <2>3, ReplaceLast
  <2>6. \A i \in 1 .. Len(stack[c]) : i \in 1 .. Len(stack[c]) - 1 \/ i = Len(stack[c])
    BY <2>5
  <2> QED
    BY <1>1, <2>3, <2>4, <2>5, <2>6 DEF Top
<1> QED
  BY <1>2, <1>3

\* Another frame on top of frames that are those of c but for what they did.
LEMMA PushTyped ==
  ASSUME TypeOK, NEW c \in Client, NEW F \in Seq(Frame), NEW f \in Frame,
         Len(F) = Len(stack[c]),
         \A i \in DOMAIN stack[c] : F[i].at = stack[c][i].at /\ F[i].n = stack[c][i].n,
         f.at # "posted" => f.n \in DOMAIN calls',
         stack' = [stack EXCEPT ![c] = Append(F, f)],
         Known, DOMAIN calls \subseteq DOMAIN calls'
  PROVE  /\ stack' \in [Client -> Seq(Frame)]
         /\ \A d \in Client : \A i \in DOMAIN stack'[d] :
              stack'[d][i].at # "posted" => stack'[d][i].n \in DOMAIN calls'
<1>1. /\ Append(F, f) \in Seq(Frame) /\ Len(F) \in Nat
      /\ DOMAIN Append(F, f) = 1 .. Len(F) + 1 /\ DOMAIN F = 1 .. Len(F)
      /\ \A i \in 1 .. Len(F) : Append(F, f)[i] = F[i]
      /\ Append(F, f)[Len(F) + 1] = f
  BY AppendToSeq
<1>2. stack \in [Client -> Seq(Frame)] /\ DOMAIN stack[c] = 1 .. Len(stack[c])
  BY LenProperties DEF TypeOK
<1>3. stack' \in [Client -> Seq(Frame)] /\ stack'[c] = Append(F, f)
      /\ \A d \in Client \ {c} : stack'[d] = stack[d]
  BY <1>1, <1>2
<1>4. ASSUME NEW d \in Client, NEW i \in DOMAIN stack'[d], stack'[d][i].at # "posted"
      PROVE  stack'[d][i].n \in DOMAIN calls'
  <2>1. CASE d # c
    BY <2>1, <1>3, <1>4 DEF Known
  <2>2. CASE d = c /\ i = Len(F) + 1
    BY <2>2, <1>1, <1>3, <1>4
  <2>3. CASE d = c /\ i # Len(F) + 1
    <3>1. i \in DOMAIN stack[c] /\ stack'[d][i] = F[i]
      BY <2>3, <1>1, <1>2, <1>3
    <3>2. stack[c][i].n \in DOMAIN calls
      BY <2>3, <3>1, <1>4 DEF Known
    <3> QED
      BY <3>1, <3>2
  <2> QED
    BY <2>1, <2>2, <2>3
<1> QED
  BY <1>3, <1>4

\* What the stacks keep when the innermost frame of one client changes.
LEMMA ReplaceTopTyped ==
  ASSUME TypeOK, Known, NEW c \in Client, ~Idle(c), NEW f \in Frame,
         f.at = Top(c).at, f.n = Top(c).n
  PROVE  /\ ReplaceTop(c, f) \in Seq(Frame) /\ Len(ReplaceTop(c, f)) = Len(stack[c])
         /\ DOMAIN ReplaceTop(c, f) = DOMAIN stack[c]
         /\ \A i \in DOMAIN stack[c] : /\ ReplaceTop(c, f)[i].at = stack[c][i].at
                                       /\ ReplaceTop(c, f)[i].n = stack[c][i].n
         /\ \A i \in DOMAIN stack[c] : i # Len(stack[c]) => ReplaceTop(c, f)[i] = stack[c][i]
         /\ ReplaceTop(c, f)[Len(stack[c])] = f
<1>1. stack[c] \in Seq(Frame) /\ stack[c] # << >> /\ Len(stack[c]) \in Nat \ {0}
      /\ DOMAIN stack[c] = 1 .. Len(stack[c])
  BY TopTyped
<1>2. /\ Append(Front(stack[c]), f) \in Seq(Frame)
      /\ Len(Append(Front(stack[c]), f)) = Len(stack[c])
      /\ DOMAIN Append(Front(stack[c]), f) = 1 .. Len(stack[c])
      /\ \A i \in 1 .. Len(stack[c]) - 1 : Append(Front(stack[c]), f)[i] = stack[c][i]
      /\ Append(Front(stack[c]), f)[Len(stack[c])] = f
  BY <1>1, ReplaceLast
<1>3. \A i \in 1 .. Len(stack[c]) : i # Len(stack[c]) => i \in 1 .. Len(stack[c]) - 1
  BY <1>1
<1> QED
  BY <1>1, <1>2, <1>3 DEF ReplaceTop, Top

\* A handler begins.
LEMMA ReceiveTyped ==
  ASSUME TypeOK, Known, NEW c \in Client, NEW n \in DOMAIN calls, NEW F \in Seq(Frame),
         Len(F) = Len(stack[c]), UNCHANGED calls,
         \A i \in DOMAIN stack[c] : F[i].at = stack[c][i].at /\ F[i].n = stack[c][i].n,
         Receive(c, n, F)
  PROVE  /\ stack' \in [Client -> Seq(Frame)]
         /\ \A d \in Client : \A i \in DOMAIN stack'[d] :
              stack'[d][i].at # "posted" => stack'[d][i].n \in DOMAIN calls'
         /\ senderId' \in [Client -> Client \union {None}]
         /\ transaction' \in [Client -> BOOLEAN]
         /\ currentKey' \in [Client -> Keys]
<1> DEFINE f == [at |-> "handler", n |-> n, oldKey |-> currentKey[c], did |-> "nothing", seen |-> {}]
<1>1. n \in CallNo /\ calls[n] \in CallInfo
  BY CallsTyped
<1>2. f \in Frame /\ f.at = "handler" /\ f.n = n
  BY <1>1 DEF Frame, TypeOK
<1> HIDE DEF f
<1>3. stack' = [stack EXCEPT ![c] = Append(F, f)]
  BY DEF Receive, f
<1>4. /\ stack' \in [Client -> Seq(Frame)]
      /\ \A d \in Client : \A i \in DOMAIN stack'[d] :
           stack'[d][i].at # "posted" => stack'[d][i].n \in DOMAIN calls'
  BY <1>2, <1>3, PushTyped
<1>5. calls[n].caller \in Client /\ calls[n].key \in Keys
  BY <1>1 DEF CallInfo
<1> QED
  BY <1>4, <1>5 DEF Receive, TypeOK

LEMMA WaitingTyped ==
  ASSUME TypeOK, Known, NEW c \in Client, Idle(c) \/ In(c, "call")
  PROVE  /\ Waiting(c) \in Seq(CallNo)
         /\ ReplyWaitFor(c) # 0 => /\ ReplyWaitFor(c) \in CallNo
                                   /\ Tail(Waiting(c)) \in Seq(CallNo)
<1>1. waits[c] \in Seq(CallNo)
  BY DEF TypeOK
<1>2. CASE Idle(c)
  BY <1>1, <1>2 DEF Waiting, ReplyWaitFor
<1>3. CASE ~Idle(c)
  <2>1. Top(c).n \in CallNo
    BY <1>3, TopTyped DEF In
  <2>2. Waiting(c) \in Seq(CallNo) /\ Waiting(c) # << >>
    <3>1. CASE Top(c).n \in ToSet(waits[c])
      <4>1. waits[c] # << >>
        BY <3>1 DEF ToSet
      <4> QED
        BY <1>1, <1>3, <3>1, <4>1 DEF Waiting
    <3>2. CASE Top(c).n \notin ToSet(waits[c])
      BY <1>1, <1>3, <2>1, <3>2, AppendProperties DEF Waiting
    <3> QED
      BY <3>1, <3>2
  <2>3. Len(Waiting(c)) \in Nat \ {0} /\ Waiting(c) \in [1 .. Len(Waiting(c)) -> CallNo]
    BY <2>2, EmptySeq, LenProperties
  <2>4. Waiting(c)[1] \in CallNo
    BY <2>3
  <2>5. Tail(Waiting(c)) \in Seq(CallNo)
    BY <2>2, HeadTailProperties
  <2> QED
    BY <1>3, <2>2, <2>4, <2>5 DEF ReplyWaitFor
<1> QED
  BY <1>2, <1>3

\* A message that calls or sends is appended to the calls, with its frame and to
\* the callee's queue.
LEMMA CallTyped ==
  ASSUME TypeOK, Known, NEW c \in Client, NEW info \in CallInfo, Len(calls) < MaxCalls,
         calls' = Append(calls, info)
  PROVE  /\ calls' \in Seq(CallInfo) /\ Len(calls') <= MaxCalls /\ Len(calls) \in Nat
         /\ DOMAIN calls \subseteq DOMAIN calls'
         /\ Len(calls) + 1 \in DOMAIN calls' /\ Len(calls) + 1 \in CallNo
         /\ calls'[Len(calls) + 1] = info
         /\ \A n \in DOMAIN calls : calls'[n] = calls[n]
BY AppendToSeq, BoundAssumption DEF TypeOK, CallNo

LEMMA CallStepTyped ==
  ASSUME TypeOK, Known, NEW c \in Client, NEW d \in Client, NEW kind \in Kinds, call(c, d, kind)
  PROVE  TypeOK' /\ Known'
<1> DEFINE n == Len(calls) + 1
           key == IF currentKey[c] = None THEN c ELSE currentKey[c]
           info == [caller |-> c, callee |-> d, kind |-> kind, key |-> key]
           f == [at |-> "call", n |-> n, oldKey |-> currentKey[c], did |-> "nothing", seen |-> {}]
<1>1. key \in Keys /\ currentKey[c] \in Keys
  BY DEF TypeOK, Keys
<1>2. info \in CallInfo
  BY <1>1, KindAssumption DEF CallInfo, call
<1>3. Len(calls) < MaxCalls /\ calls' = Append(calls, info)
  BY DEF call, MayCall
<1>4. /\ calls' \in Seq(CallInfo) /\ Len(calls') <= MaxCalls
      /\ DOMAIN calls \subseteq DOMAIN calls' /\ n \in DOMAIN calls' /\ n \in CallNo
  BY <1>2, <1>3, CallTyped
<1>5. f \in Frame /\ f.n = n /\ f.at = "call"
  BY <1>1, <1>4 DEF Frame
<1>6. stack' = [stack EXCEPT ![c] = Append(Calling(c), f)]
  BY DEF call
<1>7. currentKey' \in [Client -> Keys]
  BY <1>1 DEF call, TypeOK
<1>8. Send(c, d, "DCOPCall", n, 0)
  BY DEF call
<1> HIDE DEF n, key, info, f
<1>9. /\ stack' \in [Client -> Seq(Frame)]
      /\ \A e \in Client : \A i \in DOMAIN stack'[e] :
           stack'[e][i].at # "posted" => stack'[e][i].n \in DOMAIN calls'
  <2>1. /\ Calling(c) \in Seq(Frame) /\ Len(Calling(c)) = Len(stack[c])
        /\ \A i \in DOMAIN stack[c] :
             Calling(c)[i].at = stack[c][i].at /\ Calling(c)[i].n = stack[c][i].n
    BY CallingTyped
  <2> QED
    BY <1>4, <1>5, <1>6, <2>1, PushTyped
<1>10. /\ toClient' \in [Client -> Seq(Message)]
       /\ \A e \in Client : \A i \in DOMAIN toClient'[e] :
            toClient'[e][i].n = n
            \/ (i \in DOMAIN toClient[e] /\ toClient'[e][i].n = toClient[e][i].n)
  BY <1>4, <1>8, SendTyped DEF Opcode
<1>11. transactionId' \in [Client -> Nat]
  BY DEF call, TypeOK
<1>12. TypeOK'
  BY <1>4, <1>7, <1>9, <1>10, <1>11 DEF call, TypeOK, posted, deaths
<1>13. Known'
  <2>1. messages' = messages /\ transactionList' = transactionList
    BY DEF call, posted
  <2> SUFFICES ASSUME NEW e \in Client
               PROVE  /\ \A i \in DOMAIN toClient'[e] : toClient'[e][i].n \in DOMAIN calls'
                      /\ \A i \in DOMAIN messages[e] : messages[e][i] \in DOMAIN calls'
                      /\ \A t \in transactionList[e] : t.n \in DOMAIN calls'
    BY <1>9, <2>1 DEF Known
  <2>2. /\ \A i \in DOMAIN toClient[e] : toClient[e][i].n \in DOMAIN calls
        /\ \A i \in DOMAIN messages[e] : messages[e][i] \in DOMAIN calls
        /\ \A t \in transactionList[e] : t.n \in DOMAIN calls
    BY DEF Known
  <2> QED
    BY <1>4, <1>10, <2>2
<1> QED
  BY <1>12, <1>13

LEMMA SendStepTyped ==
  ASSUME TypeOK, Known, NEW c \in Client, NEW d \in Client, send(c, d)
  PROVE  TypeOK' /\ Known'
<1> DEFINE n == Len(calls) + 1
           info == [caller |-> c, callee |-> d, kind |-> "send", key |-> "send"]
<1>1. info \in CallInfo
  BY DEF CallInfo, Keys
<1>2. Len(calls) < MaxCalls /\ calls' = Append(calls, info)
  BY DEF send, MayCall
<1>3. /\ calls' \in Seq(CallInfo) /\ Len(calls') <= MaxCalls
      /\ DOMAIN calls \subseteq DOMAIN calls' /\ n \in DOMAIN calls' /\ n \in CallNo
  BY <1>1, <1>2, CallTyped
<1>4. Send(c, d, "DCOPSend", n, 0)
  BY DEF send
<1>5. stack' = [stack EXCEPT ![c] = Calling(c)]
  BY DEF send
<1> HIDE DEF n, info
<1>6. /\ stack' \in [Client -> Seq(Frame)]
      /\ \A e \in Client : \A i \in DOMAIN stack'[e] :
           stack'[e][i].at # "posted" => stack'[e][i].n \in DOMAIN calls'
  <2>1. /\ stack \in [Client -> Seq(Frame)] /\ stack' \in [Client -> Seq(Frame)]
        /\ stack'[c] = Calling(c) /\ \A e \in Client \ {c} : stack'[e] = stack[e]
    BY <1>5, CallingTyped DEF TypeOK
  <2>2. ASSUME NEW e \in Client, NEW i \in DOMAIN stack'[e], stack'[e][i].at # "posted"
        PROVE  stack'[e][i].n \in DOMAIN calls'
    <3>1. i \in DOMAIN stack[e] /\ stack[e][i].at = stack'[e][i].at
          /\ stack[e][i].n = stack'[e][i].n
      <4>1. CASE e # c
        BY <2>1, <4>1
      <4>2. CASE e = c
        <5>1. /\ DOMAIN Calling(c) = DOMAIN stack[c]
              /\ \A j \in DOMAIN stack[c] :
                   Calling(c)[j].at = stack[c][j].at /\ Calling(c)[j].n = stack[c][j].n
          BY CallingTyped
        <5> QED
          BY <2>1, <4>2, <5>1
      <4> QED
        BY <4>1, <4>2
    <3> QED
      BY <3>1, <2>2, <1>3 DEF Known
  <2> QED
    BY <2>1, <2>2
<1>7. /\ toClient' \in [Client -> Seq(Message)]
      /\ \A e \in Client : \A i \in DOMAIN toClient'[e] :
           toClient'[e][i].n = n
           \/ (i \in DOMAIN toClient[e] /\ toClient'[e][i].n = toClient[e][i].n)
  BY <1>3, <1>4, SendTyped DEF Opcode
<1>8. TypeOK'
  BY <1>3, <1>6, <1>7 DEF send, TypeOK, posted, current, deaths
<1>9. Known'
  <2>1. messages' = messages /\ transactionList' = transactionList
    BY DEF send, posted
  <2> SUFFICES ASSUME NEW e \in Client
               PROVE  /\ \A i \in DOMAIN toClient'[e] : toClient'[e][i].n \in DOMAIN calls'
                      /\ \A i \in DOMAIN messages[e] : messages[e][i] \in DOMAIN calls'
                      /\ \A t \in transactionList[e] : t.n \in DOMAIN calls'
    BY <1>6, <2>1 DEF Known
  <2>2. /\ \A i \in DOMAIN toClient[e] : toClient[e][i].n \in DOMAIN calls
        /\ \A i \in DOMAIN messages[e] : messages[e][i] \in DOMAIN calls
        /\ \A t \in transactionList[e] : t.n \in DOMAIN calls
    BY DEF Known
  <2> QED
    BY <1>3, <1>7, <2>2
<1> QED
  BY <1>8, <1>9

\* A call returns or times out.
LEMMA ReturnTyped ==
  ASSUME TypeOK, Known, NEW c \in Client, Return(c) \/ TimeOut(c)
  PROVE  TypeOK' /\ Known'
<1>1. ~Idle(c) /\ In(c, "call") /\ stack' = Pop(c)
      /\ currentKey' = [currentKey EXCEPT ![c] = Top(c).oldKey]
      /\ UNCHANGED <<calls, toClient, current, posted, pendingReplies, waits, transactionList,
                     deaths>>
  BY DEF Return, TimeOut, In, Idle, asked
<1>2. rs' \in [CallNo -> ReplyStruct]
  <2>1. CASE Return(c)
    BY <2>1 DEF Return, asked, TypeOK
  <2>2. CASE TimeOut(c)
    <3>1. Top(c).n \in CallNo
      BY <1>1, TopTyped DEF In
    <3>2. [rs[Top(c).n] EXCEPT !.failed = TRUE] \in ReplyStruct
      <4>1. rs[Top(c).n] \in ReplyStruct
        BY <3>1 DEF TypeOK
      <4> QED
        BY <4>1 DEF ReplyStruct
    <3>3. rs' = [rs EXCEPT ![Top(c).n] = [rs[Top(c).n] EXCEPT !.failed = TRUE]]
      BY <2>2 DEF TimeOut
    <3> QED
      BY <3>2, <3>3 DEF TypeOK
  <2> QED
    BY <2>1, <2>2
<1>3. Top(c).oldKey \in Keys
  BY <1>1, TopTyped
<1>4. TypeOK'
  BY <1>1, <1>2, <1>3, PopTyped DEF TypeOK, current, posted, deaths
<1>5. Known'
  BY <1>1, PopTyped DEF Known, posted
<1> QED
  BY <1>4, <1>5

LEMMA AnswerTyped ==
  ASSUME TypeOK, NEW n \in CallNo, NEW m \in Message
  PROVE  Answered(n, m) \in [CallNo -> ReplyStruct]
<1>1. [rs[n] EXCEPT !.tid = 0, !.of = m.n] \in ReplyStruct
  <2>1. rs[n] \in ReplyStruct /\ m.n \in CallNo /\ 0 \in Int
    BY DEF TypeOK, Message
  <2> QED
    BY <2>1 DEF ReplyStruct
<1>2. Answered(n, m) = [rs EXCEPT ![n] = [rs[n] EXCEPT !.tid = 0, !.of = m.n]]
  BY DEF Answered
<1> QED
  BY <1>1, <1>2 DEF TypeOK

LEMMA AnswerPendingTyped ==
  ASSUME TypeOK, NEW c \in Client, NEW m \in Message, AnswerPending(c, m)
  PROVE  rs' \in [CallNo -> ReplyStruct] /\ pendingReplies' \in [Client -> Seq(CallNo)]
<1>1. pendingReplies[c] \in Seq(CallNo) /\ Len(pendingReplies[c]) \in Nat
      /\ DOMAIN pendingReplies[c] = 1 .. Len(pendingReplies[c])
      /\ pendingReplies[c] \in [1 .. Len(pendingReplies[c]) -> CallNo]
  BY LenProperties DEF TypeOK
<1>2. CASE PendingFor(c, m) = {}
  BY <1>2 DEF AnswerPending, TypeOK
<1>3. CASE PendingFor(c, m) # {}
  <2> DEFINE i == First(PendingFor(c, m))
  <2>1. PendingFor(c, m) \subseteq 1 .. Len(pendingReplies[c])
    BY <1>1 DEF PendingFor
  <2>2. i \in DOMAIN pendingReplies[c]
    BY <1>1, <1>3, <2>1, FirstIsThere
  <2>3. rs' = Answered(pendingReplies[c][i], m)
        /\ pendingReplies' = [pendingReplies EXCEPT ![c] = RemoveAt(pendingReplies[c], i)]
    BY <1>3 DEF AnswerPending
  <2> HIDE DEF i
  <2>4. pendingReplies[c][i] \in CallNo /\ RemoveAt(pendingReplies[c], i) \in Seq(CallNo)
    BY <1>1, <2>2, RemoveAtKeeps
  <2> QED
    BY <2>3, <2>4, AnswerTyped DEF TypeOK
<1> QED
  BY <1>2, <1>3

LEMMA ReadAnswerTyped ==
  ASSUME TypeOK, Known, NEW c \in Client, NEW m \in Message, MayRead(c),
         NEW n, n = ReplyWaitFor(c),
         Reply(c, m, n) \/ ReplyWait(c, m, n) \/ ReplyDelayed(c, m, n)
  PROVE  /\ rs' \in [CallNo -> ReplyStruct] /\ pendingReplies' \in [Client -> Seq(CallNo)]
         /\ waits' \in [Client -> Seq(CallNo)]
<1>1. /\ Waiting(c) \in Seq(CallNo)
      /\ n # 0 => n \in CallNo /\ Tail(Waiting(c)) \in Seq(CallNo)
  BY WaitingTyped DEF MayRead
<1>2. rs \in [CallNo -> ReplyStruct] /\ pendingReplies \in [Client -> Seq(CallNo)]
      /\ waits \in [Client -> Seq(CallNo)]
  BY DEF TypeOK
<1>3. CASE Reply(c, m, n)
  <2>1. CASE n = 0
    BY <1>1, <1>2, <1>3, <2>1 DEF Reply
  <2>2. CASE n # 0
    <3>1. rs' = Answered(n, m) /\ waits' = [waits EXCEPT ![c] = Tail(Waiting(c))]
          /\ pendingReplies' = pendingReplies
      BY <1>3, <2>2 DEF Reply
    <3>2. Answered(n, m) \in [CallNo -> ReplyStruct]
      BY <1>1, <2>2, AnswerTyped
    <3> QED
      BY <1>1, <1>2, <2>2, <3>1, <3>2
  <2> QED
    BY <2>1, <2>2
<1>4. CASE ReplyWait(c, m, n)
  <2>1. CASE n = 0
    BY <1>1, <1>2, <1>4, <2>1 DEF ReplyWait
  <2>2. CASE n # 0
    <3>1. n \in CallNo /\ m.tid \in Nat /\ m.from \in Client /\ rs[n] \in ReplyStruct
      BY <1>1, <1>2, <2>2 DEF Message
    <3>2. [rs[n] EXCEPT !.tid = m.tid, !.calledApp = m.from] \in ReplyStruct
      <4>1. m.tid \in Int
        BY <3>1
      <4> QED
        BY <3>1, <4>1 DEF ReplyStruct
    <3>3. rs' = [rs EXCEPT ![n] = [rs[n] EXCEPT !.tid = m.tid, !.calledApp = m.from]]
      BY <1>4, <2>2 DEF ReplyWait
    <3>4. rs' \in [CallNo -> ReplyStruct]
      BY <1>2, <3>2, <3>3
    <3>5. Append(pendingReplies[c], n) \in Seq(CallNo)
      BY <1>2, <3>1, AppendProperties
    <3> QED
      BY <1>1, <1>2, <1>4, <2>2, <3>4, <3>5 DEF ReplyWait
  <2> QED
    BY <2>1, <2>2
<1>5. CASE ReplyDelayed(c, m, n)
  BY <1>1, <1>2, <1>5, AnswerPendingTyped DEF ReplyDelayed
<1> QED
  BY <1>3, <1>4, <1>5

LEMMA ReadTyped ==
  ASSUME TypeOK, Known, NEW c \in Client, Read(c)
  PROVE  TypeOK' /\ Known'
<1> DEFINE m == Head(toClient[c])
<1>1. toClient[c] \in Seq(Message) /\ toClient[c] # << >> /\ MayRead(c)
  BY DEF Read, MayRead, TypeOK
<1>2. /\ m \in Message /\ Tail(toClient[c]) \in Seq(Message)
      /\ Len(Tail(toClient[c])) = Len(toClient[c]) - 1
      /\ \A i \in 1 .. Len(Tail(toClient[c])) : Tail(toClient[c])[i] = toClient[c][i + 1]
      /\ Len(toClient[c]) \in Nat \ {0} /\ DOMAIN toClient[c] = 1 .. Len(toClient[c])
      /\ DOMAIN Tail(toClient[c]) = 1 .. Len(Tail(toClient[c])) /\ m = toClient[c][1]
  BY <1>1, HeadTailProperties, LenProperties, EmptySeq
<1>3. m.n \in DOMAIN calls
  BY <1>2 DEF Known
<1>4. toClient' = [toClient EXCEPT ![c] = Tail(toClient[c])]
      /\ opcode' = [opcode EXCEPT ![c] = m.op]
      /\ UNCHANGED <<calls, transactionId, transactionList, deaths>>
  BY DEF Read
<1>5. toClient' \in [Client -> Seq(Message)]
      /\ \A e \in Client : \A i \in DOMAIN toClient'[e] : toClient'[e][i].n \in DOMAIN calls
  <2>1. toClient' \in [Client -> Seq(Message)] /\ toClient'[c] = Tail(toClient[c])
        /\ \A e \in Client \ {c} : toClient'[e] = toClient[e]
    BY <1>2, <1>4 DEF TypeOK
  <2>2. ASSUME NEW i \in DOMAIN Tail(toClient[c])
        PROVE  Tail(toClient[c])[i].n \in DOMAIN calls
    BY <1>2 DEF Known
  <2> QED
    BY <2>1, <2>2 DEF Known
<1>6. m.op \in Opcode
  BY <1>2 DEF Message
<1> HIDE DEF m
<1>7. CASE /\ \E n \in {ReplyWaitFor(c)} :
                Reply(c, m, n) \/ ReplyWait(c, m, n) \/ ReplyDelayed(c, m, n)
           /\ UNCHANGED <<senderId, transaction, stack, currentKey, posted>>
  <2>1. /\ rs' \in [CallNo -> ReplyStruct] /\ pendingReplies' \in [Client -> Seq(CallNo)]
        /\ waits' \in [Client -> Seq(CallNo)]
    BY <1>1, <1>2, <1>7, ReadAnswerTyped
  <2> QED
    BY <1>4, <1>5, <1>6, <1>7, <2>1 DEF TypeOK, Known, posted, deaths
<1>8. CASE /\ m.op \in {"DCOPCall", "DCOPSend"} /\ ReceiveOrPost(c, m.n)
           /\ waits' = [waits EXCEPT ![c] = Waiting(c)]
           /\ UNCHANGED <<rs, pendingReplies>>
  <2>1. waits' \in [Client -> Seq(CallNo)]
    BY <1>1, <1>8, WaitingTyped DEF MayRead, TypeOK
  <2>2. CASE currentKey[c] # None /\ calls[m.n].key # currentKey[c]
    <3>1. /\ senderId' = [senderId EXCEPT ![c] = calls[m.n].caller]
          /\ messages' = [messages EXCEPT ![c] = Append(messages[c], m.n)]
          /\ postMessageTimer' = [postMessageTimer EXCEPT ![c] = TRUE]
          /\ UNCHANGED <<transaction, stack, currentKey>>
      BY <1>8, <2>2 DEF ReceiveOrPost
    <3>2. m.n \in CallNo /\ calls[m.n].caller \in Client
      BY <1>3, CallsTyped DEF CallInfo
    <3>3. messages[c] \in Seq(CallNo)
      BY DEF TypeOK
    <3>4. /\ Append(messages[c], m.n) \in Seq(CallNo) /\ Len(messages[c]) \in Nat
          /\ DOMAIN Append(messages[c], m.n) = 1 .. Len(messages[c]) + 1
          /\ DOMAIN messages[c] = 1 .. Len(messages[c])
          /\ \A i \in 1 .. Len(messages[c]) : Append(messages[c], m.n)[i] = messages[c][i]
          /\ Append(messages[c], m.n)[Len(messages[c]) + 1] = m.n
      BY <3>2, <3>3, AppendToSeq
    <3>5. \A i \in DOMAIN Append(messages[c], m.n) : Append(messages[c], m.n)[i] \in DOMAIN calls
      <4>1. \A i \in 1 .. Len(messages[c]) : messages[c][i] \in DOMAIN calls
        BY <3>4 DEF Known
      <4>2. \A i \in 1 .. Len(messages[c]) + 1 :
              i \in 1 .. Len(messages[c]) \/ i = Len(messages[c]) + 1
        BY <3>4
      <4> QED
        BY <1>3, <3>4, <4>1, <4>2
    <3>6. messages' \in [Client -> Seq(CallNo)]
          /\ \A e \in Client : \A i \in DOMAIN messages'[e] : messages'[e][i] \in DOMAIN calls
      BY <3>1, <3>4, <3>5 DEF TypeOK, Known
    <3> QED
      BY <1>4, <1>5, <1>6, <1>8, <2>1, <3>1, <3>2, <3>6 DEF TypeOK, Known, deaths
  <2>3. CASE ~(currentKey[c] # None /\ calls[m.n].key # currentKey[c])
    <3>1. Receive(c, m.n, stack[c]) /\ UNCHANGED posted
      BY <1>8, <2>3 DEF ReceiveOrPost
    <3>2. /\ stack' \in [Client -> Seq(Frame)]
          /\ \A d \in Client : \A i \in DOMAIN stack'[d] :
               stack'[d][i].at # "posted" => stack'[d][i].n \in DOMAIN calls'
          /\ senderId' \in [Client -> Client \union {None}]
          /\ transaction' \in [Client -> BOOLEAN] /\ currentKey' \in [Client -> Keys]
      <4>1. stack[c] \in Seq(Frame)
        BY DEF TypeOK
      <4> QED
        BY <1>3, <1>4, <3>1, <4>1, ReceiveTyped
    <3> QED
      BY <1>4, <1>5, <1>6, <1>8, <2>1, <3>1, <3>2 DEF TypeOK, Known, posted, deaths
  <2> QED
    BY <2>2, <2>3
<1> QED
  BY <1>7, <1>8 DEF Read, m

LEMMA processPostedMessagesTyped ==
  ASSUME TypeOK, Known, NEW c \in Client, processPostedMessages(c)
  PROVE  TypeOK' /\ Known'
<1> DEFINE f == [at |-> "posted", n |-> 0, oldKey |-> None, did |-> "nothing", seen |-> {}]
<1>1. f \in Frame /\ f.at = "posted"
  BY DEF Frame, Keys
<1>2. stack' = stack \/ stack' = [stack EXCEPT ![c] = Append(stack[c], f)]
  BY DEF processPostedMessages, Push
<1>3. UNCHANGED <<asked, toClient, currentKey, current, messages, pendingReplies, waits,
                  transactionList, deaths>>
      /\ postMessageTimer' = [postMessageTimer EXCEPT ![c] = FALSE]
  BY DEF processPostedMessages
<1> HIDE DEF f
<1>4. /\ stack' \in [Client -> Seq(Frame)]
      /\ \A d \in Client : \A i \in DOMAIN stack'[d] :
           stack'[d][i].at # "posted" => stack'[d][i].n \in DOMAIN calls'
  <2>1. calls' = calls /\ stack[c] \in Seq(Frame)
    BY <1>3 DEF asked, TypeOK
  <2>2. CASE stack' = stack
    BY <2>1, <2>2 DEF TypeOK, Known
  <2>3. CASE stack' = [stack EXCEPT ![c] = Append(stack[c], f)]
    BY <1>1, <2>1, <2>3, PushTyped
  <2> QED
    BY <1>2, <2>2, <2>3
<1> QED
  BY <1>3, <1>4 DEF TypeOK, Known, asked, current, deaths

LEMMA ProcessPostedTyped ==
  ASSUME TypeOK, Known, NEW c \in Client, ProcessPosted(c)
  PROVE  TypeOK' /\ Known'
<1> DEFINE fits == {i \in DOMAIN messages[c] : /\ messages[c][i] \notin Top(c).seen
                                               /\ currentKey[c] \in {None, calls[messages[c][i]].key}}
           k == First(fits)
           n == messages[c][k]
           f == [Top(c) EXCEPT !.seen = @ \union {messages[c][j] : j \in 1 .. k - 1}]
<1>1. ~Idle(c) /\ Top(c) \in Frame
      /\ UNCHANGED <<asked, toClient, transactionId, pendingReplies, waits, transactionList,
                     deaths>>
  <2>1. ~Idle(c)
    BY DEF ProcessPosted, In, Idle
  <2>2. UNCHANGED <<asked, toClient, transactionId, pendingReplies, waits, transactionList,
                    deaths>>
    BY DEF ProcessPosted
  <2> QED
    BY <2>1, <2>2, TopTyped
<1>2. messages[c] \in Seq(CallNo) /\ Len(messages[c]) \in Nat
      /\ DOMAIN messages[c] = 1 .. Len(messages[c])
      /\ messages[c] \in [1 .. Len(messages[c]) -> CallNo]
  BY LenProperties DEF TypeOK
<1>3. CASE fits = {}
  <2>1. stack' = Pop(c)
        /\ postMessageTimer' = [postMessageTimer EXCEPT ![c] = TimerAfter(c)]
        /\ UNCHANGED <<currentKey, opcode, senderId, transaction, messages>>
    BY <1>3 DEF ProcessPosted
  <2>2. TimerAfter(c) \in BOOLEAN
    BY DEF TimerAfter, TypeOK
  <2>3. TypeOK'
    BY <1>1, <2>1, <2>2, PopTyped DEF TypeOK, deaths, asked
  <2>4. Known'
    BY <1>1, <2>1, PopTyped DEF Known, asked
  <2> QED
    BY <2>3, <2>4
<1>4. CASE fits # {}
  <2>1. k \in DOMAIN messages[c]
    <3>1. fits \subseteq 1 .. Len(messages[c])
      BY <1>2
    <3>2. k \in fits
      BY <1>2, <1>4, <3>1, FirstIsThere
    <3> QED
      BY <3>2
  <2>2. n \in DOMAIN calls /\ n \in CallNo
    <3> HIDE DEF k
    <3> QED
      BY <2>1, <1>2 DEF Known
  <2>3. /\ messages' = [messages EXCEPT ![c] = RemoveAt(messages[c], k)]
        /\ opcode' = [opcode EXCEPT ![c] = IF calls[n].kind = "send" THEN "DCOPSend" ELSE "DCOPCall"]
        /\ Receive(c, n, ReplaceTop(c, f)) /\ UNCHANGED postMessageTimer
    BY <1>4 DEF ProcessPosted
  <2>4. f \in Frame /\ f.at = Top(c).at /\ f.n = Top(c).n
    <3> HIDE DEF k, n, fits
    <3>1. {messages[c][j] : j \in 1 .. k - 1} \subseteq CallNo
      <4>1. k \in 1 .. Len(messages[c])
        BY <1>2, <2>1
      <4> QED
        BY <1>2, <4>1, ElementsBefore, Zenon
    <3> QED
      BY <1>1, <3>1 DEF Frame
  <2> HIDE DEF k, n, f, fits
  <2>5. /\ ReplaceTop(c, f) \in Seq(Frame) /\ Len(ReplaceTop(c, f)) = Len(stack[c])
        /\ \A i \in DOMAIN stack[c] : /\ ReplaceTop(c, f)[i].at = stack[c][i].at
                                      /\ ReplaceTop(c, f)[i].n = stack[c][i].n
    BY <1>1, <2>4, ReplaceTopTyped
  <2>6. /\ stack' \in [Client -> Seq(Frame)]
        /\ \A d \in Client : \A i \in DOMAIN stack'[d] :
             stack'[d][i].at # "posted" => stack'[d][i].n \in DOMAIN calls'
        /\ senderId' \in [Client -> Client \union {None}]
        /\ transaction' \in [Client -> BOOLEAN] /\ currentKey' \in [Client -> Keys]
    BY <1>1, <2>2, <2>3, <2>5, ReceiveTyped DEF asked
  <2>7. /\ RemoveAt(messages[c], k) \in Seq(CallNo)
        /\ \A j \in DOMAIN RemoveAt(messages[c], k) :
             RemoveAt(messages[c], k)[j] \in DOMAIN calls
    <3>1. /\ RemoveAt(messages[c], k) \in Seq(CallNo)
          /\ \A j \in DOMAIN RemoveAt(messages[c], k) :
               \E l \in DOMAIN messages[c] : RemoveAt(messages[c], k)[j] = messages[c][l]
      BY <1>2, <2>1, RemoveAtKeeps
    <3> QED
      BY <3>1 DEF Known
  <2>8. messages' \in [Client -> Seq(CallNo)]
        /\ \A e \in Client : \A i \in DOMAIN messages'[e] : messages'[e][i] \in DOMAIN calls
    BY <2>3, <2>7 DEF TypeOK, Known
  <2>9. opcode' \in [Client -> Opcode]
    BY <2>3 DEF TypeOK, Opcode
  <2>10. TypeOK'
    BY <1>1, <2>3, <2>6, <2>8, <2>9 DEF TypeOK, deaths, asked
  <2>11. Known'
    BY <1>1, <2>6, <2>8 DEF Known, asked
  <2> QED
    BY <2>10, <2>11
<1> QED
  BY <1>3, <1>4

LEMMA beginTransactionTyped ==
  ASSUME TypeOK, Known, NEW c \in Client, beginTransaction(c)
  PROVE  TypeOK' /\ Known'
<1> DEFINE f == [Top(c) EXCEPT !.did = "delayed"]
           id == transactionId[c] + 1
           t == [id |-> id, senderId |-> senderId[c], n |-> Top(c).n]
<1>1. ~Idle(c) /\ Top(c).at = "handler"
  BY DEF beginTransaction, In, Idle
<1>2. /\ Top(c) \in Frame /\ Top(c).n \in DOMAIN calls /\ Top(c).n \in CallNo
      /\ f \in Frame /\ f.at = Top(c).at /\ f.n = Top(c).n
  <2>1. Top(c) \in Frame /\ Top(c).n \in DOMAIN calls /\ Top(c).n \in CallNo
    BY <1>1, TopTyped
  <2> QED
    BY <2>1 DEF Frame
<1>3. id \in Nat /\ t \in Transaction
  <2>1. transactionId[c] \in Nat /\ senderId[c] \in Client \union {None}
    BY DEF TypeOK
  <2> QED
    BY <1>2, <2>1 DEF Transaction
<1>4. transactionId' = [transactionId EXCEPT ![c] = id] /\ transactionId'[c] = id
  BY DEF beginTransaction, TypeOK
<1>5. transactionList' = [transactionList EXCEPT ![c] = transactionList[c] \union {t}]
  BY <1>4 DEF beginTransaction
<1>6. /\ transaction' = [transaction EXCEPT ![c] = TRUE]
      /\ stack' = [stack EXCEPT ![c] = ReplaceTop(c, f)]
      /\ UNCHANGED <<asked, toClient, currentKey, opcode, senderId, posted, pendingReplies, waits,
                     deaths>>
  BY DEF beginTransaction
<1>7. t.n = Top(c).n
  OBVIOUS
<1> HIDE DEF f, id, t
<1>8. /\ ReplaceTop(c, f) \in Seq(Frame)
      /\ DOMAIN ReplaceTop(c, f) = DOMAIN stack[c]
      /\ \A i \in DOMAIN stack[c] : /\ ReplaceTop(c, f)[i].at = stack[c][i].at
                                    /\ ReplaceTop(c, f)[i].n = stack[c][i].n
  BY <1>1, <1>2, ReplaceTopTyped
<1>9. stack' \in [Client -> Seq(Frame)] /\ stack'[c] = ReplaceTop(c, f)
      /\ \A d \in Client \ {c} : stack'[d] = stack[d]
  BY <1>6, <1>8 DEF TypeOK
<1>10. transactionList' \in [Client -> SUBSET Transaction]
       /\ \A d \in Client : \A u \in transactionList'[d] : u.n \in DOMAIN calls
  BY <1>2, <1>3, <1>5, <1>7 DEF TypeOK, Known
<1>11. TypeOK'
  BY <1>3, <1>4, <1>6, <1>9, <1>10 DEF TypeOK, asked, posted, deaths
<1>12. Known'
  BY <1>6, <1>8, <1>9, <1>10 DEF Known, asked, posted
<1> QED
  BY <1>11, <1>12

LEMMA HandlerReturnsTyped ==
  ASSUME TypeOK, Known, NEW c \in Client, HandlerReturns(c)
  PROVE  TypeOK' /\ Known'
<1> DEFINE n == Top(c).n
           id == IF transaction[c] THEN transactionId[c] ELSE 0
<1>1. ~Idle(c) /\ Top(c).at = "handler" /\ stack' = Pop(c)
      /\ UNCHANGED <<asked, current, posted, pendingReplies, waits, transactionList, deaths>>
  BY DEF HandlerReturns, In, Idle
<1>2. Top(c) \in Frame /\ n \in DOMAIN calls /\ n \in CallNo /\ Top(c).oldKey \in Keys
  BY <1>1, TopTyped
<1>3. id \in Nat
  BY DEF TypeOK
<1>4. \/ UNCHANGED <<currentKey, toClient>>
      \/ /\ currentKey' = [currentKey EXCEPT ![c] = Top(c).oldKey]
         /\ \/ Send(c, calls[n].caller, "DCOPReply", n, 0)
            \/ Send(c, calls[n].caller, "DCOPReplyWait", n, id)
  BY DEF HandlerReturns
<1> HIDE DEF n, id
<1>5. /\ toClient' \in [Client -> Seq(Message)]
      /\ \A e \in Client : \A i \in DOMAIN toClient'[e] : toClient'[e][i].n \in DOMAIN calls
  <2>1. CASE UNCHANGED toClient
    BY <2>1 DEF TypeOK, Known
  <2>2. CASE Send(c, calls[n].caller, "DCOPReply", n, 0)
    <3>1. /\ toClient' \in [Client -> Seq(Message)]
          /\ \A e \in Client : \A i \in DOMAIN toClient'[e] :
               toClient'[e][i].n = n
               \/ (i \in DOMAIN toClient[e] /\ toClient'[e][i].n = toClient[e][i].n)
      BY <1>2, <2>2, SendTyped DEF Opcode
    <3> QED
      BY <1>2, <3>1 DEF Known
  <2>3. CASE Send(c, calls[n].caller, "DCOPReplyWait", n, id)
    <3>1. /\ toClient' \in [Client -> Seq(Message)]
          /\ \A e \in Client : \A i \in DOMAIN toClient'[e] :
               toClient'[e][i].n = n
               \/ (i \in DOMAIN toClient[e] /\ toClient'[e][i].n = toClient[e][i].n)
      BY <1>2, <1>3, <2>3, SendTyped DEF Opcode
    <3> QED
      BY <1>2, <3>1 DEF Known
  <2> QED
    BY <1>4, <2>1, <2>2, <2>3
<1>6. currentKey' \in [Client -> Keys]
  BY <1>2, <1>4 DEF TypeOK
<1>7. TypeOK'
  BY <1>1, <1>5, <1>6, PopTyped DEF TypeOK, asked, current, posted, deaths
<1>8. Known'
  BY <1>1, <1>5, PopTyped DEF Known, asked, posted
<1> QED
  BY <1>7, <1>8

LEMMA endTransactionTyped ==
  ASSUME TypeOK, Known, NEW c \in Client, NEW t \in transactionList[c], endTransaction(c, t)
  PROVE  TypeOK' /\ Known'
<1>1. t \in Transaction /\ t.n \in DOMAIN calls /\ t.n \in CallNo /\ t.id \in Nat
  <2>1. t \in Transaction /\ t.n \in DOMAIN calls
    BY DEF TypeOK, Known
  <2> QED
    BY <2>1 DEF Transaction
<1>2. /\ transactionList' = [transactionList EXCEPT ![c] = transactionList[c] \ {t}]
      /\ Send(c, t.senderId, "DCOPReplyDelayed", t.n, t.id)
      /\ UNCHANGED <<asked, stack, currentKey, current, posted, pendingReplies, waits, deaths>>
  BY DEF endTransaction
<1>3. /\ toClient' \in [Client -> Seq(Message)]
      /\ \A e \in Client : \A i \in DOMAIN toClient'[e] :
           toClient'[e][i].n = t.n
           \/ (i \in DOMAIN toClient[e] /\ toClient'[e][i].n = toClient[e][i].n)
  BY <1>1, <1>2, SendTyped DEF Opcode
<1>4. TypeOK'
  BY <1>2, <1>3 DEF TypeOK, asked, current, posted, deaths
<1>5. Known'
  BY <1>1, <1>2, <1>3 DEF Known, TypeOK, asked, posted
<1> QED
  BY <1>4, <1>5

\* A set of numbers as a sequence: each of them is in it, once.
LEMMA SeqOfSet ==
  ASSUME NEW S, IsFiniteSet(S), NEW q, q = SetToSeq(S)
  PROVE  /\ q \in Seq(S) /\ Len(q) \in Nat /\ DOMAIN q = 1 .. Len(q)
         /\ \A i, j \in DOMAIN q : q[i] = q[j] => i = j
         /\ ToSet(q) = S
<1> DEFINE N == Cardinality(S)
<1>1. N \in Nat /\ Bijection(1 .. N, S) # {}
  BY FS_CardinalityType DEF ExistsBijection
<1>2. IsFiniteSet(1 .. N) /\ Cardinality(1 .. N) = N
  BY <1>1, FS_Interval
<1> HIDE DEF N
<1>3. \E f \in [1 .. N -> S] : IsInjective(f)
  BY <1>1 DEF Bijection, Injection
<1>4. q \in [1 .. N -> S] /\ IsInjective(q)
  BY <1>3, Zenon DEF SetToSeq, N
<1>5. q \in Surjection(1 .. N, S)
  <2>1. q \in Injection(1 .. N, S)
    BY <1>4 DEF Injection
  <2>2. Cardinality(1 .. N) = Cardinality(S)
    BY <1>2 DEF N
  <2> QED
    BY <2>1, <2>2, FS_Injection
<1>6. q \in Seq(S) /\ Len(q) = N
  BY <1>1, <1>4, IsASeq, LenProperties
<1> QED
  BY <1>1, <1>4, <1>5, <1>6 DEF IsInjective, Surjection, ToSet

LEMMA FailureIs ==
  ASSUME NEW c \in Client, NEW n \in CallNo, NEW k \in {0, 1}
  PROVE  /\ Failure(c, n, k) \in Message
         /\ Failure(c, n, k).n = n /\ Failure(c, n, k).op = "DCOPReplyFailed"
         /\ Failure(c, n, k).from = c /\ Failure(c, n, k).tid = k
BY DEF Failure, Message, Opcode

FailuresOf(c, S, k) == {Failure(c, n, k) : n \in S}

LEMMA FailuresFinite ==
  ASSUME NEW c \in Client, NEW S, S \subseteq CallNo, NEW k \in {0, 1}
  PROVE  IsFiniteSet(FailuresOf(c, S, k)) /\ FailuresOf(c, S, k) \subseteq Message
<1> DEFINE f == [n \in S |-> Failure(c, n, k)]
<1>1. IsFiniteSet(S)
  <2>1. MaxCalls \in Int /\ 1 \in Int
    BY BoundAssumption
  <2> QED
    BY <2>1, FS_Interval, FS_Subset DEF CallNo
<1>2. f \in Surjection(S, FailuresOf(c, S, k))
  BY DEF FailuresOf, Surjection
<1>3. IsFiniteSet(FailuresOf(c, S, k))
  BY <1>1, <1>2, FS_Surjection
<1>4. FailuresOf(c, S, k) \subseteq Message
  BY FailureIs DEF FailuresOf
<1> QED
  BY <1>3, <1>4

\* The calls of e that c leaves unanswered, and those whose answer it had promised.
Unanswered(c, e) == {n \in waitingForReply(c) : calls[n].caller = e}
Unkept(c, e) == {n \in waitingForDelayedReply(c) : calls[n].caller = e}

\* Sequences one after the other.
LEMMA OneAfterOther ==
  ASSUME NEW S, NEW s \in Seq(S), NEW t \in Seq(S)
  PROVE  /\ s \o t \in Seq(S)
         /\ ToSet(s \o t) = ToSet(s) \union ToSet(t)
<1> DEFINE a == s \o t
<1>1. /\ a \in Seq(S) /\ Len(a) = Len(s) + Len(t)
      /\ \A i \in 1 .. Len(s) + Len(t) : a[i] = IF i <= Len(s) THEN s[i] ELSE t[i - Len(s)]
  BY ConcatProperties
<1>2. /\ Len(s) \in Nat /\ Len(t) \in Nat /\ DOMAIN s = 1 .. Len(s) /\ DOMAIN t = 1 .. Len(t)
      /\ DOMAIN a = 1 .. Len(s) + Len(t)
  BY <1>1, LenProperties
<1> HIDE DEF a
<1>3. ASSUME NEW i \in DOMAIN a
      PROVE  (i \in DOMAIN s /\ a[i] = s[i]) \/ (i - Len(s) \in DOMAIN t /\ a[i] = t[i - Len(s)])
  BY <1>1, <1>2
<1>4. ASSUME NEW i \in DOMAIN s PROVE i \in DOMAIN a /\ a[i] = s[i]
  BY <1>1, <1>2
<1>5. ASSUME NEW i \in DOMAIN t PROVE i + Len(s) \in DOMAIN a /\ a[i + Len(s)] = t[i]
  <2>1. i + Len(s) \in 1 .. Len(s) + Len(t) /\ ~(i + Len(s) <= Len(s)) /\ (i + Len(s)) - Len(s) = i
    BY <1>2
  <2> QED
    BY <1>1, <1>2, <2>1
<1>6. ASSUME NEW x PROVE x \in ToSet(a) <=> x \in ToSet(s) \/ x \in ToSet(t)
  <2>1. ASSUME NEW i \in DOMAIN a PROVE a[i] \in ToSet(s) \/ a[i] \in ToSet(t)
    BY <1>3, Zenon DEF ToSet
  <2>2. ASSUME NEW i \in DOMAIN s PROVE s[i] \in ToSet(a)
    BY <1>4, Zenon DEF ToSet
  <2>3. ASSUME NEW i \in DOMAIN t PROVE t[i] \in ToSet(a)
    BY <1>5, Zenon DEF ToSet
  <2> QED
    BY <2>1, <2>2, <2>3 DEF ToSet
<1> QED
  BY <1>1, <1>6 DEF a

LEMMA FailuresTyped ==
  ASSUME TypeOK, Known, NEW c \in Client, NEW e \in Client
  PROVE  /\ waitingForReply(c) \subseteq DOMAIN calls
         /\ waitingForDelayedReply(c) \subseteq DOMAIN calls
         /\ Unanswered(c, e) \subseteq CallNo /\ Unkept(c, e) \subseteq CallNo
         /\ Failures(c, e) = SetToSeq(FailuresOf(c, Unanswered(c, e), 0))
                             \o SetToSeq(FailuresOf(c, Unkept(c, e), 1))
         /\ Failures(c, e) \in Seq(Message)
         /\ ToSet(Failures(c, e)) =
              FailuresOf(c, Unanswered(c, e), 0) \union FailuresOf(c, Unkept(c, e), 1)
<1>1. waitingForReply(c) \subseteq DOMAIN calls
  <2>1. Queued(c, {"DCOPCall"}) \subseteq DOMAIN calls
    BY DEF Queued, ToSet, Known
  <2>2. ToSet(messages[c]) \subseteq DOMAIN calls /\ HandledBy(c) \subseteq DOMAIN calls
    BY DEF ToSet, Known, HandledBy
  <2> QED
    BY <2>1, <2>2 DEF waitingForReply
<1>2. waitingForDelayedReply(c) \subseteq DOMAIN calls
  BY DEF waitingForDelayedReply, Known
<1>3. Unanswered(c, e) \subseteq CallNo /\ Unkept(c, e) \subseteq CallNo
  BY <1>1, <1>2, CallsTyped DEF Unanswered, Unkept
<1>4. Failures(c, e) = SetToSeq(FailuresOf(c, Unanswered(c, e), 0))
                       \o SetToSeq(FailuresOf(c, Unkept(c, e), 1))
  BY Zenon DEF Failures, FailuresOf, Unanswered, Unkept
<1> DEFINE F == FailuresOf(c, Unanswered(c, e), 0)
           G == FailuresOf(c, Unkept(c, e), 1)
           s == SetToSeq(F)
           t == SetToSeq(G)
<1>5. IsFiniteSet(F) /\ F \subseteq Message /\ IsFiniteSet(G) /\ G \subseteq Message
  BY <1>3, FailuresFinite
<1> HIDE DEF F, G
<1>6. s \in Seq(F) /\ t \in Seq(G) /\ ToSet(s) = F /\ ToSet(t) = G
  BY <1>5, SeqOfSet
<1> HIDE DEF s, t
<1>7. s \in Seq(Message) /\ t \in Seq(Message)
  BY <1>5, <1>6, LenProperties, IsASeq
<1>8. s \o t \in Seq(Message) /\ ToSet(s \o t) = ToSet(s) \union ToSet(t)
  BY <1>7, OneAfterOther, Zenon
<1>9. Failures(c, e) = s \o t
  BY <1>4 DEF s, t, F, G
<1>10. ToSet(Failures(c, e)) = F \union G
  BY <1>6, <1>8, <1>9
<1> QED
  BY <1>1, <1>2, <1>3, <1>4, <1>8, <1>9, <1>10 DEF F, G

LEMMA DieTyped ==
  ASSUME TypeOK, Known, NEW c \in Client, Die(c)
  PROVE  TypeOK' /\ Known'
<1>1. /\ dead' = dead \union {c} /\ abandoned' = abandoned \union waitingForDelayedReply(c)
      /\ toClient' =
           [e \in Client |-> IF e \in dead' THEN << >> ELSE toClient[e] \o Failures(c, e)]
      /\ stack' = [stack EXCEPT ![c] = << >>] /\ currentKey' = [currentKey EXCEPT ![c] = None]
      /\ messages' = [messages EXCEPT ![c] = << >>]
      /\ postMessageTimer' = [postMessageTimer EXCEPT ![c] = FALSE]
      /\ pendingReplies' = [pendingReplies EXCEPT ![c] = << >>]
      /\ waits' = [waits EXCEPT ![c] = << >>]
      /\ transactionList' = [transactionList EXCEPT ![c] = {}]
      /\ calls' = calls /\ rs' = rs /\ opcode' = opcode /\ senderId' = senderId
      /\ transaction' = transaction /\ transactionId' = transactionId
  BY DEF Die, asked, current
<1>2. waitingForDelayedReply(c) \subseteq CallNo
  BY FailuresTyped, CallsTyped
<1>3. << >> \in Seq(Frame) /\ << >> \in Seq(Message) /\ << >> \in Seq(CallNo)
  BY EmptySeq
<1>4. ASSUME NEW e \in Client
      PROVE  /\ toClient'[e] \in Seq(Message)
             /\ \A i \in DOMAIN toClient'[e] : toClient'[e][i].n \in DOMAIN calls
  <2>1. CASE e \in dead'
    BY <1>1, <1>3, <2>1, EmptySeq
  <2>2. CASE e \notin dead'
    <3>1. toClient'[e] = toClient[e] \o Failures(c, e)
      BY <1>1, <2>2
    <3>2. toClient[e] \in Seq(Message) /\ Failures(c, e) \in Seq(Message)
      BY FailuresTyped DEF TypeOK
    <3>3. /\ toClient'[e] \in Seq(Message)
          /\ ToSet(toClient'[e]) = ToSet(toClient[e]) \union
               (FailuresOf(c, Unanswered(c, e), 0) \union FailuresOf(c, Unkept(c, e), 1))
      BY <3>1, <3>2, OneAfterOther, FailuresTyped
    <3>4. \A x \in FailuresOf(c, Unanswered(c, e), 0) \union FailuresOf(c, Unkept(c, e), 1) :
            x.n \in DOMAIN calls
      <4>1. ASSUME NEW n \in Unanswered(c, e) PROVE Failure(c, n, 0).n \in DOMAIN calls
        BY FailuresTyped DEF Unanswered, Failure
      <4>2. ASSUME NEW n \in Unkept(c, e) PROVE Failure(c, n, 1).n \in DOMAIN calls
        BY FailuresTyped DEF Unkept, Failure
      <4> QED
        BY <4>1, <4>2 DEF FailuresOf
    <3>5. \A x \in ToSet(toClient[e]) : x.n \in DOMAIN calls
      BY DEF Known, ToSet
    <3>6. \A x \in ToSet(toClient'[e]) : x.n \in DOMAIN calls
      BY <3>3, <3>4, <3>5
    <3> QED
      BY <3>3, <3>6 DEF ToSet
  <2> QED
    BY <2>1, <2>2
<1>5. toClient' \in [Client -> Seq(Message)]
  BY <1>1, <1>4
<1>6. TypeOK'
  BY <1>1, <1>2, <1>3, <1>5 DEF TypeOK, Keys
<1>7. Known'
  BY <1>1, <1>4, EmptySeq DEF Known, TypeOK
<1> QED
  BY <1>6, <1>7

LEMMA StepTyped == TypeOK /\ Known /\ [Next]_vars => TypeOK' /\ Known'
<1> SUFFICES ASSUME TypeOK, Known, [Next]_vars PROVE TypeOK' /\ Known'
  OBVIOUS
<1>1. CASE UNCHANGED vars
  BY <1>1 DEF vars, asked, current, posted, deaths, TypeOK, Known
<1>2. ASSUME NEW c \in Client,
             \/ \E d \in Client : send(c, d) \/ \E kind \in Kinds : call(c, d, kind)
             \/ Read(c) \/ Return(c) \/ TimeOut(c)
             \/ processPostedMessages(c) \/ ProcessPosted(c)
             \/ beginTransaction(c) \/ HandlerReturns(c)
             \/ \E t \in transactionList[c] : endTransaction(c, t)
             \/ Die(c)
      PROVE  TypeOK' /\ Known'
  <2>1. ASSUME NEW d \in Client, send(c, d) PROVE TypeOK' /\ Known'
    BY <2>1, SendStepTyped
  <2>2. ASSUME NEW d \in Client, NEW kind \in Kinds, call(c, d, kind) PROVE TypeOK' /\ Known'
    BY <2>2, CallStepTyped
  <2>3. ASSUME NEW t \in transactionList[c], endTransaction(c, t) PROVE TypeOK' /\ Known'
    BY <2>3, endTransactionTyped
  <2> QED
    BY <1>2, <2>1, <2>2, <2>3, ReadTyped, ReturnTyped, processPostedMessagesTyped,
       ProcessPostedTyped, beginTransactionTyped, HandlerReturnsTyped, DieTyped
<1> QED
  BY <1>1, <1>2 DEF Next

LEMMA InitTyped == Init => TypeOK /\ Known
<1> SUFFICES ASSUME Init PROVE TypeOK /\ Known
  OBVIOUS
<1>1. TypeOK
  <2>1. << >> \in Seq(CallInfo) /\ Len(<< >>) = 0 /\ 0 <= MaxCalls
    BY BoundAssumption, EmptySeq
  <2>2. << >> \in Seq(Frame) /\ << >> \in Seq(Message) /\ << >> \in Seq(CallNo)
    BY EmptySeq
  <2>3. NoReply \in ReplyStruct /\ None \in Keys
    BY DEF NoReply, ReplyStruct, Keys
  <2> QED
    BY <2>1, <2>2, <2>3 DEF Init, TypeOK, Opcode
<1>2. Known
  BY EmptySeq DEF Init, Known
<1> QED
  BY <1>1, <1>2

\* In every state a client's variables, frames and messages are of their types,
\* and no more than MaxCalls calls were made.
THEOREM ClientTypeCorrect == Spec => []TypeOK
<1>1. Init => TypeOK /\ Known
  BY InitTyped
<1>2. (TypeOK /\ Known) /\ [Next]_vars => (TypeOK /\ Known)'
  BY StepTyped
<1> QED
  BY <1>1, <1>2, PTL DEF Spec

-----------------------------------------------------------------------------
(* The key.  While a call is open the current key of the client is that of  *)
(* the call, and so is the key that each frame above the call restores when  *)
(* it is left: no handler of another key gets in between.                   *)

KeyKept(c) ==
  \A i \in DOMAIN stack[c] : stack[c][i].at = "call" =>
    /\ calls[stack[c][i].n].key # None
    /\ currentKey[c] = calls[stack[c][i].n].key
    /\ \A j \in DOMAIN stack[c] : i < j /\ stack[c][j].at # "posted" =>
         /\ stack[c][j].oldKey = calls[stack[c][i].n].key
         /\ calls[stack[c][j].n].key = calls[stack[c][i].n].key

KeyInv == \A c \in Client : KeyKept(c)

CallsGrow == /\ DOMAIN calls \subseteq DOMAIN calls'
             /\ \A n \in DOMAIN calls : calls'[n] = calls[n]

\* No frame is added, and the current key stays or is what the frames left want.
LEMMA KeyKeptBelow ==
  ASSUME TypeOK, Known, KeyInv, NEW c \in Client, CallsGrow,
         DOMAIN stack'[c] \subseteq DOMAIN stack[c],
         \A i \in DOMAIN stack'[c] : /\ stack'[c][i].at = stack[c][i].at
                                     /\ stack'[c][i].n = stack[c][i].n
                                     /\ stack'[c][i].oldKey = stack[c][i].oldKey,
         \/ currentKey'[c] = currentKey[c]
         \/ \A i \in DOMAIN stack'[c] : stack[c][i].at = "call" =>
              currentKey'[c] = calls[stack[c][i].n].key
  PROVE  KeyKept(c)'
<1> SUFFICES ASSUME NEW i \in DOMAIN stack'[c], stack'[c][i].at = "call"
             PROVE  /\ calls'[stack'[c][i].n].key # None
                    /\ currentKey'[c] = calls'[stack'[c][i].n].key
                    /\ \A j \in DOMAIN stack'[c] : i < j /\ stack'[c][j].at # "posted" =>
                         /\ stack'[c][j].oldKey = calls'[stack'[c][i].n].key
                         /\ calls'[stack'[c][j].n].key = calls'[stack'[c][i].n].key
  BY DEF KeyKept
<1>1. i \in DOMAIN stack[c] /\ stack[c][i].at = "call" /\ stack'[c][i].n = stack[c][i].n
      /\ KeyKept(c) /\ stack[c][i].n \in DOMAIN calls
  BY DEF KeyInv, Known
<1>2. calls'[stack[c][i].n] = calls[stack[c][i].n]
  BY <1>1 DEF CallsGrow
<1>3. /\ calls[stack[c][i].n].key # None /\ currentKey[c] = calls[stack[c][i].n].key
      /\ \A j \in DOMAIN stack[c] : i < j /\ stack[c][j].at # "posted" =>
           /\ stack[c][j].oldKey = calls[stack[c][i].n].key
           /\ calls[stack[c][j].n].key = calls[stack[c][i].n].key
  BY <1>1 DEF KeyKept
<1>4. currentKey'[c] = calls[stack[c][i].n].key
  BY <1>1, <1>3
<1>5. ASSUME NEW j \in DOMAIN stack'[c], i < j, stack'[c][j].at # "posted"
      PROVE  /\ stack'[c][j].oldKey = calls[stack[c][i].n].key
             /\ calls'[stack'[c][j].n].key = calls[stack[c][i].n].key
  <2>1. j \in DOMAIN stack[c] /\ stack[c][j].at # "posted" /\ stack[c][j].n \in DOMAIN calls
        /\ stack'[c][j].n = stack[c][j].n /\ stack'[c][j].oldKey = stack[c][j].oldKey
    BY <1>5 DEF Known
  <2>2. calls'[stack[c][j].n] = calls[stack[c][j].n]
    BY <2>1 DEF CallsGrow
  <2> QED
    BY <1>3, <1>5, <2>1, <2>2
<1> QED
  BY <1>1, <1>2, <1>3, <1>4, <1>5

\* A frame is put on top: it keeps a key that is set, and has it too.
LEMMA KeyKeptAbove ==
  ASSUME TypeOK, Known, KeyInv, NEW c \in Client, CallsGrow,
         NEW F \in Seq(Frame), NEW f \in Frame,
         stack'[c] = Append(F, f), Len(F) = Len(stack[c]),
         \A i \in DOMAIN stack[c] : /\ F[i].at = stack[c][i].at /\ F[i].n = stack[c][i].n
                                    /\ F[i].oldKey = stack[c][i].oldKey,
         currentKey[c] # None => currentKey'[c] = currentKey[c],
         f.at # "posted" /\ currentKey[c] # None =>
           f.oldKey = currentKey[c] /\ calls'[f.n].key = currentKey[c],
         f.at = "call" => calls'[f.n].key # None /\ currentKey'[c] = calls'[f.n].key
  PROVE  KeyKept(c)'
<1> DEFINE top == Len(stack[c]) + 1
<1>1. /\ DOMAIN stack[c] = 1 .. Len(stack[c]) /\ Len(stack[c]) \in Nat
      /\ DOMAIN stack'[c] = 1 .. top /\ stack'[c][top] = f
      /\ \A i \in DOMAIN stack[c] : stack'[c][i] = F[i]
  <2>1. DOMAIN stack[c] = 1 .. Len(stack[c]) /\ Len(stack[c]) \in Nat
    BY LenProperties DEF TypeOK
  <2>2. /\ DOMAIN Append(F, f) = 1 .. Len(F) + 1 /\ Append(F, f)[Len(F) + 1] = f
        /\ \A i \in 1 .. Len(F) : Append(F, f)[i] = F[i]
    BY AppendToSeq
  <2> QED
    BY <2>1, <2>2
<1>2. \A i \in DOMAIN stack'[c] : i \in DOMAIN stack[c] \/ i = top
  BY <1>1
<1> HIDE DEF top
<1>3. ASSUME NEW i \in DOMAIN stack[c], stack[c][i].at = "call"
      PROVE  /\ stack[c][i].n \in DOMAIN calls /\ calls'[stack[c][i].n] = calls[stack[c][i].n]
             /\ currentKey[c] # None /\ currentKey[c] = calls[stack[c][i].n].key
             /\ \A j \in DOMAIN stack[c] : i < j /\ stack[c][j].at # "posted" =>
                  /\ stack[c][j].oldKey = calls[stack[c][i].n].key
                  /\ calls[stack[c][j].n].key = calls[stack[c][i].n].key
                  /\ calls'[stack[c][j].n] = calls[stack[c][j].n]
  BY <1>3 DEF KeyInv, KeyKept, Known, CallsGrow
<1>4. ASSUME NEW i \in DOMAIN stack'[c], stack'[c][i].at = "call"
      PROVE  /\ calls'[stack'[c][i].n].key # None
             /\ currentKey'[c] = calls'[stack'[c][i].n].key
  <2>1. CASE i = top
    BY <1>1, <1>4, <2>1
  <2>2. CASE i \in DOMAIN stack[c]
    BY <1>1, <1>3, <1>4, <2>2
  <2> QED
    BY <1>2, <2>1, <2>2
<1>5. ASSUME NEW i \in DOMAIN stack'[c], stack'[c][i].at = "call",
             NEW j \in DOMAIN stack'[c], i < j, stack'[c][j].at # "posted"
      PROVE  /\ stack'[c][j].oldKey = calls'[stack'[c][i].n].key
             /\ calls'[stack'[c][j].n].key = calls'[stack'[c][i].n].key
  <2>1. i \in DOMAIN stack[c] /\ stack[c][i].at = "call" /\ stack'[c][i].n = stack[c][i].n
    <3>1. i # top
      BY <1>1, <1>5 DEF top
    <3> QED
      BY <1>1, <1>2, <1>5, <3>1
  <2>2. CASE j = top
    <3>1. stack'[c][j] = f
      BY <1>1, <2>2
    <3>2. currentKey[c] # None /\ calls'[stack'[c][i].n].key = currentKey[c]
      BY <1>3, <2>1
    <3> QED
      BY <1>5, <3>1, <3>2
  <2>3. CASE j \in DOMAIN stack[c]
    <3>1. /\ stack'[c][j].at = stack[c][j].at /\ stack'[c][j].n = stack[c][j].n
          /\ stack'[c][j].oldKey = stack[c][j].oldKey
      BY <1>1, <2>3
    <3> QED
      BY <1>3, <1>5, <2>1, <2>3, <3>1
  <2> QED
    BY <1>2, <2>2, <2>3
<1> QED
  BY <1>4, <1>5 DEF KeyKept

\* Whatever c does, the others keep their keys.
LEMMA KeyKeptByOthers ==
  ASSUME TypeOK, Known, KeyInv, NEW c \in Client, CallsGrow, KeyKept(c)',
         \A d \in Client \ {c} : stack'[d] = stack[d] /\ currentKey'[d] = currentKey[d]
  PROVE  KeyInv'
<1>1. ASSUME NEW d \in Client \ {c} PROVE KeyKept(d)'
  BY KeyKeptBelow
<1> QED
  BY <1>1 DEF KeyInv

\* A client that leaves its stack and its key alone keeps it.
LEMMA KeyKeptByIdling ==
  ASSUME TypeOK, Known, KeyInv, CallsGrow, UNCHANGED <<stack, currentKey>>
  PROVE  KeyInv'
<1>1. ASSUME NEW d \in Client PROVE KeyKept(d)'
  BY KeyKeptBelow
<1> QED
  BY <1>1 DEF KeyInv

LEMMA KeyKeptByCall ==
  ASSUME TypeOK, Known, KeyInv, NEW c \in Client, NEW d \in Client, NEW kind \in Kinds,
         call(c, d, kind)
  PROVE  KeyInv'
<1> DEFINE n == Len(calls) + 1
           key == IF currentKey[c] = None THEN c ELSE currentKey[c]
           info == [caller |-> c, callee |-> d, kind |-> kind, key |-> key]
           f == [at |-> "call", n |-> n, oldKey |-> currentKey[c], did |-> "nothing", seen |-> {}]
<1>1. key \in Keys /\ key # None /\ (currentKey[c] # None => key = currentKey[c])
      /\ currentKey[c] \in Keys
  BY ClientAssumption DEF TypeOK, Keys
<1>2. info \in CallInfo /\ info.key = key
  BY <1>1, KindAssumption DEF CallInfo, call
<1>3. /\ Len(calls) < MaxCalls /\ calls' = Append(calls, info)
      /\ stack' = [stack EXCEPT ![c] = Append(Calling(c), f)]
      /\ currentKey' = [currentKey EXCEPT ![c] = key]
  BY DEF call, MayCall
<1> HIDE DEF info
<1>4. CallsGrow /\ n \in CallNo /\ calls'[n] = info
  BY <1>2, <1>3, CallTyped DEF CallsGrow
<1>5. f \in Frame /\ f.n = n /\ f.oldKey = currentKey[c] /\ f.at = "call"
  BY <1>1, <1>4 DEF Frame
<1> HIDE DEF n, key, f
<1>6. /\ stack'[c] = Append(Calling(c), f) /\ currentKey'[c] = key
      /\ \A e \in Client \ {c} : stack'[e] = stack[e] /\ currentKey'[e] = currentKey[e]
  BY <1>3 DEF TypeOK
<1>7. /\ Calling(c) \in Seq(Frame) /\ Len(Calling(c)) = Len(stack[c])
      /\ \A i \in DOMAIN stack[c] :
           /\ Calling(c)[i].at = stack[c][i].at /\ Calling(c)[i].n = stack[c][i].n
           /\ Calling(c)[i].oldKey = stack[c][i].oldKey
  BY CallingTyped
<1>8. KeyKept(c)'
  BY <1>1, <1>2, <1>4, <1>5, <1>6, <1>7, KeyKeptAbove
<1> QED
  BY <1>4, <1>6, <1>8, KeyKeptByOthers

LEMMA KeyKeptBySend ==
  ASSUME TypeOK, Known, KeyInv, NEW c \in Client, NEW d \in Client, send(c, d)
  PROVE  KeyInv'
<1> DEFINE info == [caller |-> c, callee |-> d, kind |-> "send", key |-> "send"]
<1>1. info \in CallInfo
  BY DEF CallInfo, Keys
<1>2. /\ Len(calls) < MaxCalls /\ calls' = Append(calls, info)
      /\ stack' = [stack EXCEPT ![c] = Calling(c)] /\ currentKey' = currentKey
  BY DEF send, MayCall
<1> HIDE DEF info
<1>3. CallsGrow
  BY <1>1, <1>2, CallTyped DEF CallsGrow
<1>4. /\ stack'[c] = Calling(c)
      /\ \A e \in Client \ {c} : stack'[e] = stack[e] /\ currentKey'[e] = currentKey[e]
  BY <1>2 DEF TypeOK
<1>5. /\ DOMAIN Calling(c) = DOMAIN stack[c]
      /\ \A i \in DOMAIN stack[c] :
           /\ Calling(c)[i].at = stack[c][i].at /\ Calling(c)[i].n = stack[c][i].n
           /\ Calling(c)[i].oldKey = stack[c][i].oldKey
  BY CallingTyped
<1>6. KeyKept(c)'
  BY <1>2, <1>3, <1>4, <1>5, KeyKeptBelow
<1> QED
  BY <1>3, <1>4, <1>6, KeyKeptByOthers

\* The innermost frame is left, and its key restored unless it is a handler of a
\* send or processPostedMessages().
LEMMA KeyKeptByPop ==
  ASSUME TypeOK, Known, KeyInv, NEW c \in Client, ~Idle(c), UNCHANGED calls, stack' = Pop(c),
         \/ currentKey' = currentKey
         \/ /\ Top(c).at # "posted"
            /\ currentKey' = [currentKey EXCEPT ![c] = Top(c).oldKey]
  PROVE  KeyInv'
<1>1. CallsGrow
  BY DEF CallsGrow
<1>2. /\ DOMAIN stack'[c] = 1 .. Len(stack[c]) - 1
      /\ \A i \in 1 .. Len(stack[c]) - 1 : stack'[c][i] = stack[c][i]
      /\ \A d \in Client \ {c} : stack'[d] = stack[d]
      /\ Len(stack[c]) \in Nat \ {0} /\ DOMAIN stack[c] = 1 .. Len(stack[c])
  BY PopTyped, TopTyped
<1>3. CASE currentKey' = currentKey
  <2>1. KeyKept(c)'
    BY <1>1, <1>2, <1>3, KeyKeptBelow
  <2> QED
    BY <1>1, <1>2, <1>3, <2>1, KeyKeptByOthers
<1>4. CASE /\ Top(c).at # "posted"
           /\ currentKey' = [currentKey EXCEPT ![c] = Top(c).oldKey]
  <2>1. currentKey'[c] = Top(c).oldKey
        /\ \A d \in Client \ {c} : currentKey'[d] = currentKey[d]
    BY <1>4 DEF TypeOK
  <2>2. ASSUME NEW i \in DOMAIN stack'[c], stack[c][i].at = "call"
        PROVE  currentKey'[c] = calls[stack[c][i].n].key
    <3>1. i \in DOMAIN stack[c] /\ Len(stack[c]) \in DOMAIN stack[c] /\ i < Len(stack[c])
      BY <1>2
    <3>2. KeyKept(c) /\ stack[c][Len(stack[c])].at # "posted"
      BY <1>4 DEF KeyInv, Top
    <3>3. stack[c][Len(stack[c])].oldKey = calls[stack[c][i].n].key
      BY <2>2, <3>1, <3>2 DEF KeyKept
    <3> QED
      BY <2>1, <3>3 DEF Top
  <2>3. KeyKept(c)'
    BY <1>1, <1>2, <2>2, KeyKeptBelow
  <2> QED
    BY <1>1, <1>2, <2>1, <2>3, KeyKeptByOthers
<1> QED
  BY <1>3, <1>4

\* A handler begins only with the current key, if there is one.
LEMMA KeyKeptByReceive ==
  ASSUME TypeOK, Known, KeyInv, NEW c \in Client, NEW n \in DOMAIN calls, UNCHANGED calls,
         NEW F \in Seq(Frame), Len(F) = Len(stack[c]),
         \A i \in DOMAIN stack[c] : /\ F[i].at = stack[c][i].at /\ F[i].n = stack[c][i].n
                                    /\ F[i].oldKey = stack[c][i].oldKey,
         currentKey[c] \in {None, calls[n].key}, Receive(c, n, F)
  PROVE  KeyInv'
<1> DEFINE f == [at |-> "handler", n |-> n, oldKey |-> currentKey[c], did |-> "nothing", seen |-> {}]
<1>1. CallsGrow
  BY DEF CallsGrow
<1>2. f \in Frame /\ f.at = "handler" /\ f.n = n /\ f.oldKey = currentKey[c]
  <2>1. n \in CallNo /\ currentKey[c] \in Keys
    BY CallsTyped DEF TypeOK
  <2> QED
    BY <2>1 DEF Frame
<1>3. stack' = [stack EXCEPT ![c] = Append(F, f)]
  BY DEF Receive
<1> HIDE DEF f
<1>4. stack'[c] = Append(F, f) /\ \A d \in Client \ {c} : stack'[d] = stack[d]
  BY <1>3 DEF TypeOK
<1>5. /\ currentKey[c] # None => currentKey'[c] = currentKey[c]
      /\ \A d \in Client \ {c} : currentKey'[d] = currentKey[d]
  BY DEF Receive, TypeOK
<1>6. currentKey[c] # None => calls'[n].key = currentKey[c]
  OBVIOUS
<1>7. KeyKept(c)'
  BY <1>1, <1>2, <1>4, <1>5, <1>6, KeyKeptAbove
<1> QED
  BY <1>1, <1>4, <1>5, <1>7, KeyKeptByOthers

LEMMA KeyKeptByRead ==
  ASSUME TypeOK, Known, KeyInv, NEW c \in Client, Read(c)
  PROVE  KeyInv'
<1> DEFINE n == Head(toClient[c]).n
<1>1. n \in DOMAIN calls /\ UNCHANGED calls /\ stack[c] \in Seq(Frame)
  <2>1. toClient[c] \in Seq(Message) /\ toClient[c] # << >>
    BY DEF Read, MayRead, TypeOK
  <2>2. Head(toClient[c]) = toClient[c][1] /\ 1 \in DOMAIN toClient[c]
    BY <2>1, HeadTailProperties, LenProperties, EmptySeq
  <2> QED
    BY <2>2 DEF Known, Read, TypeOK
<1>2. UNCHANGED <<stack, currentKey>> \/ ReceiveOrPost(c, n)
  BY DEF Read
<1> HIDE DEF n
<1>3. CASE UNCHANGED <<stack, currentKey>>
  BY <1>1, <1>3, KeyKeptByIdling DEF CallsGrow
<1>4. CASE ReceiveOrPost(c, n)
  <2>1. CASE currentKey[c] # None /\ calls[n].key # currentKey[c]
    BY <1>1, <1>4, <2>1, KeyKeptByIdling DEF ReceiveOrPost, CallsGrow
  <2>2. CASE ~(currentKey[c] # None /\ calls[n].key # currentKey[c])
    <3>1. Receive(c, n, stack[c]) /\ currentKey[c] \in {None, calls[n].key}
      BY <1>4, <2>2 DEF ReceiveOrPost
    <3> QED
      BY <1>1, <3>1, KeyKeptByReceive
  <2> QED
    BY <2>1, <2>2
<1> QED
  BY <1>2, <1>3, <1>4

LEMMA KeyKeptByTimer ==
  ASSUME TypeOK, Known, KeyInv, NEW c \in Client, processPostedMessages(c)
  PROVE  KeyInv'
<1> DEFINE f == [at |-> "posted", n |-> 0, oldKey |-> None, did |-> "nothing", seen |-> {}]
<1>1. f \in Frame /\ f.at = "posted"
  BY DEF Frame, Keys
<1>2. stack' = stack \/ stack' = [stack EXCEPT ![c] = Append(stack[c], f)]
  BY DEF processPostedMessages, Push
<1>3. currentKey' = currentKey /\ CallsGrow /\ stack[c] \in Seq(Frame)
  BY DEF processPostedMessages, asked, CallsGrow, TypeOK
<1> HIDE DEF f
<1>4. CASE stack' = stack
  BY <1>3, <1>4, KeyKeptByIdling
<1>5. CASE stack' = [stack EXCEPT ![c] = Append(stack[c], f)]
  <2>1. stack'[c] = Append(stack[c], f) /\ \A d \in Client \ {c} : stack'[d] = stack[d]
    BY <1>5 DEF TypeOK
  <2>2. KeyKept(c)'
    BY <1>1, <1>3, <2>1, KeyKeptAbove
  <2> QED
    BY <1>3, <2>1, <2>2, KeyKeptByOthers
<1> QED
  BY <1>2, <1>4, <1>5

LEMMA KeyKeptByProcessPosted ==
  ASSUME TypeOK, Known, KeyInv, NEW c \in Client, ProcessPosted(c)
  PROVE  KeyInv'
<1> DEFINE fits == {i \in DOMAIN messages[c] : /\ messages[c][i] \notin Top(c).seen
                                               /\ currentKey[c] \in {None, calls[messages[c][i]].key}}
           k == First(fits)
           n == messages[c][k]
           f == [Top(c) EXCEPT !.seen = @ \union {messages[c][j] : j \in 1 .. k - 1}]
<1>1. ~Idle(c) /\ Top(c) \in Frame /\ UNCHANGED calls
  <2>1. ~Idle(c)
    BY DEF ProcessPosted, In, Idle
  <2> QED
    BY <2>1, TopTyped DEF ProcessPosted, asked
<1>2. messages[c] \in Seq(CallNo) /\ Len(messages[c]) \in Nat
      /\ DOMAIN messages[c] = 1 .. Len(messages[c])
      /\ messages[c] \in [1 .. Len(messages[c]) -> CallNo]
  BY LenProperties DEF TypeOK
<1>3. CASE fits = {}
  <2>1. stack' = Pop(c) /\ currentKey' = currentKey
    BY <1>3 DEF ProcessPosted
  <2> QED
    BY <1>1, <2>1, KeyKeptByPop
<1>4. CASE fits # {}
  <2>1. k \in fits
    <3>1. fits \subseteq 1 .. Len(messages[c])
      BY <1>2
    <3> HIDE DEF fits
    <3> QED
      BY <1>2, <1>4, <3>1, FirstIsThere
  <2>2. n \in DOMAIN calls /\ currentKey[c] \in {None, calls[n].key} /\ k \in DOMAIN messages[c]
    BY <2>1 DEF Known
  <2>3. Receive(c, n, ReplaceTop(c, f))
    BY <1>4 DEF ProcessPosted
  <2>4. f \in Frame /\ f.at = Top(c).at /\ f.n = Top(c).n /\ f.oldKey = Top(c).oldKey
    <3> HIDE DEF k, n, fits
    <3>1. {messages[c][j] : j \in 1 .. k - 1} \subseteq CallNo
      <4>1. k \in 1 .. Len(messages[c])
        BY <1>2, <2>2
      <4> QED
        BY <1>2, <4>1, ElementsBefore, Zenon
    <3> QED
      BY <1>1, <3>1 DEF Frame
  <2> HIDE DEF k, n, f, fits
  <2>5. /\ ReplaceTop(c, f) \in Seq(Frame) /\ Len(ReplaceTop(c, f)) = Len(stack[c])
        /\ \A i \in DOMAIN stack[c] : /\ ReplaceTop(c, f)[i].at = stack[c][i].at
                                      /\ ReplaceTop(c, f)[i].n = stack[c][i].n
                                      /\ ReplaceTop(c, f)[i].oldKey = stack[c][i].oldKey
    BY <1>1, <2>4, ReplaceTopTyped DEF Top
  <2> QED
    BY <1>1, <2>2, <2>3, <2>5, KeyKeptByReceive
<1> QED
  BY <1>3, <1>4

LEMMA KeyKeptByBeginTransaction ==
  ASSUME TypeOK, Known, KeyInv, NEW c \in Client, beginTransaction(c)
  PROVE  KeyInv'
<1> DEFINE f == [Top(c) EXCEPT !.did = "delayed"]
<1>1. ~Idle(c) /\ CallsGrow /\ currentKey' = currentKey
      /\ stack' = [stack EXCEPT ![c] = ReplaceTop(c, f)]
  BY DEF beginTransaction, In, Idle, asked, CallsGrow
<1>2. f \in Frame /\ f.at = Top(c).at /\ f.n = Top(c).n /\ f.oldKey = Top(c).oldKey
  BY <1>1, TopTyped DEF Frame
<1> HIDE DEF f
<1>3. /\ DOMAIN ReplaceTop(c, f) = DOMAIN stack[c]
      /\ \A i \in DOMAIN stack[c] : /\ ReplaceTop(c, f)[i].at = stack[c][i].at
                                    /\ ReplaceTop(c, f)[i].n = stack[c][i].n
                                    /\ ReplaceTop(c, f)[i].oldKey = stack[c][i].oldKey
  BY <1>1, <1>2, ReplaceTopTyped DEF Top
<1>4. stack'[c] = ReplaceTop(c, f) /\ \A d \in Client \ {c} : stack'[d] = stack[d]
  BY <1>1 DEF TypeOK
<1>5. KeyKept(c)'
  BY <1>1, <1>3, <1>4, KeyKeptBelow
<1> QED
  BY <1>1, <1>4, <1>5, KeyKeptByOthers

LEMMA KeyKeptByDeath ==
  ASSUME TypeOK, Known, KeyInv, NEW c \in Client, Die(c)
  PROVE  KeyInv'
<1>1. CallsGrow /\ stack'[c] = << >>
      /\ \A d \in Client \ {c} : stack'[d] = stack[d] /\ currentKey'[d] = currentKey[d]
  BY DEF Die, asked, CallsGrow, TypeOK
<1>2. KeyKept(c)'
  BY <1>1, EmptySeq DEF KeyKept
<1> QED
  BY <1>1, <1>2, KeyKeptByOthers

LEMMA StepKeepsKeys == TypeOK /\ Known /\ KeyInv /\ [Next]_vars => KeyInv'
<1> SUFFICES ASSUME TypeOK, Known, KeyInv, [Next]_vars PROVE KeyInv'
  OBVIOUS
<1>1. CASE UNCHANGED vars
  BY <1>1, KeyKeptByIdling DEF vars, asked, CallsGrow
<1>2. ASSUME NEW c \in Client, Return(c) \/ TimeOut(c) PROVE KeyInv'
  <2>1. ~Idle(c) /\ Top(c).at # "posted" /\ UNCHANGED calls /\ stack' = Pop(c)
        /\ currentKey' = [currentKey EXCEPT ![c] = Top(c).oldKey]
    BY <1>2 DEF Return, TimeOut, In, Idle, asked
  <2> QED
    BY <2>1, KeyKeptByPop
<1>3. ASSUME NEW c \in Client, HandlerReturns(c) PROVE KeyInv'
  <2>1. ~Idle(c) /\ Top(c).at # "posted" /\ UNCHANGED calls /\ stack' = Pop(c)
        /\ \/ currentKey' = currentKey
           \/ currentKey' = [currentKey EXCEPT ![c] = Top(c).oldKey]
    BY <1>3 DEF HandlerReturns, In, Idle, asked
  <2> QED
    BY <2>1, KeyKeptByPop
<1>4. ASSUME NEW c \in Client, NEW t \in transactionList[c], endTransaction(c, t) PROVE KeyInv'
  BY <1>4, KeyKeptByIdling DEF endTransaction, asked, CallsGrow
<1> QED
  BY <1>1, <1>2, <1>3, <1>4, KeyKeptByCall, KeyKeptBySend, KeyKeptByRead, KeyKeptByTimer,
     KeyKeptByProcessPosted, KeyKeptByBeginTransaction, KeyKeptByDeath DEF Next

\* Inside an open call a client handles only calls with the key of that call.  The
\* key is compared when a message is read or taken from those posted; that it is
\* the key of every open call, not of the latest only, is the invariant.
THEOREM ClientReentry == Spec => []OnlyCircularCallsReenter
<1>1. Init => TypeOK /\ Known /\ KeyInv
  <2>1. Init => KeyInv
    BY EmptySeq DEF Init, KeyInv, KeyKept
  <2> QED
    BY <2>1, InitTyped
<1>2. (TypeOK /\ Known /\ KeyInv) /\ [Next]_vars => (TypeOK /\ Known /\ KeyInv)'
  BY StepTyped, StepKeepsKeys
<1>3. KeyInv => OnlyCircularCallsReenter
  BY DEF KeyInv, KeyKept, OnlyCircularCallsReenter
<1> QED
  BY <1>1, <1>2, <1>3, PTL DEF Spec

-----------------------------------------------------------------------------
(* What is in the messages: requests with the opcode of their kind.        *)

Fits(m) ==
  /\ m.op = "DCOPCall" => calls[m.n].kind # "send"
  /\ m.op = "DCOPSend" => calls[m.n].kind = "send"

MessagesFit == \A c \in Client : \A m \in ToSet(toClient[c]) : Fits(m)

LEMMA FitsKept ==
  ASSUME TypeOK, Known, MessagesFit, CallsGrow,
         \A e \in Client : \A m \in ToSet(toClient'[e]) : m \in ToSet(toClient[e]) \/ Fits(m)'
  PROVE  MessagesFit'
<1>1. ASSUME NEW e \in Client, NEW m \in ToSet(toClient[e]) PROVE Fits(m)'
  <2>1. m.n \in DOMAIN calls
    BY DEF Known, ToSet
  <2> QED
    BY <2>1 DEF MessagesFit, Fits, CallsGrow
<1> QED
  BY <1>1 DEF MessagesFit

\* What Send() adds to the queues.
LEMMA SendAdds ==
  ASSUME TypeOK, NEW c \in Client, NEW d, NEW n \in CallNo, NEW tid \in Nat,
         NEW op \in Opcode, Send(c, d, op, n, tid), op = "DCOPCall" => d \in Client
  PROVE  \A e \in Client : \A m \in ToSet(toClient'[e]) :
           m \in ToSet(toClient[e]) \/ (m.n = n /\ m.op \in {op, "DCOPReplyFailed"})
<1>1. CASE toClient' = toClient
  BY <1>1
<1>2. ASSUME NEW x, NEW a \in Message, a.n = n, a.op \in {op, "DCOPReplyFailed"},
             Appends(toClient, toClient', x, a),
             NEW e \in Client, NEW m \in ToSet(toClient'[e])
      PROVE  m \in ToSet(toClient[e]) \/ (m.n = n /\ m.op \in {op, "DCOPReplyFailed"})
  <2>1. toClient[e] \in Seq(Message)
    BY DEF TypeOK
  <2>2. toClient'[e] = toClient[e] \/ toClient'[e] = Append(toClient[e], a)
    BY <1>2 DEF Appends, TypeOK
  <2>3. /\ DOMAIN Append(toClient[e], a) = 1 .. Len(toClient[e]) + 1
        /\ DOMAIN toClient[e] = 1 .. Len(toClient[e]) /\ Len(toClient[e]) \in Nat
        /\ \A i \in 1 .. Len(toClient[e]) : Append(toClient[e], a)[i] = toClient[e][i]
        /\ Append(toClient[e], a)[Len(toClient[e]) + 1] = a
    BY <2>1, AppendToSeq
  <2>4. \A i \in 1 .. Len(toClient[e]) + 1 :
          i \in 1 .. Len(toClient[e]) \/ i = Len(toClient[e]) + 1
    BY <2>3
  <2>5. \A i \in DOMAIN Append(toClient[e], a) :
          Append(toClient[e], a)[i] \in ToSet(toClient[e]) \/ Append(toClient[e], a)[i] = a
    BY <2>3, <2>4 DEF ToSet
  <2>6. m \in ToSet(toClient[e]) \/ m = a
    BY <1>2, <2>2, <2>5 DEF ToSet
  <2> QED
    BY <1>2, <2>6
<1>3. PICK a : a = [op |-> op, n |-> n, from |-> c, tid |-> tid]
  OBVIOUS
<1>4. a \in Message /\ a.n = n /\ a.op = op
  BY <1>3 DEF Message
<1>5. PICK b : b = Failure(d, n, 0)
  OBVIOUS
<1>6. op = "DCOPCall" => b \in Message /\ b.n = n /\ b.op = "DCOPReplyFailed"
  BY <1>5 DEF Message, Failure, Opcode
<1>7. \/ Appends(toClient, toClient', d, a)
      \/ op = "DCOPCall" /\ Appends(toClient, toClient', c, b)
      \/ toClient' = toClient
  BY <1>3, <1>5, SendCases, Zenon
<1> QED
  BY <1>1, <1>2, <1>4, <1>6, <1>7

\* Most steps leave the calls alone and add no request.
LEMMA FitsKeptByReply ==
  ASSUME TypeOK, Known, MessagesFit, CallsGrow,
         \A e \in Client : \A m \in ToSet(toClient'[e]) :
           m \in ToSet(toClient[e]) \/ m.op \notin {"DCOPCall", "DCOPSend"}
  PROVE  MessagesFit'
BY FitsKept DEF Fits

LEMMA FitsKeptByCall ==
  ASSUME TypeOK, Known, MessagesFit, NEW c \in Client, NEW d \in Client,
         send(c, d) \/ \E kind \in Kinds : call(c, d, kind)
  PROVE  MessagesFit'
<1>1. PICK kind \in {"call", "callAsync", "send"} :
        \E key \in Keys :
          /\ Len(calls) < MaxCalls
          /\ calls' = Append(calls, [caller |-> c, callee |-> d, kind |-> kind, key |-> key])
          /\ \/ kind = "send" /\ Send(c, d, "DCOPSend", Len(calls) + 1, 0)
             \/ kind # "send" /\ Send(c, d, "DCOPCall", Len(calls) + 1, 0)
  <2>1. CASE send(c, d)
    <3>1. "send" \in Keys
      BY DEF Keys
    <3> QED
      BY <2>1, <3>1 DEF send, MayCall
  <2>2. ASSUME NEW kind \in Kinds, call(c, d, kind)
        PROVE  \E key \in Keys :
          /\ Len(calls) < MaxCalls
          /\ calls' = Append(calls, [caller |-> c, callee |-> d, kind |-> kind, key |-> key])
          /\ kind # "send" /\ Send(c, d, "DCOPCall", Len(calls) + 1, 0)
    <3>1. (IF currentKey[c] = None THEN c ELSE currentKey[c]) \in Keys
      BY DEF TypeOK, Keys
    <3> QED
      BY <2>2, <3>1 DEF call, MayCall
  <2> QED
    BY <2>1, <2>2, KindAssumption
<1>2. PICK key \in Keys :
        /\ Len(calls) < MaxCalls
        /\ calls' = Append(calls, [caller |-> c, callee |-> d, kind |-> kind, key |-> key])
        /\ \/ kind = "send" /\ Send(c, d, "DCOPSend", Len(calls) + 1, 0)
           \/ kind # "send" /\ Send(c, d, "DCOPCall", Len(calls) + 1, 0)
  BY <1>1
<1>3. PICK info : info = [caller |-> c, callee |-> d, kind |-> kind, key |-> key]
  OBVIOUS
<1>4. info \in CallInfo /\ info.kind = kind
  BY <1>3 DEF CallInfo
<1>5. CallsGrow /\ Len(calls) + 1 \in CallNo /\ calls'[Len(calls) + 1] = info
  BY <1>2, <1>3, <1>4, CallTyped DEF CallsGrow
<1>6. PICK n : n = Len(calls) + 1
  OBVIOUS
<1>7. n \in CallNo /\ calls'[n].kind = kind
  BY <1>4, <1>5, <1>6
<1>8. ASSUME NEW e \in Client, NEW m \in ToSet(toClient'[e])
      PROVE  m \in ToSet(toClient[e]) \/ Fits(m)'
  <2>1. CASE kind = "send" /\ Send(c, d, "DCOPSend", n, 0)
    <3>1. m \in ToSet(toClient[e]) \/ (m.n = n /\ m.op \in {"DCOPSend", "DCOPReplyFailed"})
      BY <1>7, <2>1, SendAdds DEF Opcode
    <3> QED
      BY <1>7, <2>1, <3>1 DEF Fits
  <2>2. CASE kind # "send" /\ Send(c, d, "DCOPCall", n, 0)
    <3>1. m \in ToSet(toClient[e]) \/ (m.n = n /\ m.op \in {"DCOPCall", "DCOPReplyFailed"})
      BY <1>7, <2>2, SendAdds DEF Opcode
    <3> QED
      BY <1>7, <2>2, <3>1 DEF Fits
  <2> QED
    BY <1>2, <1>6, <2>1, <2>2
<1> QED
  BY <1>5, <1>8, FitsKept

LEMMA FitsKeptByRead ==
  ASSUME TypeOK, Known, MessagesFit, NEW c \in Client, Read(c)
  PROVE  MessagesFit'
<1>1. toClient[c] \in Seq(Message) /\ toClient[c] # << >> /\ CallsGrow
      /\ toClient' = [toClient EXCEPT ![c] = Tail(toClient[c])]
  BY DEF Read, MayRead, TypeOK, CallsGrow
<1>2. /\ Tail(toClient[c]) \in Seq(Message)
      /\ Len(Tail(toClient[c])) = Len(toClient[c]) - 1
      /\ \A i \in 1 .. Len(Tail(toClient[c])) : Tail(toClient[c])[i] = toClient[c][i + 1]
      /\ Len(toClient[c]) \in Nat \ {0} /\ DOMAIN toClient[c] = 1 .. Len(toClient[c])
      /\ DOMAIN Tail(toClient[c]) = 1 .. Len(Tail(toClient[c]))
  BY <1>1, HeadTailProperties, LenProperties, EmptySeq
<1>3. \A i \in DOMAIN Tail(toClient[c]) : i + 1 \in DOMAIN toClient[c]
  BY <1>2
<1>4. ToSet(Tail(toClient[c])) \subseteq ToSet(toClient[c])
  BY <1>2, <1>3 DEF ToSet
<1>5. \A e \in Client : ToSet(toClient'[e]) \subseteq ToSet(toClient[e])
  BY <1>1, <1>4 DEF TypeOK
<1> QED
  BY <1>1, <1>5, FitsKept

LEMMA FitsKeptByDeath ==
  ASSUME TypeOK, Known, MessagesFit, NEW c \in Client, Die(c)
  PROVE  MessagesFit'
<1>1. CallsGrow
  BY DEF Die, asked, CallsGrow
<1>2. ASSUME NEW e \in Client, NEW m \in ToSet(toClient'[e])
      PROVE  m \in ToSet(toClient[e]) \/ m.op \notin {"DCOPCall", "DCOPSend"}
  <2>1. toClient'[e] = << >> \/ toClient'[e] = toClient[e] \o Failures(c, e)
    BY DEF Die
  <2>2. toClient[e] \in Seq(Message) /\ Failures(c, e) \in Seq(Message)
        /\ ToSet(Failures(c, e)) =
             FailuresOf(c, Unanswered(c, e), 0) \union FailuresOf(c, Unkept(c, e), 1)
    BY FailuresTyped DEF TypeOK
  <2>3. \A x \in ToSet(Failures(c, e)) : x.op = "DCOPReplyFailed"
    BY <2>2 DEF FailuresOf, Failure
  <2>4. CASE toClient'[e] = << >>
    BY <1>2, <2>4, EmptySeq DEF ToSet
  <2>5. CASE toClient'[e] = toClient[e] \o Failures(c, e)
    BY <1>2, <2>2, <2>3, <2>5, OneAfterOther
  <2> QED
    BY <2>1, <2>4, <2>5
<1> QED
  BY <1>1, <1>2, FitsKeptByReply

LEMMA StepKeepsFits == TypeOK /\ Known /\ MessagesFit /\ [Next]_vars => MessagesFit'
<1> SUFFICES ASSUME TypeOK, Known, MessagesFit, [Next]_vars PROVE MessagesFit'
  OBVIOUS
<1>1. ASSUME toClient' = toClient, calls' = calls PROVE MessagesFit'
  BY <1>1, FitsKept DEF CallsGrow
<1>2. ASSUME NEW c \in Client, HandlerReturns(c) PROVE MessagesFit'
  <2>1. CallsGrow
    BY <1>2 DEF HandlerReturns, asked, CallsGrow
  <2>2. PICK n : n = Top(c).n
    OBVIOUS
  <2>3. n \in CallNo
    BY <1>2, <2>2, TopTyped DEF HandlerReturns, In, Idle
  <2>4. \/ toClient' = toClient
        \/ \E op \in {"DCOPReply", "DCOPReplyWait"} : \E id \in Nat :
             Send(c, calls[n].caller, op, n, id)
    BY <1>2, <2>2 DEF HandlerReturns, TypeOK
  <2>5. ASSUME NEW op \in {"DCOPReply", "DCOPReplyWait"}, NEW id \in Nat,
               Send(c, calls[n].caller, op, n, id)
        PROVE  MessagesFit'
    <3>1. op \in Opcode /\ op # "DCOPCall"
      BY DEF Opcode
    <3>2. \A e \in Client : \A m \in ToSet(toClient'[e]) :
            m \in ToSet(toClient[e]) \/ m.op \in {op, "DCOPReplyFailed"}
      BY <2>3, <2>5, <3>1, SendAdds
    <3> QED
      BY <2>1, <3>2, FitsKeptByReply
  <2>6. calls' = calls
    BY <1>2 DEF HandlerReturns, asked
  <2> QED
    BY <1>1, <2>4, <2>5, <2>6
<1>3. ASSUME NEW c \in Client, NEW t \in transactionList[c], endTransaction(c, t)
      PROVE  MessagesFit'
  <2>1. t.n \in CallNo /\ t.id \in Nat
    BY DEF TypeOK, Transaction
  <2>2. Send(c, t.senderId, "DCOPReplyDelayed", t.n, t.id) /\ CallsGrow
    BY <1>3 DEF endTransaction, asked, CallsGrow
  <2>3. "DCOPReplyDelayed" \in Opcode
    BY DEF Opcode
  <2>4. \A e \in Client : \A m \in ToSet(toClient'[e]) :
          m \in ToSet(toClient[e]) \/ m.op \in {"DCOPReplyDelayed", "DCOPReplyFailed"}
    BY <2>1, <2>2, <2>3, SendAdds
  <2> QED
    BY <2>2, <2>4, FitsKeptByReply
<1>4. ASSUME NEW c \in Client, Return(c) \/ TimeOut(c) \/ processPostedMessages(c)
                               \/ ProcessPosted(c) \/ beginTransaction(c)
      PROVE  MessagesFit'
  <2>1. toClient' = toClient /\ calls' = calls
    <3>1. CASE Return(c) \/ TimeOut(c)
      BY <3>1 DEF Return, TimeOut, asked
    <3>2. CASE processPostedMessages(c)
      BY <3>2 DEF processPostedMessages, asked
    <3>3. CASE ProcessPosted(c)
      BY <3>3 DEF ProcessPosted, asked
    <3>4. CASE beginTransaction(c)
      BY <3>4 DEF beginTransaction, asked
    <3> QED
      BY <1>4, <3>1, <3>2, <3>3, <3>4
  <2> QED
    BY <1>1, <2>1
<1>5. CASE UNCHANGED vars
  BY <1>1, <1>5 DEF vars, asked
<1> QED
  BY <1>2, <1>3, <1>4, <1>5, FitsKeptByCall, FitsKeptByRead, FitsKeptByDeath DEF Next

LEMMA InitFits == Init => MessagesFit
BY EmptySeq DEF Init, MessagesFit, ToSet

-----------------------------------------------------------------------------
(* Whom a transaction answers.  senderId is that of the message that came   *)
(* last; it is still that of the handler's call as long as the handler has  *)
(* done nothing, since a message is only read by a call.                    *)

\* A handler that something else was called from did something.
HandlersBusy(c) ==
  \A i \in DOMAIN stack[c] : i < Len(stack[c]) /\ stack[c][i].at = "handler" =>
    stack[c][i].did # "nothing"

SenderKnown(c) ==
  In(c, "handler") /\ Top(c).did = "nothing" =>
    /\ senderId[c] = calls[Top(c).n].caller
    /\ opcode[c] = "DCOPSend" <=> calls[Top(c).n].kind = "send"

SenderInv == \A c \in Client :
  /\ HandlersBusy(c) /\ SenderKnown(c)
  /\ \A t \in transactionList[c] : t.senderId = calls[t.n].caller

\* A step of c that adds no transaction is judged by the stack and the sender of c.
LEMMA SenderKept ==
  ASSUME TypeOK, Known, SenderInv, NEW c \in Client, CallsGrow,
         HandlersBusy(c)', SenderKnown(c)',
         \A d \in Client \ {c} : /\ stack'[d] = stack[d] /\ senderId'[d] = senderId[d]
                                 /\ opcode'[d] = opcode[d],
         \A d \in Client : transactionList'[d] \subseteq transactionList[d]
  PROVE  SenderInv'
<1>1. ASSUME NEW d \in Client \ {c} PROVE HandlersBusy(d)'
  BY DEF SenderInv, HandlersBusy
<1>2. ASSUME NEW d \in Client \ {c} PROVE SenderKnown(d)'
  <2> SUFFICES ASSUME In(d, "handler")', Top(d)'.did = "nothing"
               PROVE /\ senderId'[d] = calls'[Top(d)'.n].caller
                     /\ opcode'[d] = "DCOPSend" <=> calls'[Top(d)'.n].kind = "send"
    BY DEF SenderKnown
  <2>1. In(d, "handler") /\ Top(d)' = Top(d)
    BY DEF In, Top
  <2>2. Top(d).n \in DOMAIN calls
    BY <2>1, TopTyped DEF In, Idle
  <2>3. calls'[Top(d).n] = calls[Top(d).n]
    BY <2>2 DEF CallsGrow
  <2>4. SenderKnown(d)
    BY DEF SenderInv
  <2> QED
    BY <2>1, <2>3, <2>4 DEF SenderKnown
<1>3. ASSUME NEW d \in Client, NEW t \in transactionList'[d]
      PROVE t.senderId = calls'[t.n].caller
  BY DEF SenderInv, Known, CallsGrow
<1> QED
  BY <1>1, <1>2, <1>3 DEF SenderInv

LEMMA SenderKeptByIdling ==
  ASSUME TypeOK, Known, SenderInv, CallsGrow, UNCHANGED <<stack, senderId, opcode>>,
         \A d \in Client : transactionList'[d] \subseteq transactionList[d]
  PROVE  SenderInv'
<1> SUFFICES ASSUME NEW c \in Client PROVE SenderInv'
  BY DEF SenderInv
<1>1. HandlersBusy(c)'
  BY DEF SenderInv, HandlersBusy
<1>2. SenderKnown(c)'
  <2> SUFFICES ASSUME In(c, "handler")', Top(c)'.did = "nothing"
               PROVE /\ senderId'[c] = calls'[Top(c)'.n].caller
                     /\ opcode'[c] = "DCOPSend" <=> calls'[Top(c)'.n].kind = "send"
    BY DEF SenderKnown
  <2>1. In(c, "handler") /\ Top(c)' = Top(c)
    BY DEF In, Top
  <2>2. Top(c).n \in DOMAIN calls
    BY <2>1, TopTyped DEF In, Idle
  <2>3. calls'[Top(c).n] = calls[Top(c).n]
    BY <2>2 DEF CallsGrow
  <2>4. SenderKnown(c)
    BY DEF SenderInv
  <2> QED
    BY <2>1, <2>3, <2>4 DEF SenderKnown
<1> QED
  BY <1>1, <1>2, SenderKept

\* What is on top after a frame is pushed, and what is below it.
LEMMA Pushed ==
  ASSUME TypeOK, NEW c \in Client, NEW F \in Seq(Frame), NEW f \in Frame,
         Len(F) = Len(stack[c]), stack'[c] = Append(F, f)
  PROVE  /\ stack'[c] # << >> /\ Top(c)' = f /\ Len(stack'[c]) = Len(F) + 1 /\ Len(F) \in Nat
         /\ \A i \in DOMAIN stack'[c] : i < Len(stack'[c]) =>
              i \in DOMAIN stack[c] /\ stack'[c][i] = F[i]
<1>1. /\ DOMAIN Append(F, f) = 1 .. Len(F) + 1 /\ Append(F, f)[Len(F) + 1] = f
      /\ \A i \in 1 .. Len(F) : Append(F, f)[i] = F[i]
      /\ Len(F) \in Nat /\ Len(Append(F, f)) = Len(F) + 1
  BY AppendToSeq
<1>2. DOMAIN stack[c] = 1 .. Len(stack[c])
  BY LenProperties DEF TypeOK
<1>3. stack'[c] # << >>
  BY <1>1, EmptySeq
<1>4. Top(c)' = f
  BY <1>1 DEF Top
<1> QED
  BY <1>1, <1>2, <1>3, <1>4

LEMMA SenderKeptByCall ==
  ASSUME TypeOK, Known, SenderInv, NEW c \in Client, NEW d \in Client, NEW kind \in Kinds,
         call(c, d, kind)
  PROVE  SenderInv'
<1> DEFINE n == Len(calls) + 1
           key == IF currentKey[c] = None THEN c ELSE currentKey[c]
           info == [caller |-> c, callee |-> d, kind |-> kind, key |-> key]
           f == [at |-> "call", n |-> n, oldKey |-> currentKey[c], did |-> "nothing", seen |-> {}]
<1>1. key \in Keys /\ currentKey[c] \in Keys
  BY DEF TypeOK, Keys
<1>2. info \in CallInfo
  BY <1>1, KindAssumption DEF CallInfo, call
<1>3. /\ Len(calls) < MaxCalls /\ calls' = Append(calls, info)
      /\ stack' = [stack EXCEPT ![c] = Append(Calling(c), f)]
      /\ senderId' = senderId /\ opcode' = opcode /\ transactionList' = transactionList
  BY DEF call, MayCall
<1> HIDE DEF info
<1>4. CallsGrow /\ n \in CallNo
  BY <1>2, <1>3, CallTyped DEF CallsGrow
<1>5. f \in Frame /\ f.at = "call"
  BY <1>1, <1>4 DEF Frame
<1> HIDE DEF n, key, f
<1>6. stack'[c] = Append(Calling(c), f) /\ \A e \in Client \ {c} : stack'[e] = stack[e]
  BY <1>3 DEF TypeOK
<1>7. /\ Calling(c) \in Seq(Frame) /\ Len(Calling(c)) = Len(stack[c])
      /\ DOMAIN stack[c] = 1 .. Len(stack[c]) /\ Len(stack[c]) \in Nat
      /\ \A i \in DOMAIN stack[c] :
           /\ Calling(c)[i].at = stack[c][i].at
           /\ Calling(c)[i].did # "nothing" \/ Calling(c)[i].did = stack[c][i].did
           /\ i = Len(stack[c]) /\ stack[c][i].at = "handler" => Calling(c)[i].did # "nothing"
  BY CallingTyped
<1>8. /\ stack'[c] # << >> /\ Top(c)' = f /\ Len(stack'[c]) = Len(stack[c]) + 1
      /\ \A i \in DOMAIN stack'[c] : i < Len(stack'[c]) =>
           i \in DOMAIN stack[c] /\ stack'[c][i] = Calling(c)[i]
  BY <1>5, <1>6, <1>7, Pushed
<1>9. HandlersBusy(c)'
  <2> SUFFICES ASSUME NEW i \in DOMAIN stack'[c], i < Len(stack'[c]), stack'[c][i].at = "handler"
               PROVE stack'[c][i].did # "nothing"
    BY DEF HandlersBusy
  <2>1. i \in DOMAIN stack[c] /\ stack'[c][i] = Calling(c)[i] /\ stack[c][i].at = "handler"
    BY <1>7, <1>8
  <2>2. CASE i = Len(stack[c])
    BY <1>7, <2>1, <2>2
  <2>3. CASE i # Len(stack[c])
    <3>1. i < Len(stack[c])
      BY <1>7, <2>1, <2>3
    <3> QED
      BY <1>7, <2>1, <3>1 DEF SenderInv, HandlersBusy
  <2> QED
    BY <2>2, <2>3
<1>10. SenderKnown(c)'
  BY <1>5, <1>8 DEF SenderKnown, In
<1> QED
  BY <1>3, <1>4, <1>6, <1>9, <1>10, SenderKept

LEMMA SenderKeptBySend ==
  ASSUME TypeOK, Known, SenderInv, NEW c \in Client, NEW d \in Client, send(c, d)
  PROVE  SenderInv'
<1> DEFINE info == [caller |-> c, callee |-> d, kind |-> "send", key |-> "send"]
<1>1. info \in CallInfo
  BY DEF CallInfo, Keys
<1>2. /\ Len(calls) < MaxCalls /\ calls' = Append(calls, info)
      /\ stack' = [stack EXCEPT ![c] = Calling(c)]
      /\ senderId' = senderId /\ opcode' = opcode /\ transactionList' = transactionList
  BY DEF send, MayCall, current
<1> HIDE DEF info
<1>3. CallsGrow
  BY <1>1, <1>2, CallTyped DEF CallsGrow
<1>4. stack'[c] = Calling(c) /\ \A e \in Client \ {c} : stack'[e] = stack[e]
  BY <1>2 DEF TypeOK
<1>5. /\ Len(Calling(c)) = Len(stack[c]) /\ Calling(c) \in Seq(Frame)
      /\ Len(stack[c]) \in Nat /\ DOMAIN stack[c] = 1 .. Len(stack[c])
      /\ DOMAIN Calling(c) = DOMAIN stack[c]
      /\ \A i \in DOMAIN stack[c] :
           /\ Calling(c)[i].at = stack[c][i].at
           /\ Calling(c)[i].did # "nothing" \/ Calling(c)[i].did = stack[c][i].did
           /\ i = Len(stack[c]) /\ stack[c][i].at = "handler" => Calling(c)[i].did # "nothing"
  BY CallingTyped
<1>6. HandlersBusy(c)'
  BY <1>4, <1>5 DEF HandlersBusy, SenderInv
<1>7. SenderKnown(c)'
  <2> SUFFICES ASSUME In(c, "handler")' PROVE Top(c)'.did # "nothing"
    BY DEF SenderKnown
  <2>1. Len(stack'[c]) \in DOMAIN stack[c]
    BY <1>4, <1>5, EmptySeq DEF In
  <2> QED
    BY <1>4, <1>5, <2>1 DEF In, Top
<1> QED
  BY <1>2, <1>3, <1>4, <1>6, <1>7, SenderKept

LEMMA SenderKeptByPop ==
  ASSUME TypeOK, Known, SenderInv, NEW c \in Client, ~Idle(c), UNCHANGED <<calls, senderId, opcode>>,
         stack' = Pop(c), transactionList' = transactionList
  PROVE  SenderInv'
<1>1. CallsGrow
  BY DEF CallsGrow
<1>2. /\ DOMAIN stack'[c] = 1 .. Len(stack[c]) - 1 /\ Len(stack'[c]) = Len(stack[c]) - 1
      /\ \A i \in 1 .. Len(stack[c]) - 1 : stack'[c][i] = stack[c][i]
      /\ \A d \in Client \ {c} : stack'[d] = stack[d]
      /\ Len(stack[c]) \in Nat \ {0} /\ DOMAIN stack[c] = 1 .. Len(stack[c])
      /\ stack'[c] \in Seq(Frame)
  BY PopTyped, TopTyped
<1>3. ASSUME NEW i \in DOMAIN stack'[c], stack'[c][i].at = "handler"
      PROVE  stack'[c][i].did # "nothing"
  <2>1. i \in DOMAIN stack[c] /\ i < Len(stack[c]) /\ stack[c][i] = stack'[c][i]
    BY <1>2
  <2> QED
    BY <1>3, <2>1 DEF SenderInv, HandlersBusy
<1>4. HandlersBusy(c)'
  BY <1>3 DEF HandlersBusy
<1>5. SenderKnown(c)'
  <2> SUFFICES ASSUME In(c, "handler")' PROVE Top(c)'.did # "nothing"
    BY DEF SenderKnown
  <2>1. Len(stack'[c]) \in DOMAIN stack'[c]
    BY <1>2, EmptySeq DEF In
  <2> QED
    BY <1>3, <2>1 DEF In, Top
<1> QED
  BY <1>1, <1>2, <1>4, <1>5, SenderKept

\* A handler begins where no handler is innermost.
LEMMA SenderKeptByReceive ==
  ASSUME TypeOK, Known, SenderInv, NEW c \in Client, NEW n \in DOMAIN calls, UNCHANGED calls,
         transactionList' = transactionList, ~In(c, "handler"),
         NEW F \in Seq(Frame), Len(F) = Len(stack[c]),
         \A i \in DOMAIN stack[c] : /\ F[i].at = stack[c][i].at
                                    /\ i # Len(stack[c]) => F[i] = stack[c][i],
         Receive(c, n, F), opcode'[c] = "DCOPSend" <=> calls[n].kind = "send",
         \A d \in Client \ {c} : opcode'[d] = opcode[d]
  PROVE  SenderInv'
<1> DEFINE f == [at |-> "handler", n |-> n, oldKey |-> currentKey[c], did |-> "nothing", seen |-> {}]
<1>1. CallsGrow
  BY DEF CallsGrow
<1>2. f \in Frame /\ f.n = n
  <2>1. n \in CallNo /\ currentKey[c] \in Keys
    BY CallsTyped DEF TypeOK
  <2> QED
    BY <2>1 DEF Frame
<1>3. stack' = [stack EXCEPT ![c] = Append(F, f)]
      /\ senderId' = [senderId EXCEPT ![c] = calls[n].caller]
  BY DEF Receive
<1> HIDE DEF f
<1>4. stack'[c] = Append(F, f) /\ senderId'[c] = calls[n].caller
      /\ \A d \in Client \ {c} : /\ stack'[d] = stack[d] /\ senderId'[d] = senderId[d]
                                 /\ opcode'[d] = opcode[d]
  BY <1>3 DEF TypeOK
<1>5. /\ stack'[c] # << >> /\ Top(c)' = f /\ Len(stack'[c]) = Len(stack[c]) + 1
      /\ Len(stack[c]) \in Nat /\ DOMAIN stack[c] = 1 .. Len(stack[c])
      /\ \A i \in DOMAIN stack'[c] : i < Len(stack'[c]) =>
           i \in DOMAIN stack[c] /\ stack'[c][i] = F[i]
  <2>1. Len(stack[c]) \in Nat /\ DOMAIN stack[c] = 1 .. Len(stack[c])
    BY LenProperties DEF TypeOK
  <2>2. /\ stack'[c] # << >> /\ Top(c)' = f /\ Len(stack'[c]) = Len(F) + 1
        /\ \A i \in DOMAIN stack'[c] : i < Len(stack'[c]) =>
             i \in DOMAIN stack[c] /\ stack'[c][i] = F[i]
    BY <1>2, <1>4, Pushed
  <2> QED
    BY <2>1, <2>2
<1>6. HandlersBusy(c)'
  <2> SUFFICES ASSUME NEW i \in DOMAIN stack'[c], i < Len(stack'[c]), stack'[c][i].at = "handler"
               PROVE stack'[c][i].did # "nothing"
    BY DEF HandlersBusy
  <2>1. i \in DOMAIN stack[c] /\ stack'[c][i] = F[i] /\ stack[c][i].at = "handler"
    BY <1>5
  <2>2. i # Len(stack[c])
    <3>1. ASSUME i = Len(stack[c]) PROVE In(c, "handler")
      BY <2>1, <3>1, <1>5, EmptySeq DEF In, Top
    <3> QED
      BY <3>1
  <2>3. i < Len(stack[c]) /\ stack'[c][i] = stack[c][i]
    BY <1>5, <2>1, <2>2
  <2> QED
    BY <2>1, <2>3 DEF SenderInv, HandlersBusy
<1>7. SenderKnown(c)'
  BY <1>2, <1>4, <1>5 DEF SenderKnown
<1> QED
  BY <1>1, <1>4, <1>6, <1>7, SenderKept

LEMMA SenderKeptByRead ==
  ASSUME TypeOK, Known, MessagesFit, SenderInv, NEW c \in Client, Read(c)
  PROVE  SenderInv'
<1> DEFINE m == Head(toClient[c])
           n == m.n
<1>1. /\ n \in DOMAIN calls /\ UNCHANGED <<calls, transactionList>> /\ stack[c] \in Seq(Frame)
      /\ ~In(c, "handler") /\ opcode' = [opcode EXCEPT ![c] = m.op] /\ Fits(m)
  <2>1. toClient[c] \in Seq(Message) /\ toClient[c] # << >>
    BY DEF Read, MayRead, TypeOK
  <2>2. Head(toClient[c]) = toClient[c][1] /\ 1 \in DOMAIN toClient[c]
    BY <2>1, HeadTailProperties, LenProperties, EmptySeq
  <2>3. Fits(m)
    BY <2>2 DEF MessagesFit, ToSet
  <2> QED
    BY <2>2, <2>3 DEF Known, Read, MayRead, Idle, In, TypeOK
<1>2. UNCHANGED <<stack, senderId>>
      \/ (m.op \in {"DCOPCall", "DCOPSend"} /\ ReceiveOrPost(c, n))
  BY DEF Read
<1> HIDE DEF n, m
<1>3. ASSUME stack' = stack,
             \A d \in Client \ {c} : senderId'[d] = senderId[d]
      PROVE  SenderInv'
  <2>1. HandlersBusy(c)'
    BY <1>3 DEF SenderInv, HandlersBusy
  <2>2. SenderKnown(c)'
    BY <1>1, <1>3 DEF SenderKnown, In, Top
  <2>3. \A d \in Client \ {c} : /\ stack'[d] = stack[d] /\ senderId'[d] = senderId[d]
                                /\ opcode'[d] = opcode[d]
    BY <1>1, <1>3 DEF TypeOK
  <2> QED
    BY <1>1, <2>1, <2>2, <2>3, SenderKept DEF CallsGrow
<1>4. CASE m.op \in {"DCOPCall", "DCOPSend"} /\ ReceiveOrPost(c, n)
  <2>1. CASE currentKey[c] # None /\ calls[n].key # currentKey[c]
    <3>1. stack' = stack /\ senderId' = [senderId EXCEPT ![c] = calls[n].caller]
      BY <1>4, <2>1 DEF ReceiveOrPost
    <3> QED
      BY <1>3, <3>1 DEF TypeOK
  <2>2. CASE ~(currentKey[c] # None /\ calls[n].key # currentKey[c])
    <3>1. Receive(c, n, stack[c])
      BY <1>4, <2>2 DEF ReceiveOrPost
    <3>2. /\ opcode'[c] = "DCOPSend" <=> calls[n].kind = "send"
          /\ \A d \in Client \ {c} : opcode'[d] = opcode[d]
      BY <1>1, <1>4 DEF Fits, n, TypeOK
    <3> QED
      BY <1>1, <3>1, <3>2, SenderKeptByReceive
  <2> QED
    BY <2>1, <2>2
<1> QED
  BY <1>2, <1>3, <1>4

LEMMA SenderKeptByTimer ==
  ASSUME TypeOK, Known, SenderInv, NEW c \in Client, processPostedMessages(c)
  PROVE  SenderInv'
<1> DEFINE f == [at |-> "posted", n |-> 0, oldKey |-> None, did |-> "nothing", seen |-> {}]
<1>1. f \in Frame /\ f.at = "posted"
  BY DEF Frame, Keys
<1>2. stack' = stack \/ stack' = [stack EXCEPT ![c] = Append(stack[c], f)]
  BY DEF processPostedMessages, Push
<1>3. UNCHANGED <<senderId, opcode, transactionList>> /\ CallsGrow /\ stack[c] \in Seq(Frame)
      /\ ~In(c, "handler")
  BY DEF processPostedMessages, AtEventLoop, Idle, In, asked, current, CallsGrow, TypeOK
<1> HIDE DEF f
<1>4. CASE stack' = stack
  BY <1>3, <1>4, SenderKeptByIdling
<1>5. CASE stack' = [stack EXCEPT ![c] = Append(stack[c], f)]
  <2>1. stack'[c] = Append(stack[c], f) /\ \A d \in Client \ {c} : stack'[d] = stack[d]
    BY <1>5 DEF TypeOK
  <2>2. /\ Top(c)' = f /\ Len(stack'[c]) = Len(stack[c]) + 1
        /\ Len(stack[c]) \in Nat /\ DOMAIN stack[c] = 1 .. Len(stack[c])
        /\ \A i \in DOMAIN stack'[c] : i < Len(stack'[c]) =>
             i \in DOMAIN stack[c] /\ stack'[c][i] = stack[c][i]
    BY <1>1, <1>3, <2>1, Pushed, LenProperties DEF TypeOK
  <2>3. HandlersBusy(c)'
    <3> SUFFICES ASSUME NEW i \in DOMAIN stack'[c], i < Len(stack'[c]),
                        stack'[c][i].at = "handler"
                 PROVE stack'[c][i].did # "nothing"
      BY DEF HandlersBusy
    <3>1. i \in DOMAIN stack[c] /\ stack'[c][i] = stack[c][i]
      BY <2>2
    <3>2. i # Len(stack[c])
      <4>1. ASSUME i = Len(stack[c]) PROVE In(c, "handler")
        BY <3>1, <4>1, <2>2, EmptySeq DEF In, Top
      <4> QED
        BY <4>1, <1>3
    <3>3. i < Len(stack[c])
      BY <2>2, <3>1, <3>2
    <3> QED
      BY <3>1, <3>3 DEF SenderInv, HandlersBusy
  <2>4. SenderKnown(c)'
    BY <1>1, <2>2 DEF SenderKnown, In
  <2> QED
    BY <1>3, <2>1, <2>3, <2>4, SenderKept
<1> QED
  BY <1>2, <1>4, <1>5

LEMMA SenderKeptByProcessPosted ==
  ASSUME TypeOK, Known, SenderInv, NEW c \in Client, ProcessPosted(c)
  PROVE  SenderInv'
<1> DEFINE fits == {i \in DOMAIN messages[c] : /\ messages[c][i] \notin Top(c).seen
                                               /\ currentKey[c] \in {None, calls[messages[c][i]].key}}
           k == First(fits)
           n == messages[c][k]
           f == [Top(c) EXCEPT !.seen = @ \union {messages[c][j] : j \in 1 .. k - 1}]
<1>1. ~Idle(c) /\ Top(c) \in Frame /\ Top(c).at = "posted" /\ ~In(c, "handler")
      /\ UNCHANGED <<calls, transactionList>>
  <2>1. ~Idle(c)
    BY DEF ProcessPosted, In, Idle
  <2> QED
    BY <2>1, TopTyped DEF ProcessPosted, In, asked
<1>2. messages[c] \in Seq(CallNo) /\ Len(messages[c]) \in Nat
      /\ DOMAIN messages[c] = 1 .. Len(messages[c])
      /\ messages[c] \in [1 .. Len(messages[c]) -> CallNo]
  BY LenProperties DEF TypeOK
<1>3. CASE fits = {}
  <2>1. stack' = Pop(c) /\ senderId' = senderId /\ opcode' = opcode
    BY <1>3 DEF ProcessPosted
  <2> QED
    BY <1>1, <2>1, SenderKeptByPop
<1>4. CASE fits # {}
  <2>1. k \in fits
    <3>1. fits \subseteq 1 .. Len(messages[c])
      BY <1>2
    <3> HIDE DEF fits
    <3> QED
      BY <1>2, <1>4, <3>1, FirstIsThere
  <2>2. n \in DOMAIN calls /\ k \in DOMAIN messages[c]
    BY <2>1 DEF Known
  <2>3. /\ messages' = [messages EXCEPT ![c] = RemoveAt(messages[c], k)]
        /\ opcode' = [opcode EXCEPT ![c] = IF calls[n].kind = "send" THEN "DCOPSend" ELSE "DCOPCall"]
        /\ Receive(c, n, ReplaceTop(c, f)) /\ UNCHANGED postMessageTimer
    BY <1>4, Zenon DEF ProcessPosted
  <2>4. f \in Frame /\ f.at = Top(c).at /\ f.n = Top(c).n
    <3> HIDE DEF k, n, fits
    <3>1. {messages[c][j] : j \in 1 .. k - 1} \subseteq CallNo
      <4>1. k \in 1 .. Len(messages[c])
        BY <1>2, <2>2
      <4> QED
        BY <1>2, <4>1, ElementsBefore, Zenon
    <3> QED
      BY <1>1, <3>1 DEF Frame
  <2> HIDE DEF k, n, f, fits
  <2>5. /\ ReplaceTop(c, f) \in Seq(Frame) /\ Len(ReplaceTop(c, f)) = Len(stack[c])
        /\ \A i \in DOMAIN stack[c] :
             /\ ReplaceTop(c, f)[i].at = stack[c][i].at
             /\ i # Len(stack[c]) => ReplaceTop(c, f)[i] = stack[c][i]
    BY <1>1, <2>4, ReplaceTopTyped
  <2>6. PICK op : op = IF calls[n].kind = "send" THEN "DCOPSend" ELSE "DCOPCall"
    OBVIOUS
  <2>7. /\ opcode'[c] = "DCOPSend" <=> calls[n].kind = "send"
        /\ \A d \in Client \ {c} : opcode'[d] = opcode[d]
    BY <2>3, <2>6 DEF TypeOK
  <2> QED
    BY <1>1, <2>2, <2>3, <2>5, <2>7, SenderKeptByReceive
<1> QED
  BY <1>3, <1>4

\* A handler that has called nobody delays its answer: senderId is its caller.
LEMMA SenderKeptByBeginTransaction ==
  ASSUME ~CallsAndDelays, TypeOK, Known, SenderInv, NEW c \in Client, beginTransaction(c)
  PROVE  SenderInv'
<1> DEFINE f == [Top(c) EXCEPT !.did = "delayed"]
           t == [id |-> transactionId'[c], senderId |-> senderId[c], n |-> Top(c).n]
<1>1. ~Idle(c) /\ In(c, "handler") /\ UNCHANGED <<calls, senderId, opcode>>
      /\ stack' = [stack EXCEPT ![c] = ReplaceTop(c, f)]
      /\ transactionList' = [transactionList EXCEPT ![c] = transactionList[c] \union {t}]
  BY DEF beginTransaction, In, Idle, asked
<1>2. /\ stack[c] # << >> /\ Len(stack[c]) \in Nat \ {0} /\ DOMAIN stack[c] = 1 .. Len(stack[c])
      /\ Top(c) \in Frame /\ Top(c).n \in DOMAIN calls
  BY <1>1, TopTyped DEF In
<1>3. Top(c).did = "nothing"
  BY <1>2 DEF beginTransaction, Frame
<1>4. f \in Frame /\ f.at = Top(c).at /\ f.n = Top(c).n /\ f.did = "delayed"
  BY <1>2 DEF Frame
<1>5. t.senderId = calls[t.n].caller
  BY <1>1, <1>3 DEF SenderInv, SenderKnown
<1> HIDE DEF f, t
<1>6. /\ Len(ReplaceTop(c, f)) = Len(stack[c]) /\ DOMAIN ReplaceTop(c, f) = DOMAIN stack[c]
      /\ \A i \in DOMAIN stack[c] : i # Len(stack[c]) => ReplaceTop(c, f)[i] = stack[c][i]
      /\ ReplaceTop(c, f)[Len(stack[c])] = f
  BY <1>1, <1>4, ReplaceTopTyped
<1>7. stack'[c] = ReplaceTop(c, f) /\ \A d \in Client \ {c} : stack'[d] = stack[d]
  BY <1>1 DEF TypeOK
<1>8. HandlersBusy(c)'
  BY <1>2, <1>6, <1>7 DEF HandlersBusy, SenderInv
<1>9. SenderKnown(c)'
  <2>1. Top(c)' = f
    BY <1>6, <1>7 DEF Top
  <2> QED
    BY <1>4, <2>1 DEF SenderKnown
<1>10. ASSUME NEW d \in Client \ {c} PROVE HandlersBusy(d)' /\ SenderKnown(d)'
  BY <1>1, <1>7, <1>10 DEF SenderInv, HandlersBusy, SenderKnown, In, Top
<1>11. ASSUME NEW d \in Client, NEW u \in transactionList'[d]
       PROVE  u.senderId = calls'[u.n].caller
  <2>1. u \in transactionList[d] \/ u = t
    BY <1>1 DEF TypeOK
  <2> QED
    BY <1>1, <1>5, <2>1 DEF SenderInv
<1> QED
  BY <1>8, <1>9, <1>10, <1>11 DEF SenderInv

LEMMA SenderKeptByDeath ==
  ASSUME TypeOK, Known, SenderInv, NEW c \in Client, Die(c)
  PROVE  SenderInv'
<1>1. /\ CallsGrow /\ stack'[c] = << >>
      /\ \A d \in Client \ {c} : /\ stack'[d] = stack[d] /\ senderId'[d] = senderId[d]
                                 /\ opcode'[d] = opcode[d]
      /\ \A d \in Client : transactionList'[d] \subseteq transactionList[d]
  BY DEF Die, asked, current, CallsGrow, TypeOK
<1>2. HandlersBusy(c)' /\ SenderKnown(c)'
  BY <1>1, EmptySeq DEF HandlersBusy, SenderKnown, In
<1> QED
  BY <1>1, <1>2, SenderKept

LEMMA StepKeepsSenders ==
  ~CallsAndDelays /\ TypeOK /\ Known /\ MessagesFit /\ SenderInv /\ [Next]_vars => SenderInv'
<1> SUFFICES ASSUME ~CallsAndDelays, TypeOK, Known, MessagesFit, SenderInv, [Next]_vars
             PROVE  SenderInv'
  OBVIOUS
<1>1. CASE UNCHANGED vars
  BY <1>1, SenderKeptByIdling DEF vars, asked, current, CallsGrow
<1>2. ASSUME NEW c \in Client, Return(c) \/ TimeOut(c) \/ HandlerReturns(c) PROVE SenderInv'
  <2>1. ~Idle(c) /\ UNCHANGED <<calls, senderId, opcode, transactionList>> /\ stack' = Pop(c)
    BY <1>2 DEF Return, TimeOut, HandlerReturns, In, Idle, asked, current
  <2> QED
    BY <2>1, SenderKeptByPop
<1>3. ASSUME NEW c \in Client, NEW t \in transactionList[c], endTransaction(c, t)
      PROVE SenderInv'
  <2>1. \A d \in Client : transactionList'[d] \subseteq transactionList[d]
    BY <1>3 DEF endTransaction, TypeOK
  <2> QED
    BY <1>3, <2>1, SenderKeptByIdling DEF endTransaction, asked, current, CallsGrow
<1> QED
  BY <1>1, <1>2, <1>3, SenderKeptByCall, SenderKeptBySend, SenderKeptByRead, SenderKeptByTimer,
     SenderKeptByProcessPosted, SenderKeptByBeginTransaction, SenderKeptByDeath DEF Next

\* If no handler both calls and delays its answer, every transaction answers the
\* client whose call began it, although beginTransaction() takes the sender of
\* the message that came last.
THEOREM ClientTransactions == ~CallsAndDelays => (Spec => []TransactionsKnowTheirCaller)
<1> SUFFICES ASSUME ~CallsAndDelays PROVE Spec => []TransactionsKnowTheirCaller
  OBVIOUS
<1>1. Init => TypeOK /\ Known /\ MessagesFit /\ SenderInv
  <2>1. Init => SenderInv
    BY EmptySeq DEF Init, SenderInv, HandlersBusy, SenderKnown, In
  <2> QED
    BY <2>1, InitTyped, InitFits
<1>2. /\ TypeOK /\ Known /\ MessagesFit /\ SenderInv
      /\ [Next]_vars
      => (TypeOK /\ Known /\ MessagesFit /\ SenderInv)'
  BY StepTyped, StepKeepsFits, StepKeepsSenders
<1>3. SenderInv => TransactionsKnowTheirCaller
  BY DEF SenderInv, TransactionsKnowTheirCaller
<1> QED
  BY <1>1, <1>2, <1>3, PTL DEF Spec
=============================================================================
