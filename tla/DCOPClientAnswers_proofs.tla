----------------------- MODULE DCOPClientAnswers_proofs -----------------------
(* Proofs about DCOPClient: every answer finds the call it answers, and      *)
(* every request is handled and answered once.  For the first, where a       *)
(* request or its answer is, what its callee still owes and what its caller  *)
(* knows of it are one joint invariant of all clients.                       *)
EXTENDS DCOPClient_proofs

-----------------------------------------------------------------------------
(* Sequences without repetitions and the sets of their elements.           *)

\* No element is twice in the sequence s.
Once(s) == \A i, j \in DOMAIN s : s[i] = s[j] => i = j

\* That an answer is delayed is told before the answer.
WaitFirst(s) ==
  \A i, j \in DOMAIN s :
    s[i].op = "DCOPReplyWait" /\ s[j].op = "DCOPReplyDelayed" /\ s[i].n = s[j].n => i < j

LEMMA InToSet ==
  ASSUME NEW s, NEW D, DOMAIN s = D, NEW x
  PROVE  x \in ToSet(s) <=> \E i \in D : s[i] = x
BY DEF ToSet

LEMMA Appended ==
  ASSUME NEW S, NEW s \in Seq(S), NEW e \in S
  PROVE  /\ ToSet(Append(s, e)) = ToSet(s) \union {e}
         /\ Once(s) /\ e \notin ToSet(s) => Once(Append(s, e))
<1> DEFINE a == Append(s, e)
           l == Len(s)
<1>1. /\ l \in Nat /\ DOMAIN a = 1 .. l + 1 /\ DOMAIN s = 1 .. l
      /\ \A i \in 1 .. l : a[i] = s[i]
      /\ a[l + 1] = e
  BY AppendToSeq
<1> HIDE DEF a, l
<1>2. \A i : i \in 1 .. l + 1 <=> i \in 1 .. l \/ i = l + 1
  BY <1>1
<1>3. l + 1 \notin 1 .. l
  BY <1>1
<1>4. ToSet(a) = ToSet(s) \union {e}
  <2> SUFFICES ASSUME NEW x PROVE x \in ToSet(a) <=> x \in ToSet(s) \/ x = e
    OBVIOUS
  <2>1. x \in ToSet(a) <=> \E i \in 1 .. l + 1 : a[i] = x
    BY <1>1, InToSet
  <2>2. x \in ToSet(s) <=> \E i \in 1 .. l : a[i] = x
    BY <1>1, InToSet
  <2> QED
    BY <1>1, <1>2, <2>1, <2>2, Zenon
<1>5. ASSUME Once(s), e \notin ToSet(s), NEW i \in DOMAIN a, NEW j \in DOMAIN a, a[i] = a[j]
      PROVE  i = j
  <2>1. \A k \in 1 .. l : a[k] # e
    BY <1>1, <1>5, InToSet
  <2>2. CASE i \in 1 .. l /\ j \in 1 .. l
    BY <1>1, <1>5, <2>2, Zenon DEF Once
  <2> QED
    BY <1>1, <1>2, <1>5, <2>1, <2>2, Zenon
<1> QED
  BY <1>4, <1>5, Zenon DEF Once, a

LEMMA WaitFirstAppended ==
  ASSUME NEW s \in Seq(Message), NEW m \in Message, WaitFirst(s),
         m.op = "DCOPReplyWait" => \A x \in ToSet(s) : ~(x.op = "DCOPReplyDelayed" /\ x.n = m.n)
  PROVE  WaitFirst(Append(s, m))
<1> DEFINE a == Append(s, m)
           l == Len(s)
<1>1. /\ l \in Nat /\ DOMAIN a = 1 .. l + 1 /\ DOMAIN s = 1 .. l
      /\ \A i \in 1 .. l : a[i] = s[i]
      /\ a[l + 1] = m
  BY AppendToSeq
<1> HIDE DEF a, l
<1>2. \A i : i \in 1 .. l + 1 <=> i \in 1 .. l \/ i = l + 1
  BY <1>1
<1>3. ASSUME NEW i \in DOMAIN a, NEW j \in DOMAIN a,
             a[i].op = "DCOPReplyWait", a[j].op = "DCOPReplyDelayed", a[i].n = a[j].n
      PROVE  i < j
  <2>1. CASE i \in 1 .. l /\ j \in 1 .. l
    BY <1>1, <1>3, <2>1, Zenon DEF WaitFirst
  <2>2. CASE j = l + 1 /\ i \in 1 .. l
    BY <1>1, <2>2
  <2>3. CASE i = l + 1
    <3>1. j \in 1 .. l \/ a[j] = m
      BY <1>1, <1>2, Zenon
    <3>2. a[i] = m
      BY <1>1, <2>3
    <3>3. j \in 1 .. l
      BY <3>1, <3>2, <1>3
    <3>4. a[j] \in ToSet(s)
      BY <1>1, <3>3, InToSet
    <3> QED
      BY <1>3, <3>2, <3>4, Zenon
  <2> QED
    BY <1>1, <1>2, <2>1, <2>2, <2>3, Zenon
<1> QED
  BY <1>3, Zenon DEF WaitFirst, a

LEMMA Tailed ==
  ASSUME NEW S, NEW s \in Seq(S), s # << >>, Once(s)
  PROVE  /\ Head(s) \in ToSet(s) /\ Head(s) \in S
         /\ ToSet(Tail(s)) = ToSet(s) \ {Head(s)} /\ Once(Tail(s))
<1> DEFINE t == Tail(s)
           l == Len(s)
<1>1. /\ l \in Nat \ {0} /\ DOMAIN s = 1 .. l /\ DOMAIN t = 1 .. l - 1
      /\ Head(s) = s[1] /\ \A i \in 1 .. l - 1 : t[i] = s[i + 1]
      /\ Head(s) \in S
  <2>1. t \in Seq(S) /\ Len(t) = l - 1 /\ \A i \in 1 .. l - 1 : t[i] = s[i + 1]
    BY HeadTailProperties
  <2> QED
    BY <2>1, HeadTailProperties, LenProperties, EmptySeq
<1> HIDE DEF t, l
<1>2. /\ 1 \in 1 .. l
      /\ \A i : i \in 1 .. l /\ i # 1 => i - 1 \in 1 .. l - 1 /\ (i - 1) + 1 = i
      /\ \A i \in 1 .. l - 1 : i + 1 \in 1 .. l /\ i + 1 # 1
      /\ \A i, j \in 1 .. l - 1 : i + 1 = j + 1 => i = j
  BY <1>1
<1>3. Head(s) \in ToSet(s)
  BY <1>1, <1>2, InToSet
<1>4. ASSUME NEW x \in ToSet(t) PROVE x \in ToSet(s) /\ x # Head(s)
  <2>1. PICK i \in 1 .. l - 1 : t[i] = x
    BY <1>1, InToSet
  <2>2. i + 1 \in 1 .. l /\ i + 1 # 1 /\ s[i + 1] = x
    BY <1>1, <1>2, <2>1, Zenon
  <2>3. x \in ToSet(s)
    BY <1>1, <2>2, InToSet
  <2>4. x # Head(s)
    BY <1>1, <1>2, <2>2, Zenon DEF Once
  <2> QED
    BY <2>3, <2>4
<1>5. ASSUME NEW x \in ToSet(s), x # Head(s) PROVE x \in ToSet(t)
  <2>1. PICK i \in 1 .. l : s[i] = x
    BY <1>1, InToSet
  <2>2. i # 1
    BY <1>1, <1>5, <2>1, Zenon
  <2>3. i - 1 \in 1 .. l - 1 /\ (i - 1) + 1 = i
    BY <1>2, <2>2, Zenon
  <2>4. t[i - 1] = x
    BY <1>1, <2>1, <2>3, Zenon
  <2> QED
    BY <1>1, <2>3, <2>4, InToSet
<1>6. Once(t)
  <2> SUFFICES ASSUME NEW i \in 1 .. l - 1, NEW j \in 1 .. l - 1, t[i] = t[j] PROVE i = j
    BY <1>1, Zenon DEF Once
  <2>1. s[i + 1] = s[j + 1] /\ i + 1 \in 1 .. l /\ j + 1 \in 1 .. l
    BY <1>1, <1>2, Zenon
  <2>2. i + 1 = j + 1
    BY <1>1, <2>1, Zenon DEF Once
  <2> QED
    BY <1>2, <2>2, Zenon
<1> QED
  BY <1>1, <1>3, <1>4, <1>5, <1>6, Zenon DEF t

\* The first message of a queue; a delayed answer is first only when the message before it
\* is gone.
LEMMA WaitFirstTailed ==
  ASSUME NEW s \in Seq(Message), s # << >>, WaitFirst(s)
  PROVE  /\ WaitFirst(Tail(s))
         /\ Head(s).op = "DCOPReplyDelayed" =>
              \A x \in ToSet(s) : ~(x.op = "DCOPReplyWait" /\ x.n = Head(s).n)
<1> DEFINE t == Tail(s)
           l == Len(s)
<1>1. /\ l \in Nat \ {0} /\ DOMAIN s = 1 .. l /\ DOMAIN t = 1 .. l - 1
      /\ Head(s) = s[1] /\ \A i \in 1 .. l - 1 : t[i] = s[i + 1]
  <2>1. t \in Seq(Message) /\ Len(t) = l - 1 /\ \A i \in 1 .. l - 1 : t[i] = s[i + 1]
    BY HeadTailProperties
  <2> QED
    BY <2>1, HeadTailProperties, LenProperties, EmptySeq
<1> HIDE DEF t, l
<1>2. /\ 1 \in 1 .. l /\ \A i \in 1 .. l : ~(i < 1)
      /\ \A i \in 1 .. l - 1 : i + 1 \in 1 .. l
      /\ \A i, j \in 1 .. l - 1 : i + 1 < j + 1 => i < j
  BY <1>1
<1>3. ASSUME NEW i \in 1 .. l - 1, NEW j \in 1 .. l - 1,
             t[i].op = "DCOPReplyWait", t[j].op = "DCOPReplyDelayed", t[i].n = t[j].n
      PROVE  i < j
  <2>1. i + 1 \in 1 .. l /\ j + 1 \in 1 .. l /\ t[i] = s[i + 1] /\ t[j] = s[j + 1]
    BY <1>1, <1>2, Zenon
  <2>2. i + 1 < j + 1
    BY <1>1, <1>3, <2>1, Zenon DEF WaitFirst
  <2> QED
    BY <1>2, <2>2, Zenon
<1>4. ASSUME Head(s).op = "DCOPReplyDelayed", NEW x \in ToSet(s),
             x.op = "DCOPReplyWait", x.n = Head(s).n
      PROVE  FALSE
  <2>1. PICK i \in 1 .. l : s[i] = x
    BY <1>1, InToSet
  <2>2. i < 1
    BY <1>1, <1>2, <1>4, <2>1, Zenon DEF WaitFirst
  <2> QED
    BY <1>2, <2>2, Zenon
<1>5. WaitFirst(t)
  BY <1>1, <1>3, Zenon DEF WaitFirst
<1> QED
  BY <1>4, <1>5, Zenon DEF t

\* The places of what is left when place i of s is removed.
LEMMA RemoveAtPlaces ==
  ASSUME NEW S, NEW s \in Seq(S), NEW i \in DOMAIN s
  PROVE  /\ Len(s) \in Nat /\ DOMAIN s = 1 .. Len(s) /\ i \in 1 .. Len(s)
         /\ RemoveAt(s, i) \in Seq(S) /\ DOMAIN RemoveAt(s, i) = 1 .. Len(s) - 1
         /\ \A j \in 1 .. Len(s) - 1 : RemoveAt(s, i)[j] = IF j < i THEN s[j] ELSE s[j + 1]
<1> DEFINE f == SubSeq(s, 1, i - 1)
           g == SubSeq(s, i + 1, Len(s))
           l == Len(s)
<1>1. DOMAIN s = 1 .. l /\ l \in Nat /\ i \in 1 .. l
  BY LenProperties
<1>2. /\ f \in Seq(S) /\ Len(f) = i - 1 /\ \A j \in 1 .. i - 1 : f[j] = s[j]
  BY <1>1, SubSeqProperties
<1>3. /\ g \in Seq(S) /\ Len(g) = l - i /\ \A j \in 1 .. l - i : g[j] = s[i + j]
  BY <1>1, SubSeqProperties
<1>4. /\ f \o g \in Seq(S) /\ Len(f \o g) = Len(f) + Len(g)
      /\ \A j \in 1 .. Len(f) + Len(g) :
           (f \o g)[j] = IF j <= Len(f) THEN f[j] ELSE g[j - Len(f)]
  BY <1>2, <1>3, ConcatProperties
<1> HIDE DEF f, g, l
<1>5. Len(f) + Len(g) = l - 1
  BY <1>1, <1>2, <1>3
<1>6. ASSUME NEW j \in 1 .. l - 1
      PROVE (f \o g)[j] = IF j < i THEN s[j] ELSE s[j + 1]
  <2>1. CASE j < i
    <3>1. j <= Len(f) /\ j \in 1 .. i - 1
      BY <1>1, <1>2, <2>1
    <3>2. (f \o g)[j] = f[j] /\ f[j] = s[j]
      BY <1>2, <1>4, <1>5, <3>1
    <3> QED
      BY <2>1, <3>2
  <2>2. CASE ~(j < i)
    <3>1. ~(j <= Len(f)) /\ j - Len(f) \in 1 .. l - i /\ i + (j - Len(f)) = j + 1
      BY <1>1, <1>2, <2>2
    <3>2. (f \o g)[j] = g[j - Len(f)]
      BY <1>4, <1>5, <3>1
    <3>3. g[j - Len(f)] = s[i + (j - Len(f))]
      BY <1>3, <3>1
    <3>4. s[i + (j - Len(f))] = s[j + 1]
      BY <3>1
    <3> QED
      BY <2>2, <3>2, <3>3, <3>4
  <2> QED
    BY <2>1, <2>2
<1>7. DOMAIN (f \o g) = 1 .. l - 1
  BY <1>4, <1>5, LenProperties
<1>8. f \o g = RemoveAt(s, i) /\ l = Len(s)
  BY DEF RemoveAt, f, g, l
<1> QED
  BY <1>1, <1>4, <1>6, <1>7, <1>8

LEMMA Removed ==
  ASSUME NEW S, NEW s \in Seq(S), NEW i \in DOMAIN s, Once(s)
  PROVE  ToSet(RemoveAt(s, i)) = ToSet(s) \ {s[i]} /\ Once(RemoveAt(s, i))
<1> DEFINE r == RemoveAt(s, i)
           l == Len(s)
           from(j) == IF j < i THEN j ELSE j + 1
<1>1. /\ l \in Nat /\ DOMAIN s = 1 .. l /\ i \in 1 .. l /\ DOMAIN r = 1 .. l - 1
      /\ \A j \in 1 .. l - 1 : r[j] = IF j < i THEN s[j] ELSE s[j + 1]
  BY RemoveAtPlaces
<1> HIDE DEF r, l
<1>2. ASSUME NEW j \in 1 .. l - 1
      PROVE  from(j) \in 1 .. l /\ from(j) # i /\ r[j] = s[from(j)]
  BY <1>1
<1>3. ASSUME NEW j \in 1 .. l - 1, NEW k \in 1 .. l - 1, from(j) = from(k) PROVE j = k
  BY <1>1, <1>3
<1>4. ASSUME NEW k \in 1 .. l, k # i PROVE \E j \in 1 .. l - 1 : from(j) = k
  <2>1. CASE k < i
    <3>1. k \in 1 .. l - 1 /\ from(k) = k
      BY <1>1, <2>1
    <3> QED
      BY <3>1
  <2>2. CASE ~(k < i)
    <3>1. k - 1 \in 1 .. l - 1 /\ from(k - 1) = k
      BY <1>1, <1>4, <2>2
    <3> QED
      BY <3>1
  <2> QED
    BY <2>1, <2>2
<1> HIDE DEF from
<1>5. ASSUME NEW x \in ToSet(r) PROVE x \in ToSet(s) /\ x # s[i]
  <2>1. PICK j \in 1 .. l - 1 : r[j] = x
    BY <1>1, InToSet
  <2>2. from(j) \in 1 .. l /\ from(j) # i /\ x = s[from(j)]
    BY <1>2, <2>1
  <2>3. x \in ToSet(s)
    BY <1>1, <2>2, InToSet
  <2>4. x # s[i]
    BY <1>1, <2>2, Zenon DEF Once
  <2> QED
    BY <2>3, <2>4
<1>6. ASSUME NEW x \in ToSet(s), x # s[i] PROVE x \in ToSet(r)
  <2>1. PICK k \in 1 .. l : s[k] = x
    BY <1>1, InToSet
  <2>2. k # i
    BY <1>6, <2>1
  <2>3. PICK j \in 1 .. l - 1 : from(j) = k
    BY <1>4, <2>2
  <2>4. r[j] = x
    BY <1>2, <2>1, <2>3
  <2> QED
    BY <1>1, <2>4, InToSet
<1>7. Once(r)
  <2> SUFFICES ASSUME NEW j \in 1 .. l - 1, NEW k \in 1 .. l - 1, r[j] = r[k] PROVE j = k
    BY <1>1, Zenon DEF Once
  <2>1. s[from(j)] = s[from(k)] /\ from(j) \in 1 .. l /\ from(k) \in 1 .. l
    BY <1>2
  <2>2. from(j) = from(k)
    BY <1>1, <2>1, Zenon DEF Once
  <2> QED
    BY <1>3, <2>2
<1> QED
  BY <1>5, <1>6, <1>7 DEF r

\* The one element of a sequence, and a sequence that has one.
LEMMA Single ==
  ASSUME NEW x
  PROVE  /\ <<x>> # << >> /\ ToSet(<<x>>) = {x} /\ <<x>>[1] = x /\ Tail(<<x>>) = << >>
         /\ Append(<< >>, x) = <<x>> /\ ToSet(<< >>) = {}
<1>1. ToSet(<<x>>) = {x}
  BY DEF ToSet
<1>2. ToSet(<< >>) = {}
  BY DEF ToSet
<1> QED
  BY <1>1, <1>2

-----------------------------------------------------------------------------
(* Where a call is.                                                        *)

Wire(c) == ToSet(toClient[c])
Requests == {"DCOPCall", "DCOPSend"}

\* The calls that the frames of one kind in s are about; each has one frame; there is
\* but one such frame.
Numbers(s, place) == {s[i].n : i \in {j \in DOMAIN s : s[j].at = place}}
OnceAt(s, place) ==
  \A i, j \in DOMAIN s : s[i].at = place /\ s[j].at = place /\ s[i].n = s[j].n => i = j
AloneAt(s, place) == \A i, j \in DOMAIN s : s[i].at = place /\ s[j].at = place => i = j

Handled(c) == Numbers(stack[c], "handler")
Opened(c) == Numbers(stack[c], "call")

\* The caller of n is told, when it reads what is on its way, that the answer is delayed
\* and gets that number; the delayed answer is on its way; the callee has yet
\* to send it.
Told(n, id) ==
  \E m \in Wire(calls[n].caller) : m.n = n /\ m.op = "DCOPReplyWait" /\ m.tid = id
Late(n, id) ==
  \E m \in Wire(calls[n].caller) : m.n = n /\ m.op = "DCOPReplyDelayed" /\ m.tid = id
Owed(n, id) == \E t \in transactionList[calls[n].callee] : t.n = n /\ t.id = id
Promised(n, id) == Owed(n, id) \/ Late(n, id)

\* A message that fails a request whose callee died before it promised a later answer.
FailsIt(m) == m.op = "DCOPReplyFailed" /\ m.tid = 0

\* Where the request n is, or its first answer.
Places == {"asked", "posted", "handled", "replied", "failed", "told"}
At(n, p) ==
  \/ p = "asked" /\ \E m \in Wire(calls[n].callee) : m.n = n /\ m.op \in Requests
  \/ p = "posted" /\ n \in ToSet(messages[calls[n].callee])
  \/ p = "handled" /\ n \in Handled(calls[n].callee)
  \/ p = "replied" /\ \E m \in Wire(calls[n].caller) : m.n = n /\ m.op = "DCOPReply"
  \/ p = "failed" /\ \E m \in Wire(calls[n].caller) : m.n = n /\ FailsIt(m)
  \/ p = "told" /\ \E m \in Wire(calls[n].caller) : m.n = n /\ m.op = "DCOPReplyWait"

\* The messages on the way to a client are requests to it and answers to it, none is
\* there twice.
MessagePlaced(c, m) ==
  /\ m.op \in Requests =>
       /\ calls[m.n].callee = c /\ m.from = calls[m.n].caller /\ m.tid = 0
       /\ m.op = IF calls[m.n].kind = "send" THEN "DCOPSend" ELSE "DCOPCall"
  /\ m.op \notin Requests =>
       /\ calls[m.n].caller = c /\ m.from = calls[m.n].callee /\ calls[m.n].kind # "send"
       /\ m.op = "DCOPReply" => m.tid = 0
  /\ m.op = "DCOPReplyFailed" =>
       m.from \in dead /\ (m.tid = 0 \/ (m.tid = 1 /\ m.n \in abandoned))

WireInv ==
  \A c \in Client :
    /\ \A m \in Wire(c) : MessagePlaced(c, m)
    /\ Once(toClient[c]) /\ WaitFirst(toClient[c])

PostedInv ==
  \A c \in Client : Once(messages[c]) /\ \A n \in ToSet(messages[c]) : calls[n].callee = c

\* A client handles a request in one frame and has one call open.
StackInv ==
  \A c \in Client :
    /\ OnceAt(stack[c], "handler") /\ OnceAt(stack[c], "call") /\ AloneAt(stack[c], "call")
    /\ \A n \in Handled(c) : calls[n].callee = c
    /\ \A n \in Opened(c) : calls[n].caller = c /\ calls[n].kind # "send"

OwedInv ==
  \A c \in Client : \A t \in transactionList[c] :
    calls[t.n].callee = c /\ calls[t.n].kind # "send"

WaitsInv ==
  \A c \in Client : \A n \in ToSet(waits[c]) \union ToSet(pendingReplies[c]) :
    n \in DOMAIN calls /\ calls[n].caller = c /\ calls[n].kind # "send"

\* A handler that delays its answer has a transaction, the one that its return
\* looks at; no other handler has one.
DelayOf(c) ==
  \A i \in DOMAIN stack[c] : stack[c][i].at = "handler" =>
    IF stack[c][i].did = "delayed"
      THEN /\ i = Len(stack[c]) /\ transaction[c]
           /\ \E t \in transactionList[c] : t.n = stack[c][i].n /\ t.id = transactionId[c]
      ELSE ~transaction[c] /\ \A t \in transactionList[c] : t.n # stack[c][i].n

DelayInv == \A c \in Client : DelayOf(c)

\* Nobody is left who promised an answer to n, or who waits for it.
Lost(n) == n \in abandoned \/ calls[n].caller \in dead

\* A request is in one place, and then its answer; what is told is promised, unless it is
\* lost; what is promised has one number and is owed until it is late.
OwnLife(n) ==
  /\ \A p, q \in Places : At(n, p) /\ At(n, q) => p = q
  /\ \A id \in Nat : Told(n, id) => Promised(n, id) \/ Lost(n)
  /\ \A id \in Nat : Promised(n, id) =>
       /\ 0 < id /\ id <= transactionId[calls[n].callee]
       /\ \A p \in Places : At(n, p) => p \in {"handled", "told"}
       /\ Late(n, id) => ~At(n, "handled") /\ ~Owed(n, id)
       /\ \A x \in Nat : Promised(n, x) => x = id

\* A client promises no two answers under one number.
Life ==
  /\ \A n \in DOMAIN calls : OwnLife(n)
  /\ \A n, k \in DOMAIN calls : \A id \in Nat :
       Promised(n, id) /\ Promised(k, id) /\ calls[n].callee = calls[k].callee => n = k

\* What a client that did not give up knows of its call.
KnownOf(n) ==
  /\ rs[n].of \in {0, n}
  /\ n \in ToSet(pendingReplies[calls[n].caller]) <=> rs[n].tid \notin {0, -1}
  /\ calls[n].kind # "send" /\ ~Complete(n) => n \in Opened(calls[n].caller)
  /\ rs[n].tid # -1 => \A p \in Places : ~At(n, p)
  /\ rs[n].tid \in Nat \union {-1}
  /\ \A id \in Nat \ {0} : rs[n].tid = id =>
       Promised(n, id) /\ rs[n].calledApp = calls[n].callee
  /\ \A id \in Nat : Promised(n, id) => rs[n].tid = id \/ Told(n, id) \/ At(n, "handled")

\* It waits for nothing or for its open call.
WaitsRight(c) ==
  waits[c] = << >> \/ \E n \in Opened(c) : waits[c] = <<n>> /\ ~Complete(n)

AwaitedBy(c) ==
  /\ WaitsRight(c) /\ Once(pendingReplies[c])
  /\ \A n \in DOMAIN calls : calls[n].caller = c => KnownOf(n)

Awaited ==
  /\ \A n \in CallNo : n \notin DOMAIN calls => rs[n] = NoReply
  /\ \A c \in Client : ~GaveUp(c) => AwaitedBy(c)

AnswerInv ==
  /\ WireInv /\ PostedInv /\ StackInv /\ OwedInv /\ WaitsInv /\ DelayInv
  /\ Life /\ Awaited

-----------------------------------------------------------------------------
(* What a step keeps.  It moves one request or answer: all else is where it *)
(* was, and what was called and who is dead stays so.                      *)

Grows ==
  /\ DOMAIN calls \subseteq DOMAIN calls' /\ \A n \in DOMAIN calls : calls'[n] = calls[n]
  /\ dead \subseteq dead' /\ abandoned \subseteq abandoned'

\* The lengths and the elements that sets of places speak of.
LEMMA Elements ==
  ASSUME TypeOK, Known, NEW c \in Client
  PROVE  /\ Wire(c) \subseteq Message /\ \A m \in Wire(c) : m.n \in DOMAIN calls
         /\ ToSet(messages[c]) \subseteq DOMAIN calls
         /\ Handled(c) \subseteq DOMAIN calls /\ Opened(c) \subseteq DOMAIN calls
         /\ transactionList[c] \subseteq Transaction
         /\ \A t \in transactionList[c] : t.n \in DOMAIN calls
         /\ DOMAIN calls \subseteq CallNo
<1>1. Wire(c) \subseteq Message /\ \A m \in Wire(c) : m.n \in DOMAIN calls
  <2>1. toClient[c] \in [1 .. Len(toClient[c]) -> Message]
        /\ DOMAIN toClient[c] = 1 .. Len(toClient[c])
    BY LenProperties DEF TypeOK
  <2> QED
    BY <2>1 DEF Wire, ToSet, Known
<1>2. ToSet(messages[c]) \subseteq DOMAIN calls
  BY DEF ToSet, Known
<1>3. Handled(c) \subseteq DOMAIN calls /\ Opened(c) \subseteq DOMAIN calls
  BY DEF Handled, Opened, Numbers, Known
<1>4. transactionList[c] \subseteq Transaction /\ \A t \in transactionList[c] : t.n \in DOMAIN calls
  BY DEF TypeOK, Known
<1>5. DOMAIN calls \subseteq CallNo
  BY CallsTyped
<1> QED
  BY <1>1, <1>2, <1>3, <1>4, <1>5

LEMMA Parties ==
  ASSUME TypeOK, NEW n \in DOMAIN calls
  PROVE  calls[n].caller \in Client /\ calls[n].callee \in Client /\ n \in CallNo
BY CallsTyped DEF CallInfo

Same(n) ==
  /\ \A p \in Places : At(n, p)' <=> At(n, p)
  /\ \A id \in Nat : /\ Told(n, id)' <=> Told(n, id)
                     /\ Owed(n, id)' <=> Owed(n, id)
                     /\ Late(n, id)' <=> Late(n, id)

LEMMA ToldIsThere ==
  ASSUME NEW n, NEW id, Told(n, id)
  PROVE  At(n, "told") /\ "told" \in Places
BY DEF Told, At, Places

\* What changes is about the call n.
OnlyAbout(n) ==
  \A c \in Client :
    /\ \A m \in Message : m.n # n => (m \in Wire(c)' <=> m \in Wire(c))
    /\ \A k \in CallNo : k # n =>
         /\ k \in ToSet(messages[c])' <=> k \in ToSet(messages[c])
         /\ k \in Handled(c)' <=> k \in Handled(c)
    /\ \A t \in Transaction : t.n # n => (t \in transactionList[c]' <=> t \in transactionList[c])

LEMMA SameElsewhere ==
  ASSUME TypeOK, Known, TypeOK', Known', Grows, NEW n, OnlyAbout(n),
         NEW k \in DOMAIN calls, k # n
  PROVE  Same(k)
<1> DEFINE a == calls[k].caller
           b == calls[k].callee
<1>1. a \in Client /\ b \in Client /\ k \in CallNo /\ calls'[k] = calls[k]
  BY Parties DEF Grows
<1>2. calls'[k].caller = a /\ calls'[k].callee = b
  BY <1>1
<1> HIDE DEF a, b
<1>3. ASSUME NEW c \in Client
      PROVE  /\ \A m : m.n = k => (m \in Wire(c)' <=> m \in Wire(c))
             /\ k \in ToSet(messages[c])' <=> k \in ToSet(messages[c])
             /\ k \in Handled(c)' <=> k \in Handled(c)
             /\ \A t : t.n = k => (t \in transactionList[c]' <=> t \in transactionList[c])
  <2>1. Wire(c) \subseteq Message /\ transactionList[c] \subseteq Transaction
    BY Elements
  <2>2. Wire(c)' \subseteq Message /\ transactionList'[c] \subseteq Transaction
    <3>1. toClient'[c] \in [1 .. Len(toClient'[c]) -> Message]
      BY LenProperties DEF TypeOK
    <3>2. transactionList'[c] \subseteq Transaction
      BY DEF TypeOK
    <3>3. Wire(c)' \subseteq Message
      BY <3>1 DEF Wire, ToSet
    <3> QED
      BY <3>2, <3>3
  <2> QED
    BY <1>1, <2>1, <2>2 DEF OnlyAbout
<1>4. ASSUME NEW p \in Places PROVE At(k, p)' <=> At(k, p)
  BY <1>1, <1>2, <1>3, Zenon DEF At, a, b
<1>5. ASSUME NEW id \in Nat
      PROVE  /\ Told(k, id)' <=> Told(k, id)
             /\ Owed(k, id)' <=> Owed(k, id)
             /\ Late(k, id)' <=> Late(k, id)
  BY <1>1, <1>2, <1>3, Zenon DEF Told, Owed, Late, a, b
<1> QED
  BY <1>4, <1>5, Zenon DEF Same

LEMMA OwnLifeKept ==
  ASSUME TypeOK, TypeOK', Grows, NEW k \in DOMAIN calls, Same(k), OwnLife(k),
         \A c \in Client : transactionId[c] <= transactionId'[c]
  PROVE  OwnLife(k)' /\ \A id \in Nat : Promised(k, id)' <=> Promised(k, id)
<1>1. \A id \in Nat : Promised(k, id)' <=> Promised(k, id)
  BY DEF Same, Promised
<1>2. calls'[k].callee = calls[k].callee /\ calls[k].callee \in Client
  BY Parties DEF Grows
<1>3. ASSUME NEW id \in Nat, id <= transactionId[calls[k].callee]
      PROVE  id <= transactionId'[calls'[k].callee]
  BY <1>2, <1>3 DEF TypeOK
<1>4. "handled" \in Places
  BY DEF Places
<1>5. \A p, q \in Places : At(k, p)' /\ At(k, q)' => p = q
  BY Zenon DEF OwnLife, Same
<1>6. \A id \in Nat : Told(k, id)' => Promised(k, id)' \/ Lost(k)'
  <2>1. Lost(k) => Lost(k)'
    BY Zenon DEF Lost, Grows
  <2> QED
    BY <1>1, <2>1, Zenon DEF OwnLife, Same
<1>7. ASSUME NEW id \in Nat, Promised(k, id)'
      PROVE  /\ 0 < id /\ id <= transactionId'[calls'[k].callee]
             /\ \A p \in Places : At(k, p)' => p \in {"handled", "told"}
             /\ Late(k, id)' => ~At(k, "handled")' /\ ~Owed(k, id)'
             /\ \A x \in Nat : Promised(k, x)' => x = id
  <2>1. Promised(k, id)
    BY <1>1, <1>7, Zenon
  <2>2. /\ 0 < id /\ id <= transactionId[calls[k].callee]
        /\ \A p \in Places : At(k, p) => p \in {"handled", "told"}
        /\ Late(k, id) => ~At(k, "handled") /\ ~Owed(k, id)
        /\ \A x \in Nat : Promised(k, x) => x = id
    BY <2>1, Zenon DEF OwnLife
  <2>3. id <= transactionId'[calls'[k].callee]
    BY <1>3, <2>2, Zenon
  <2> QED
    BY <1>1, <1>4, <2>2, <2>3, Zenon DEF Same
<1>8. OwnLife(k)'
  BY <1>5, <1>6, <1>7, Zenon DEF OwnLife
<1> QED
  BY <1>1, <1>8

\* Only what happens to the call n that a step moves has to be looked at.
LEMMA LifeKept ==
  ASSUME TypeOK, Known, TypeOK', Known', Grows, Life, NEW n, OnlyAbout(n),
         DOMAIN calls' \subseteq DOMAIN calls \union {n},
         \A c \in Client : transactionId[c] <= transactionId'[c],
         n \in DOMAIN calls' =>
           /\ OwnLife(n)'
           /\ \A id \in Nat : Promised(n, id)' =>
                (n \in DOMAIN calls /\ Promised(n, id)) \/ ~(id <= transactionId[calls'[n].callee])
  PROVE  Life'
<1>1. ASSUME NEW k \in DOMAIN calls, k # n
      PROVE  OwnLife(k)' /\ \A id \in Nat : Promised(k, id)' <=> Promised(k, id)
  <2>1. Same(k) /\ OwnLife(k)
    BY <1>1, SameElsewhere DEF Life
  <2> QED
    BY <2>1, OwnLifeKept
<1>2. ASSUME NEW k \in DOMAIN calls' PROVE OwnLife(k)'
  BY <1>1, Zenon
<1>3. ASSUME NEW k \in DOMAIN calls, k # n, NEW id \in Nat, Promised(k, id)',
             n \in DOMAIN calls', Promised(n, id)', calls'[n].callee = calls'[k].callee
      PROVE  FALSE
  <2>1. Promised(k, id) /\ calls'[k] = calls[k]
    BY <1>1, <1>3, Zenon DEF Grows
  <2>2. OwnLife(k)
    BY DEF Life
  <2>3. id <= transactionId[calls'[n].callee]
    BY <1>3, <2>1, <2>2, Zenon DEF OwnLife
  <2>4. n \in DOMAIN calls /\ Promised(n, id)
    BY <1>3, <2>3, Zenon
  <2>5. calls'[n] = calls[n]
    BY <2>4, Zenon DEF Grows
  <2>6. calls[n].callee = calls[k].callee
    BY <1>3, <2>1, <2>5, Zenon
  <2> QED
    BY <1>3, <2>1, <2>4, <2>6, Zenon DEF Life
<1>4. ASSUME NEW k \in DOMAIN calls', NEW l \in DOMAIN calls', NEW id \in Nat,
             Promised(k, id)', Promised(l, id)', calls'[k].callee = calls'[l].callee
      PROVE  k = l
  <2>1. CASE k # n /\ l # n
    <3>1. k \in DOMAIN calls /\ l \in DOMAIN calls
      BY <2>1, Zenon
    <3>2. calls'[k] = calls[k] /\ calls'[l] = calls[l]
      BY <3>1, Zenon DEF Grows
    <3>3. Promised(k, id) /\ Promised(l, id)
      BY <1>1, <1>4, <2>1, <3>1, Zenon
    <3>4. calls[k].callee = calls[l].callee
      BY <1>4, <3>2, Zenon
    <3> QED
      BY <3>1, <3>3, <3>4, Zenon DEF Life
  <2>2. CASE k = n /\ l # n
    BY <1>3, <1>4, <2>2, Zenon
  <2>3. CASE k # n /\ l = n
    BY <1>3, <1>4, <2>3, Zenon
  <2> QED
    BY <2>1, <2>2, <2>3, Zenon
<1> QED
  BY <1>2, <1>4, Zenon DEF Life

\* A client gives up for good.
LEMMA GivenUp ==
  ASSUME Grows, NEW c \in Client, GaveUp(c),
         \A n \in DOMAIN calls : rs[n].failed => rs'[n].failed
  PROVE  GaveUp(c)'
BY Zenon DEF GaveUp, TimedOut, Abandoned, Grows

LEMMA KnownKept ==
  ASSUME TypeOK, Grows, NEW k \in DOMAIN calls, Same(k), KnownOf(k), rs'[k] = rs[k],
         NEW c, c = calls[k].caller,
         k \in ToSet(pendingReplies[c])' <=> k \in ToSet(pendingReplies[c]),
         k \in Opened(c) => k \in Opened(c)' \/ Complete(k)
  PROVE  KnownOf(k)'
<1>1. calls'[k] = calls[k] /\ calls'[k].caller = c
  BY DEF Grows
<1>2. \A id \in Nat : Promised(k, id)' <=> Promised(k, id)
  BY DEF Same, Promised
<1>3. Complete(k)' <=> Complete(k)
  BY <1>1 DEF Complete, Async
<1>4. "handled" \in Places
  BY DEF Places
<1>5. /\ rs[k].of \in {0, k}
      /\ k \in ToSet(pendingReplies[c]) <=> rs[k].tid \notin {0, -1}
      /\ calls[k].kind # "send" /\ ~Complete(k) => k \in Opened(c)
      /\ rs[k].tid # -1 => \A p \in Places : ~At(k, p)
      /\ rs[k].tid \in Nat \union {-1}
      /\ \A id \in Nat \ {0} : rs[k].tid = id =>
           Promised(k, id) /\ rs[k].calledApp = calls[k].callee
      /\ \A id \in Nat : Promised(k, id) => rs[k].tid = id \/ Told(k, id) \/ At(k, "handled")
  BY DEF KnownOf
<1>6. /\ rs'[k].of \in {0, k}
      /\ rs'[k].tid # -1 => \A p \in Places : ~At(k, p)'
  BY <1>5, Zenon DEF Same
<1>7. k \in ToSet(pendingReplies[c])' <=> rs'[k].tid \notin {0, -1}
  BY <1>5
<1>8. calls'[k].kind # "send" /\ ~Complete(k)' => k \in Opened(c)'
  BY <1>1, <1>3, <1>5, Zenon
<1>9. /\ rs'[k].tid \in Nat \union {-1}
      /\ \A id \in Nat \ {0} : rs'[k].tid = id =>
           Promised(k, id)' /\ rs'[k].calledApp = calls'[k].callee
  BY <1>1, <1>2, <1>5
<1>10. \A id \in Nat : Promised(k, id)' => rs'[k].tid = id \/ Told(k, id)' \/ At(k, "handled")'
  BY <1>2, <1>4, <1>5, Zenon DEF Same
<1> QED
  BY <1>1, <1>6, <1>7, <1>8, <1>9, <1>10 DEF KnownOf

\* So is what clients know that did not give up, but of n.
LEMMA AwaitedKept ==
  ASSUME TypeOK, Known, TypeOK', Known', Grows, Awaited, NEW n, OnlyAbout(n),
         DOMAIN calls' \subseteq DOMAIN calls \union {n},
         \A k \in CallNo : k \notin DOMAIN calls' => rs'[k] = NoReply,
         \A k \in DOMAIN calls : rs[k].failed => rs'[k].failed,
         \A c \in Client : ~GaveUp(c) /\ ~GaveUp(c)' =>
           /\ WaitsRight(c)' /\ Once(pendingReplies[c])'
           /\ \A k \in DOMAIN calls : calls[k].caller = c /\ k # n =>
                /\ rs'[k] = rs[k]
                /\ k \in ToSet(pendingReplies[c])' <=> k \in ToSet(pendingReplies[c])
                /\ k \in Opened(c) => k \in Opened(c)' \/ Complete(k)
           /\ n \in DOMAIN calls' /\ calls'[n].caller = c => KnownOf(n)'
  PROVE  Awaited'
<1>1. ASSUME NEW c \in Client, ~GaveUp(c)' PROVE AwaitedBy(c)'
  <2>1. ~GaveUp(c) /\ AwaitedBy(c)
    BY <1>1, GivenUp DEF Awaited
  <2>2. /\ WaitsRight(c)' /\ Once(pendingReplies[c])'
        /\ \A k \in DOMAIN calls : calls[k].caller = c /\ k # n =>
             /\ rs'[k] = rs[k]
             /\ k \in ToSet(pendingReplies[c])' <=> k \in ToSet(pendingReplies[c])
             /\ k \in Opened(c) => k \in Opened(c)' \/ Complete(k)
        /\ n \in DOMAIN calls' /\ calls'[n].caller = c => KnownOf(n)'
    BY <1>1, <2>1, Zenon
  <2>3. ASSUME NEW k \in DOMAIN calls', calls'[k].caller = c PROVE KnownOf(k)'
    <3>1. CASE k = n
      BY <2>2, <2>3, <3>1, Zenon
    <3>2. CASE k # n
      <4>1. k \in DOMAIN calls /\ calls'[k] = calls[k]
        BY <3>2, Zenon DEF Grows
      <4>2. calls[k].caller = c /\ c = calls[k].caller
        BY <2>3, <4>1
      <4>3. Same(k) /\ KnownOf(k)
        BY <2>1, <3>2, <4>1, <4>2, SameElsewhere DEF AwaitedBy
      <4>4. /\ rs'[k] = rs[k]
            /\ k \in ToSet(pendingReplies[c])' <=> k \in ToSet(pendingReplies[c])
            /\ k \in Opened(c) => k \in Opened(c)' \/ Complete(k)
        BY <2>2, <3>2, <4>1, <4>2, Zenon
      <4> QED
        BY <4>1, <4>2, <4>3, <4>4, KnownKept
    <3> QED
      BY <3>1, <3>2
  <2> QED
    BY <2>2, <2>3, Zenon DEF AwaitedBy
<1> QED
  BY <1>1, Zenon DEF Awaited

\* Waits and pending replies, as long as those of no client get another call.
LEMMA WaitsKept ==
  ASSUME Grows, WaitsInv,
         \A c \in Client : \A n \in ToSet(waits[c])' \union ToSet(pendingReplies[c])' :
           \/ n \in ToSet(waits[c]) \union ToSet(pendingReplies[c])
           \/ n \in DOMAIN calls /\ calls[n].caller = c /\ calls[n].kind # "send"
  PROVE  WaitsInv'
<1> SUFFICES ASSUME NEW c \in Client,
                    NEW n \in ToSet(waits[c])' \union ToSet(pendingReplies[c])'
             PROVE  n \in DOMAIN calls' /\ calls'[n].caller = c /\ calls'[n].kind # "send"
  BY DEF WaitsInv
<1>1. n \in DOMAIN calls /\ calls[n].caller = c /\ calls[n].kind # "send"
  BY Zenon DEF WaitsInv
<1>2. n \in DOMAIN calls' /\ calls'[n] = calls[n]
  BY <1>1, Zenon DEF Grows
<1> QED
  BY <1>1, <1>2

-----------------------------------------------------------------------------
(* What is on its way.                                                     *)

LEMMA MessageStays ==
  ASSUME Grows, NEW c, NEW m, m.n \in DOMAIN calls, MessagePlaced(c, m)
  PROVE  MessagePlaced(c, m)'
<1>1. calls'[m.n] = calls[m.n]
  BY DEF Grows
<1>2. m.op = "DCOPReplyFailed" =>
        m.from \in dead' /\ (m.tid = 0 \/ (m.tid = 1 /\ m.n \in abandoned'))
  BY Zenon DEF Grows, MessagePlaced
<1> QED
  BY <1>1, <1>2, Zenon DEF MessagePlaced

LEMMA WireKept ==
  ASSUME TypeOK, Known, WireInv, Grows, toClient' = toClient
  PROVE  WireInv' /\ \A c \in Client : Wire(c)' = Wire(c)
<1>1. \A c \in Client : Wire(c)' = Wire(c)
  BY DEF Wire
<1>2. ASSUME NEW c \in Client, NEW m \in Wire(c)' PROVE MessagePlaced(c, m)'
  <2>1. m \in Wire(c) /\ m.n \in DOMAIN calls
    BY <1>1, <1>2, Elements
  <2> QED
    BY <2>1, MessageStays DEF WireInv
<1> QED
  BY <1>1, <1>2 DEF WireInv

\* A message is sent that is not on its way yet.
LEMMA WireSent ==
  ASSUME TypeOK, Known, WireInv, Grows, NEW d \in Client, NEW m \in Message,
         Appends(toClient, toClient', d, m), MessagePlaced(d, m)', m \notin Wire(d),
         m.op = "DCOPReplyWait" => \A x \in Wire(d) : ~(x.op = "DCOPReplyDelayed" /\ x.n = m.n)
  PROVE  /\ WireInv'
         /\ \A e \in Client : Wire(e)' = IF e = d THEN Wire(d) \union {m} ELSE Wire(e)
<1>1. toClient' = [toClient EXCEPT ![d] = Append(toClient[d], m)]
  BY DEF Appends
<1>3. toClient \in [Client -> Seq(Message)]
  BY DEF TypeOK
<1>4. toClient'[d] = Append(toClient[d], m) /\ \A e \in Client \ {d} : toClient'[e] = toClient[e]
  BY <1>1, <1>3
<1>5. toClient[d] \in Seq(Message) /\ Once(toClient[d]) /\ WaitFirst(toClient[d])
  BY <1>3 DEF WireInv
<1>6. ToSet(toClient'[d]) = Wire(d) \union {m} /\ Once(toClient'[d])
  BY <1>4, <1>5, Appended DEF Wire
<1>7. WaitFirst(toClient'[d])
  BY <1>4, <1>5, WaitFirstAppended DEF Wire
<1>8. ASSUME NEW e \in Client PROVE Wire(e)' = IF e = d THEN Wire(d) \union {m} ELSE Wire(e)
  <2>1. CASE e = d
    <3>1. Wire(e)' = ToSet(toClient'[d])
      BY <2>1 DEF Wire
    <3> QED
      BY <1>6, <2>1, <3>1
  <2>2. CASE e # d
    BY <1>4, <2>2 DEF Wire
  <2> QED
    BY <2>1, <2>2
<1>9. ASSUME NEW e \in Client, NEW x \in Wire(e)' PROVE MessagePlaced(e, x)'
  <2>1. CASE x \in Wire(e)
    <3>1. x.n \in DOMAIN calls /\ MessagePlaced(e, x)
      BY <2>1, Elements DEF WireInv
    <3> QED
      BY <3>1, MessageStays
  <2>2. CASE x \notin Wire(e)
    <3>1. e = d /\ x = m
      BY <1>8, <1>9, <2>2
    <3> QED
      BY <3>1
  <2> QED
    BY <2>1, <2>2
<1>10. \A e \in Client : Once(toClient'[e]) /\ WaitFirst(toClient'[e])
  BY <1>4, <1>6, <1>7 DEF WireInv
<1> QED
  BY <1>8, <1>9, <1>10, Zenon DEF WireInv

\* A message is read.
LEMMA WireRead ==
  ASSUME TypeOK, Known, WireInv, Grows, NEW c \in Client, toClient[c] # << >>,
         toClient' = [toClient EXCEPT ![c] = Tail(toClient[c])],
         NEW m, m = Head(toClient[c])
  PROVE  /\ WireInv' /\ m \in Wire(c) /\ m \in Message
         /\ \A e \in Client : Wire(e)' = IF e = c THEN Wire(c) \ {m} ELSE Wire(e)
         /\ m.op = "DCOPReplyDelayed" => \A x \in Wire(c) : ~(x.op = "DCOPReplyWait" /\ x.n = m.n)
<1>1. toClient \in [Client -> Seq(Message)] /\ toClient[c] \in Seq(Message)
  BY DEF TypeOK
<1>2. toClient'[c] = Tail(toClient[c]) /\ \A e \in Client \ {c} : toClient'[e] = toClient[e]
  BY <1>1
<1>3. Once(toClient[c]) /\ WaitFirst(toClient[c])
  BY DEF WireInv
<1>4. m \in Wire(c) /\ m \in Message /\ ToSet(toClient'[c]) = Wire(c) \ {m} /\ Once(toClient'[c])
  BY <1>1, <1>2, <1>3, Tailed DEF Wire
<1>5. /\ WaitFirst(toClient'[c])
      /\ m.op = "DCOPReplyDelayed" => \A x \in Wire(c) : ~(x.op = "DCOPReplyWait" /\ x.n = m.n)
  BY <1>1, <1>2, <1>3, WaitFirstTailed DEF Wire
<1>6. ASSUME NEW e \in Client PROVE Wire(e)' = IF e = c THEN Wire(c) \ {m} ELSE Wire(e)
  <2>1. CASE e = c
    <3>1. Wire(e)' = ToSet(toClient'[c])
      BY <2>1 DEF Wire
    <3> QED
      BY <1>4, <2>1, <3>1
  <2>2. CASE e # c
    BY <1>2, <2>2 DEF Wire
  <2> QED
    BY <2>1, <2>2
<1>7. ASSUME NEW e \in Client, NEW x \in Wire(e)' PROVE MessagePlaced(e, x)'
  <2>1. x \in Wire(e)
    BY <1>6, <1>7
  <2>2. x.n \in DOMAIN calls /\ MessagePlaced(e, x)
    BY <2>1, Elements DEF WireInv
  <2> QED
    BY <2>2, MessageStays
<1>8. \A e \in Client : Once(toClient'[e]) /\ WaitFirst(toClient'[e])
  BY <1>2, <1>4, <1>5 DEF WireInv
<1> QED
  BY <1>4, <1>5, <1>6, <1>7, <1>8, Zenon DEF WireInv

-----------------------------------------------------------------------------
(* Frames and posted messages.                                             *)

LEMMA InNumbers ==
  ASSUME NEW s, NEW place, NEW D, DOMAIN s = D, NEW x
  PROVE  x \in Numbers(s, place) <=> \E i \in D : s[i].at = place /\ s[i].n = x
BY DEF Numbers

\* A sequence of frames like another one.
Alike(s, t) ==
  DOMAIN t = DOMAIN s /\ \A i \in DOMAIN s : t[i].at = s[i].at /\ t[i].n = s[i].n

LEMMA NumbersAlike ==
  ASSUME NEW s, NEW t, Alike(s, t), NEW place
  PROVE  /\ Numbers(t, place) = Numbers(s, place)
         /\ OnceAt(s, place) => OnceAt(t, place)
         /\ AloneAt(s, place) => AloneAt(t, place)
<1>1. ASSUME NEW x PROVE x \in Numbers(t, place) <=> x \in Numbers(s, place)
  <2>1. x \in Numbers(t, place) <=> \E i \in DOMAIN s : t[i].at = place /\ t[i].n = x
    BY InNumbers DEF Alike
  <2>2. x \in Numbers(s, place) <=> \E i \in DOMAIN s : s[i].at = place /\ s[i].n = x
    BY InNumbers
  <2> QED
    BY <2>1, <2>2 DEF Alike
<1>2. OnceAt(s, place) => OnceAt(t, place)
  BY DEF OnceAt, Alike
<1>3. AloneAt(s, place) => AloneAt(t, place)
  BY DEF AloneAt, Alike
<1> QED
  BY <1>1, <1>2, <1>3

LEMMA NumbersAdded ==
  ASSUME NEW s \in Seq(Frame), NEW F \in Seq(Frame), Alike(s, F), NEW f \in Frame, NEW place
  PROVE  /\ Numbers(Append(F, f), place) =
              IF f.at = place THEN Numbers(s, place) \union {f.n} ELSE Numbers(s, place)
         /\ OnceAt(s, place) /\ (f.at = place => f.n \notin Numbers(s, place)) =>
              OnceAt(Append(F, f), place)
         /\ AloneAt(s, place) /\ (f.at = place => Numbers(s, place) = {}) =>
              AloneAt(Append(F, f), place)
<1> DEFINE t == Append(F, f)
           l == Len(F)
<1>1. /\ l \in Nat /\ DOMAIN t = 1 .. l + 1 /\ DOMAIN F = 1 .. l
      /\ \A i \in 1 .. l : t[i] = F[i]
      /\ t[l + 1] = f
  BY AppendToSeq
<1> HIDE DEF t, l
<1>2. \A i : i \in 1 .. l + 1 <=> i \in 1 .. l \/ i = l + 1
  BY <1>1
<1>3. /\ Numbers(F, place) = Numbers(s, place)
      /\ OnceAt(s, place) => OnceAt(F, place)
      /\ AloneAt(s, place) => AloneAt(F, place)
  BY NumbersAlike
<1>4. ASSUME NEW x
      PROVE  x \in Numbers(t, place) <=> x \in Numbers(F, place) \/ (f.at = place /\ x = f.n)
  <2>1. x \in Numbers(t, place) <=> \E i \in 1 .. l + 1 : t[i].at = place /\ t[i].n = x
    BY <1>1, InNumbers
  <2>2. x \in Numbers(F, place) <=> \E i \in 1 .. l : F[i].at = place /\ F[i].n = x
    BY <1>1, InNumbers
  <2> QED
    BY <1>1, <1>2, <2>1, <2>2
<1>5. \A i \in 1 .. l : F[i].at = place => F[i].n \in Numbers(s, place)
  BY <1>1, <1>3, InNumbers
<1>6. ASSUME OnceAt(s, place), f.at = place => f.n \notin Numbers(s, place),
             NEW i \in DOMAIN t, NEW j \in DOMAIN t,
             t[i].at = place, t[j].at = place, t[i].n = t[j].n
      PROVE  i = j
  <2>1. CASE i \in 1 .. l /\ j \in 1 .. l
    BY <1>1, <1>3, <1>6, <2>1 DEF OnceAt
  <2>2. CASE i \in 1 .. l /\ j = l + 1
    BY <1>1, <1>5, <1>6, <2>2
  <2>3. CASE j \in 1 .. l /\ i = l + 1
    BY <1>1, <1>5, <1>6, <2>3
  <2> QED
    BY <1>1, <1>2, <2>1, <2>2, <2>3
<1>7. ASSUME AloneAt(s, place), f.at = place => Numbers(s, place) = {},
             NEW i \in DOMAIN t, NEW j \in DOMAIN t, t[i].at = place, t[j].at = place
      PROVE  i = j
  <2>1. CASE i \in 1 .. l /\ j \in 1 .. l
    BY <1>1, <1>3, <1>7, <2>1 DEF AloneAt
  <2>2. CASE i \in 1 .. l /\ j = l + 1
    BY <1>1, <1>5, <1>7, <2>2
  <2>3. CASE j \in 1 .. l /\ i = l + 1
    BY <1>1, <1>5, <1>7, <2>3
  <2> QED
    BY <1>1, <1>2, <2>1, <2>2, <2>3
<1>8. Numbers(t, place) = IF f.at = place THEN Numbers(s, place) \union {f.n} ELSE Numbers(s, place)
  BY <1>3, <1>4
<1>9. OnceAt(s, place) /\ (f.at = place => f.n \notin Numbers(s, place)) => OnceAt(t, place)
  BY <1>6, Zenon DEF OnceAt
<1>10. AloneAt(s, place) /\ (f.at = place => Numbers(s, place) = {}) => AloneAt(t, place)
  BY <1>7, Zenon DEF AloneAt
<1> QED
  BY <1>8, <1>9, <1>10 DEF t

LEMMA NumbersTaken ==
  ASSUME NEW s \in Seq(Frame), s # << >>, NEW f, f = s[Len(s)], NEW place, OnceAt(s, place)
  PROVE  /\ Numbers(Front(s), place) =
              IF f.at = place THEN Numbers(s, place) \ {f.n} ELSE Numbers(s, place)
         /\ f.at = place => f.n \in Numbers(s, place)
         /\ OnceAt(Front(s), place)
         /\ AloneAt(s, place) => AloneAt(Front(s), place)
<1> DEFINE t == Front(s)
           l == Len(s)
<1>1. /\ l \in Nat \ {0} /\ DOMAIN t = 1 .. l - 1 /\ DOMAIN s = 1 .. l
      /\ \A i \in 1 .. l - 1 : t[i] = s[i]
      /\ s[l] = f
  BY FrontOfSeq, LenProperties
<1> HIDE DEF t, l
<1>2. /\ \A i : i \in 1 .. l <=> i \in 1 .. l - 1 \/ i = l
      /\ l \notin 1 .. l - 1
  BY <1>1
<1>3. ASSUME NEW x
      PROVE  /\ x \in Numbers(s, place) <=> x \in Numbers(t, place) \/ (f.at = place /\ x = f.n)
             /\ f.at = place /\ x \in Numbers(t, place) => x # f.n
  <2>1. x \in Numbers(t, place) <=> \E i \in 1 .. l - 1 : s[i].at = place /\ s[i].n = x
    BY <1>1, InNumbers
  <2>2. x \in Numbers(s, place) <=> \E i \in 1 .. l : s[i].at = place /\ s[i].n = x
    BY <1>1, InNumbers
  <2>3. x \in Numbers(s, place) <=> x \in Numbers(t, place) \/ (f.at = place /\ x = f.n)
    BY <1>1, <1>2, <2>1, <2>2
  <2>4. ASSUME f.at = place, NEW i \in 1 .. l - 1, s[i].at = place PROVE s[i].n # f.n
    <3>1. i \in DOMAIN s /\ l \in DOMAIN s /\ i # l
      BY <1>1, <1>2
    <3> QED
      BY <1>1, <2>4, <3>1 DEF OnceAt
  <2> QED
    BY <2>1, <2>3, <2>4
<1>4. OnceAt(t, place)
  BY <1>1, <1>2 DEF OnceAt
<1>5. AloneAt(s, place) => AloneAt(t, place)
  BY <1>1, <1>2 DEF AloneAt
<1>6. Numbers(t, place) = IF f.at = place THEN Numbers(s, place) \ {f.n} ELSE Numbers(s, place)
  BY <1>3
<1> QED
  BY <1>3, <1>4, <1>5, <1>6 DEF t

LEMMA StackKept ==
  ASSUME TypeOK, Known, StackInv, Grows,
         \A c \in Client : /\ OnceAt(stack'[c], "handler") /\ OnceAt(stack'[c], "call")
                           /\ AloneAt(stack'[c], "call"),
         \A c \in Client : \A n \in Handled(c)' : n \in Handled(c) \/ calls'[n].callee = c,
         \A c \in Client : \A n \in Opened(c)' :
           n \in Opened(c) \/ (calls'[n].caller = c /\ calls'[n].kind # "send")
  PROVE  StackInv'
<1> SUFFICES ASSUME NEW c \in Client
             PROVE  /\ \A n \in Handled(c)' : calls'[n].callee = c
                    /\ \A n \in Opened(c)' : calls'[n].caller = c /\ calls'[n].kind # "send"
  BY Zenon DEF StackInv
<1>1. ASSUME NEW n \in Handled(c)' PROVE calls'[n].callee = c
  <2>1. CASE n \in Handled(c)
    <3>1. n \in DOMAIN calls /\ calls[n].callee = c
      BY <2>1, Elements DEF StackInv
    <3> QED
      BY <3>1 DEF Grows
  <2> QED
    BY <1>1, <2>1, Zenon
<1>2. ASSUME NEW n \in Opened(c)' PROVE calls'[n].caller = c /\ calls'[n].kind # "send"
  <2>1. CASE n \in Opened(c)
    <3>1. n \in DOMAIN calls /\ calls[n].caller = c /\ calls[n].kind # "send"
      BY <2>1, Elements DEF StackInv
    <3> QED
      BY <3>1 DEF Grows
  <2> QED
    BY <1>2, <2>1, Zenon
<1> QED
  BY <1>1, <1>2, Zenon

\* No frame comes or goes.
LEMMA StackAlike ==
  ASSUME TypeOK, Known, StackInv, Grows, \A c \in Client : Alike(stack[c], stack'[c])
  PROVE  StackInv' /\ \A c \in Client : Handled(c)' = Handled(c) /\ Opened(c)' = Opened(c)
<1>1. ASSUME NEW c \in Client
      PROVE  /\ Handled(c)' = Handled(c) /\ Opened(c)' = Opened(c)
             /\ OnceAt(stack'[c], "handler") /\ OnceAt(stack'[c], "call")
             /\ AloneAt(stack'[c], "call")
  <2>1. /\ Numbers(stack'[c], "handler") = Numbers(stack[c], "handler")
        /\ Numbers(stack'[c], "call") = Numbers(stack[c], "call")
        /\ OnceAt(stack[c], "handler") => OnceAt(stack'[c], "handler")
        /\ OnceAt(stack[c], "call") => OnceAt(stack'[c], "call")
        /\ AloneAt(stack[c], "call") => AloneAt(stack'[c], "call")
    BY NumbersAlike
  <2> QED
    BY <2>1 DEF Handled, Opened, StackInv
<1> QED
  BY <1>1, StackKept

LEMMA SameAlike ==
  ASSUME NEW s
  PROVE  Alike(s, s)
BY DEF Alike

\* A frame is put on top.
LEMMA StackPushed ==
  ASSUME TypeOK, Known, StackInv, Grows, NEW c \in Client, NEW F \in Seq(Frame),
         Alike(stack[c], F), NEW f \in Frame, stack' = [stack EXCEPT ![c] = Append(F, f)],
         f.at = "handler" => f.n \notin Handled(c) /\ calls'[f.n].callee = c,
         f.at = "call" => /\ Opened(c) = {} /\ calls'[f.n].caller = c
                          /\ calls'[f.n].kind # "send"
  PROVE  /\ StackInv'
         /\ \A d \in Client : Handled(d)' =
              IF d = c /\ f.at = "handler" THEN Handled(c) \union {f.n} ELSE Handled(d)
         /\ \A d \in Client : Opened(d)' =
              IF d = c /\ f.at = "call" THEN Opened(c) \union {f.n} ELSE Opened(d)
<1>1. stack \in [Client -> Seq(Frame)] /\ stack[c] \in Seq(Frame)
  BY DEF TypeOK
<1>2. stack'[c] = Append(F, f) /\ \A d \in Client \ {c} : stack'[d] = stack[d]
  BY <1>1
<1>3. OnceAt(stack[c], "handler") /\ OnceAt(stack[c], "call") /\ AloneAt(stack[c], "call")
  BY DEF StackInv
<1>4. /\ Numbers(stack'[c], "handler") = IF f.at = "handler" THEN Handled(c) \union {f.n}
                                          ELSE Handled(c)
      /\ OnceAt(stack'[c], "handler")
  BY <1>1, <1>2, <1>3, NumbersAdded DEF Handled
<1>5. /\ Numbers(stack'[c], "call") = IF f.at = "call" THEN Opened(c) \union {f.n} ELSE Opened(c)
      /\ OnceAt(stack'[c], "call") /\ AloneAt(stack'[c], "call")
  BY <1>1, <1>2, <1>3, NumbersAdded DEF Opened
<1>6. ASSUME NEW d \in Client
      PROVE  /\ Handled(d)' =
                  IF d = c /\ f.at = "handler" THEN Handled(c) \union {f.n} ELSE Handled(d)
             /\ Opened(d)' = IF d = c /\ f.at = "call" THEN Opened(c) \union {f.n} ELSE Opened(d)
             /\ OnceAt(stack'[d], "handler") /\ OnceAt(stack'[d], "call")
             /\ AloneAt(stack'[d], "call")
  <2>1. CASE d = c
    <3>1. Handled(d)' = Numbers(stack'[c], "handler") /\ Opened(d)' = Numbers(stack'[c], "call")
      BY <2>1 DEF Handled, Opened
    <3> QED
      BY <1>4, <1>5, <2>1, <3>1
  <2>2. CASE d # c
    <3>1. stack'[d] = stack[d] /\ OnceAt(stack[d], "handler") /\ OnceAt(stack[d], "call")
          /\ AloneAt(stack[d], "call")
      BY <1>2, <2>2 DEF StackInv
    <3> QED
      BY <2>2, <3>1 DEF Handled, Opened
  <2> QED
    BY <2>1, <2>2
<1>7. \A d \in Client : \A n \in Handled(d)' : n \in Handled(d) \/ calls'[n].callee = d
  BY <1>6
<1>8. \A d \in Client : \A n \in Opened(d)' :
        n \in Opened(d) \/ (calls'[n].caller = d /\ calls'[n].kind # "send")
  BY <1>6
<1> QED
  BY <1>6, <1>7, <1>8, StackKept

\* The frame on top goes.
LEMMA StackPopped ==
  ASSUME TypeOK, Known, StackInv, Grows, NEW c \in Client, ~Idle(c), stack' = Pop(c),
         NEW f, f = Top(c)
  PROVE  /\ StackInv'
         /\ \A d \in Client : Handled(d)' =
              IF d = c /\ f.at = "handler" THEN Handled(c) \ {f.n} ELSE Handled(d)
         /\ \A d \in Client : Opened(d)' =
              IF d = c /\ f.at = "call" THEN Opened(c) \ {f.n} ELSE Opened(d)
         /\ f.at = "handler" => f.n \in Handled(c)
         /\ f.at = "call" => f.n \in Opened(c)
<1>1. stack \in [Client -> Seq(Frame)] /\ stack[c] \in Seq(Frame) /\ stack[c] # << >>
      /\ f = stack[c][Len(stack[c])]
  BY TopTyped DEF TypeOK, Top
<1>2. stack'[c] = Front(stack[c]) /\ \A d \in Client \ {c} : stack'[d] = stack[d]
  BY <1>1 DEF Pop
<1>3. OnceAt(stack[c], "handler") /\ OnceAt(stack[c], "call") /\ AloneAt(stack[c], "call")
  BY DEF StackInv
<1>4. /\ Numbers(stack'[c], "handler") = IF f.at = "handler" THEN Handled(c) \ {f.n} ELSE Handled(c)
      /\ OnceAt(stack'[c], "handler")
      /\ f.at = "handler" => f.n \in Handled(c)
  BY <1>1, <1>2, <1>3, NumbersTaken DEF Handled
<1>5. /\ Numbers(stack'[c], "call") = IF f.at = "call" THEN Opened(c) \ {f.n} ELSE Opened(c)
      /\ OnceAt(stack'[c], "call") /\ AloneAt(stack'[c], "call")
      /\ f.at = "call" => f.n \in Opened(c)
  BY <1>1, <1>2, <1>3, NumbersTaken DEF Opened
<1>6. ASSUME NEW d \in Client
      PROVE  /\ Handled(d)' = IF d = c /\ f.at = "handler" THEN Handled(c) \ {f.n} ELSE Handled(d)
             /\ Opened(d)' = IF d = c /\ f.at = "call" THEN Opened(c) \ {f.n} ELSE Opened(d)
             /\ OnceAt(stack'[d], "handler") /\ OnceAt(stack'[d], "call")
             /\ AloneAt(stack'[d], "call")
  <2>1. CASE d = c
    <3>1. Handled(d)' = Numbers(stack'[c], "handler") /\ Opened(d)' = Numbers(stack'[c], "call")
      BY <2>1 DEF Handled, Opened
    <3> QED
      BY <1>4, <1>5, <2>1, <3>1
  <2>2. CASE d # c
    <3>1. stack'[d] = stack[d] /\ OnceAt(stack[d], "handler") /\ OnceAt(stack[d], "call")
          /\ AloneAt(stack[d], "call")
      BY <1>2, <2>2 DEF StackInv
    <3> QED
      BY <2>2, <3>1 DEF Handled, Opened
  <2> QED
    BY <2>1, <2>2
<1>7. \A d \in Client : Handled(d)' \subseteq Handled(d) /\ Opened(d)' \subseteq Opened(d)
  BY <1>6
<1> QED
  BY <1>4, <1>5, <1>6, <1>7, StackKept

LEMMA PostedKept ==
  ASSUME TypeOK, Known, PostedInv, Grows, messages' = messages
  PROVE  PostedInv' /\ \A c \in Client : ToSet(messages[c])' = ToSet(messages[c])
<1>1. \A c \in Client : ToSet(messages[c])' = ToSet(messages[c])
  OBVIOUS
<1>2. ASSUME NEW c \in Client, NEW n \in ToSet(messages[c]) PROVE calls'[n].callee = c
  <2>1. n \in DOMAIN calls /\ calls[n].callee = c
    BY Elements DEF PostedInv
  <2> QED
    BY <2>1 DEF Grows
<1> QED
  BY <1>1, <1>2 DEF PostedInv

\* A call is posted by c, and it is taken.
PostedMore(c, n) ==
  \A d \in Client : ToSet(messages[d])' =
    IF d = c THEN ToSet(messages[c]) \union {n} ELSE ToSet(messages[d])
PostedLess(c, n) ==
  \A d \in Client : ToSet(messages[d])' =
    IF d = c THEN ToSet(messages[c]) \ {n} ELSE ToSet(messages[d])

LEMMA PostedAdded ==
  ASSUME TypeOK, Known, PostedInv, UNCHANGED calls, NEW c \in Client, NEW n \in CallNo,
         messages' = [messages EXCEPT ![c] = Append(messages[c], n)],
         n \notin ToSet(messages[c]), calls[n].callee = c
  PROVE  PostedInv' /\ PostedMore(c, n)
<1>1. messages \in [Client -> Seq(CallNo)] /\ messages[c] \in Seq(CallNo) /\ Once(messages[c])
  BY DEF TypeOK, PostedInv
<1>2. messages'[c] = Append(messages[c], n) /\ \A d \in Client \ {c} : messages'[d] = messages[d]
  BY <1>1
<1>3. ToSet(messages'[c]) = ToSet(messages[c]) \union {n} /\ Once(messages'[c])
  BY <1>1, <1>2, Appended
<1>4. ASSUME NEW d \in Client
      PROVE  /\ ToSet(messages[d])' =
                  IF d = c THEN ToSet(messages[c]) \union {n} ELSE ToSet(messages[d])
             /\ Once(messages'[d])
  <2>1. CASE d = c
    BY <1>3, <2>1
  <2>2. CASE d # c
    BY <1>2, <2>2 DEF PostedInv
  <2> QED
    BY <2>1, <2>2
<1> QED
  BY <1>3, <1>4 DEF PostedInv, PostedMore

LEMMA PostedTaken ==
  ASSUME TypeOK, Known, PostedInv, UNCHANGED calls, NEW c \in Client,
         NEW i \in DOMAIN messages[c],
         messages' = [messages EXCEPT ![c] = RemoveAt(messages[c], i)],
         NEW n, n = messages[c][i]
  PROVE  PostedInv' /\ n \in ToSet(messages[c]) /\ PostedLess(c, n)
<1>1. messages \in [Client -> Seq(CallNo)] /\ messages[c] \in Seq(CallNo) /\ Once(messages[c])
  BY DEF TypeOK, PostedInv
<1>2. messages'[c] = RemoveAt(messages[c], i)
      /\ \A d \in Client \ {c} : messages'[d] = messages[d]
  BY <1>1
<1>3. ToSet(messages'[c]) = ToSet(messages[c]) \ {n} /\ Once(messages'[c])
  BY <1>1, <1>2, Removed
<1>4. n \in ToSet(messages[c])
  BY DEF ToSet
<1>5. ASSUME NEW d \in Client
      PROVE  /\ ToSet(messages[d])' =
                  IF d = c THEN ToSet(messages[c]) \ {n} ELSE ToSet(messages[d])
             /\ Once(messages'[d])
  <2>1. CASE d = c
    BY <1>3, <2>1
  <2>2. CASE d # c
    BY <1>2, <2>2 DEF PostedInv
  <2> QED
    BY <2>1, <2>2
<1> QED
  BY <1>3, <1>4, <1>5 DEF PostedInv, PostedLess

-----------------------------------------------------------------------------
(* Handlers that delay.                                                    *)

\* What a client is in the middle of is no handler that delays, unless it is on top.
LEMMA NoneDelays ==
  ASSUME TypeOK, NEW c \in Client, DelayOf(c), ~(In(c, "handler") /\ Top(c).did = "delayed"),
         NEW i \in DOMAIN stack[c], stack[c][i].at = "handler"
  PROVE  stack[c][i].did # "delayed"
<1> SUFFICES ASSUME stack[c][i].did = "delayed" PROVE FALSE
  OBVIOUS
<1>1. i = Len(stack[c])
  BY DEF DelayOf
<1>2. stack[c] # << >>
  BY EmptySeq
<1> QED
  BY <1>1, <1>2 DEF In, Top

LEMMA DelayStays ==
  ASSUME NEW c, DelayOf(c), stack'[c] = stack[c], transaction'[c] = transaction[c],
         transactionId'[c] = transactionId[c], transactionList'[c] = transactionList[c]
  PROVE  DelayOf(c)'
BY DEF DelayOf

\* Nobody delays after the step, and no handler has a transaction.
LEMMA DelayKept ==
  ASSUME NEW c, DelayOf(c), transaction'[c] => transaction[c],
         transactionList'[c] \subseteq transactionList[c],
         \A i \in DOMAIN stack'[c] : stack'[c][i].at = "handler" =>
           /\ stack'[c][i].did # "delayed"
           /\ \/ \E j \in DOMAIN stack[c] : /\ stack[c][j].at = "handler"
                                            /\ stack[c][j].did # "delayed"
                                            /\ stack[c][j].n = stack'[c][i].n
              \/ ~transaction'[c] /\ \A t \in transactionList[c] : t.n # stack'[c][i].n
  PROVE  DelayOf(c)'
<1> SUFFICES ASSUME NEW i \in DOMAIN stack'[c], stack'[c][i].at = "handler"
             PROVE  /\ stack'[c][i].did # "delayed" /\ ~transaction'[c]
                    /\ \A t \in transactionList'[c] : t.n # stack'[c][i].n
  BY Zenon DEF DelayOf
<1>1. stack'[c][i].did # "delayed"
  BY Zenon
<1>2. ASSUME NEW j \in DOMAIN stack[c], stack[c][j].at = "handler",
             stack[c][j].did # "delayed", stack[c][j].n = stack'[c][i].n
      PROVE  ~transaction'[c] /\ \A t \in transactionList'[c] : t.n # stack'[c][i].n
  <2>1. ~transaction[c] /\ \A t \in transactionList[c] : t.n # stack[c][j].n
    BY <1>2 DEF DelayOf
  <2> QED
    BY <1>2, <2>1
<1>3. CASE ~transaction'[c] /\ \A t \in transactionList[c] : t.n # stack'[c][i].n
  BY <1>3
<1> QED
  BY <1>1, <1>2, <1>3, Zenon

\* The frames that stay.
LEMMA DelayOthers ==
  ASSUME DelayInv, NEW c \in Client, DelayOf(c)',
         \A d \in Client \ {c} :
           /\ stack'[d] = stack[d] /\ transaction'[d] = transaction[d]
           /\ transactionId'[d] = transactionId[d] /\ transactionList'[d] = transactionList[d]
  PROVE  DelayInv'
<1>1. ASSUME NEW d \in Client, d # c PROVE DelayOf(d)'
  <2>1. /\ stack'[d] = stack[d] /\ transaction'[d] = transaction[d]
        /\ transactionId'[d] = transactionId[d] /\ transactionList'[d] = transactionList[d]
    BY <1>1
  <2> QED
    BY <2>1, DelayStays DEF DelayInv
<1> QED
  BY <1>1 DEF DelayInv

\* The frames of c are those it had, but for what a handler did that calls, and
\* another frame that is no handler.
LEMMA DelayCalling ==
  ASSUME TypeOK, Known, NEW c \in Client, DelayOf(c),
         ~(In(c, "handler") /\ Top(c).did = "delayed"),
         transaction'[c] = transaction[c], transactionList'[c] = transactionList[c],
         NEW F \in Seq(Frame), Alike(stack[c], F),
         \A i \in DOMAIN stack[c] :
           stack[c][i].at = "handler" /\ F[i].did = "delayed" => stack[c][i].did = "delayed",
         NEW f \in Frame, f.at # "handler", stack'[c] = F \/ stack'[c] = Append(F, f)
  PROVE  DelayOf(c)'
<1>1. \A i \in DOMAIN stack[c] : stack[c][i].at = "handler" => stack[c][i].did # "delayed"
  BY NoneDelays
<1>2. ASSUME NEW i \in DOMAIN stack'[c], stack'[c][i].at = "handler"
      PROVE  i \in DOMAIN stack[c] /\ stack'[c][i] = F[i]
  <2>1. CASE stack'[c] = F
    BY <1>2, <2>1 DEF Alike
  <2>2. CASE stack'[c] = Append(F, f)
    <3>1. /\ Len(F) \in Nat /\ DOMAIN Append(F, f) = 1 .. Len(F) + 1 /\ DOMAIN F = 1 .. Len(F)
          /\ \A j \in 1 .. Len(F) : Append(F, f)[j] = F[j]
          /\ Append(F, f)[Len(F) + 1] = f
      BY AppendToSeq
    <3>2. i # Len(F) + 1
      BY <1>2, <2>2, <3>1
    <3>3. i \in 1 .. Len(F)
      BY <2>2, <3>1, <3>2
    <3> QED
      BY <2>2, <3>1, <3>3 DEF Alike
  <2> QED
    BY <2>1, <2>2
<1>3. ASSUME NEW i \in DOMAIN stack'[c], stack'[c][i].at = "handler"
      PROVE  /\ stack'[c][i].did # "delayed"
             /\ \E j \in DOMAIN stack[c] : /\ stack[c][j].at = "handler"
                                           /\ stack[c][j].did # "delayed"
                                           /\ stack[c][j].n = stack'[c][i].n
  <2>1. i \in DOMAIN stack[c] /\ stack'[c][i] = F[i]
    BY <1>2, <1>3
  <2>2. stack[c][i].at = "handler" /\ stack[c][i].n = stack'[c][i].n
    BY <1>3, <2>1 DEF Alike
  <2>3. stack[c][i].did # "delayed" /\ stack'[c][i].did # "delayed"
    BY <1>1, <2>1, <2>2
  <2> QED
    BY <2>1, <2>2, <2>3
<1>4. transaction'[c] => transaction[c]
  OBVIOUS
<1>5. transactionList'[c] \subseteq transactionList[c]
  OBVIOUS
<1> QED
  BY <1>3, <1>4, <1>5, DelayKept, Zenon

LEMMA CallingAlike ==
  ASSUME TypeOK, Known, NEW c \in Client
  PROVE  /\ Calling(c) \in Seq(Frame) /\ Alike(stack[c], Calling(c))
         /\ \A i \in DOMAIN stack[c] :
              stack[c][i].at = "handler" /\ Calling(c)[i].did = "delayed" =>
                stack[c][i].did = "delayed"
<1>1. /\ Calling(c) \in Seq(Frame) /\ DOMAIN Calling(c) = DOMAIN stack[c]
      /\ \A i \in DOMAIN stack[c] :
           Calling(c)[i].at = stack[c][i].at /\ Calling(c)[i].n = stack[c][i].n
  BY CallingTyped
<1>2. ASSUME NEW i \in DOMAIN stack[c], Calling(c)[i].did = "delayed"
      PROVE  stack[c][i].did = "delayed"
  <2>1. CASE Calling(c) = stack[c]
    BY <1>2, <2>1
  <2>2. CASE In(c, "handler") /\ Calling(c) = ReplaceTop(c, [Top(c) EXCEPT !.did = "called"])
    <3> DEFINE f == [Top(c) EXCEPT !.did = "called"]
    <3>1. ~Idle(c) /\ Top(c) \in Frame /\ stack[c] # << >> /\ stack[c] \in Seq(Frame)
      BY <2>2, TopTyped DEF In, Idle
    <3>2. f \in Frame /\ f.did = "called" /\ f.at = Top(c).at /\ f.n = Top(c).n
      BY <3>1 DEF Frame
    <3>3. Calling(c) = ReplaceTop(c, f)
      BY <2>2
    <3> HIDE DEF f
    <3>4. /\ \A j \in DOMAIN stack[c] : j # Len(stack[c]) => ReplaceTop(c, f)[j] = stack[c][j]
          /\ ReplaceTop(c, f)[Len(stack[c])] = f
      BY <3>1, <3>2, ReplaceTopTyped
    <3> QED
      BY <1>2, <3>2, <3>3, <3>4
  <2> QED
    BY <2>1, <2>2 DEF Calling
<1> QED
  BY <1>1, <1>2 DEF Alike

-----------------------------------------------------------------------------
(* Calls that begin.                                                       *)

LEMMA CallsMayBegin ==
  ASSUME ~Nesting, ~CallsAndDelays, TypeOK, NEW c \in Client, MayCall(c)
  PROVE  Opened(c) = {} /\ ~(In(c, "handler") /\ Top(c).did = "delayed")
<1>1. CallsOpen(c) = {}
  BY DEF MayCall
<1>2. Opened(c) = {}
  BY <1>1 DEF Opened, Numbers, CallsOpen
<1>3. ASSUME In(c, "handler") PROVE Top(c).did # "delayed"
  <2>1. ~AtEventLoop(c)
    BY <1>3 DEF AtEventLoop, In, Idle
  <2> QED
    BY <2>1 DEF MayCall
<1> QED
  BY <1>2, <1>3

\* Messages that come to be on their way to d, and that are read by c.
Sent(d, m) == \A e \in Client : Wire(e)' = IF e = d THEN Wire(d) \union {m} ELSE Wire(e)
Taken(c, m) == \A e \in Client : Wire(e)' = IF e = c THEN Wire(c) \ {m} ELSE Wire(e)
HandledSame == \A e \in Client : Handled(e)' = Handled(e)
OpenedGrow == \A e \in Client : Opened(e) \subseteq Opened(e)'
OpenedSame == \A e \in Client : Opened(e)' = Opened(e)
PostedSame == \A e \in Client : ToSet(messages[e])' = ToSet(messages[e])
IdsGrow == \A e \in Client : transactionId[e] <= transactionId'[e]
NonePromised(n) == \A id \in Nat : ~Promised(n, id)

\* The call n of c to d is new.
Begins(n, c, d) ==
  /\ DOMAIN calls' = DOMAIN calls \union {n} /\ n \notin DOMAIN calls /\ n \in CallNo
  /\ Grows /\ calls'[n].caller = c /\ calls'[n].callee = d

LEMMA CallBegins ==
  ASSUME TypeOK, NEW info \in CallInfo, Len(calls) < MaxCalls, calls' = Append(calls, info),
         NEW n, n = Len(calls) + 1, deaths' = deaths
  PROVE  Begins(n, info.caller, info.callee) /\ calls'[n] = info
<1>1. /\ Len(calls) \in Nat /\ DOMAIN calls = 1 .. Len(calls)
      /\ DOMAIN calls' = 1 .. Len(calls) + 1 /\ calls'[Len(calls) + 1] = info
      /\ \A k \in 1 .. Len(calls) : calls'[k] = calls[k]
  BY AppendToSeq DEF TypeOK
<1>2. n \in CallNo
  BY <1>1, BoundAssumption DEF CallNo
<1>3. dead' = dead /\ abandoned' = abandoned
  BY DEF deaths
<1> QED
  BY <1>1, <1>2, <1>3 DEF Begins, Grows

\* All that comes to be on its way is its request, or that it failed.
Announced(n, c, d) ==
  /\ \A e \in Client : \A x \in Message : x.n # n => (x \in Wire(e)' <=> x \in Wire(e))
  /\ \/ \A e \in Client : \A x \in Wire(e)' : x.n = n => x.op \in Requests /\ e = d
     \/ \A e \in Client : \A x \in Wire(e)' : x.n = n => FailsIt(x) /\ e = c

LEMMA RequestSent ==
  ASSUME TypeOK, Known, WireInv, NEW c \in Client, NEW d \in Client, NEW n, Begins(n, c, d),
         NEW op, op = IF calls'[n].kind = "send" THEN "DCOPSend" ELSE "DCOPCall",
         Send(c, d, op, n, 0), dead' = dead
  PROVE  WireInv' /\ Announced(n, c, d)
<1>1. /\ n \in CallNo /\ n \notin DOMAIN calls /\ Grows
      /\ calls'[n].caller = c /\ calls'[n].callee = d
  BY DEF Begins
<1>2. ASSUME NEW e \in Client PROVE Wire(e) \subseteq Message /\ \A x \in Wire(e) : x.n # n
  BY <1>1, Elements
<1>3. ASSUME NEW e \in Client, NEW m \in Message, m.n = n, Appends(toClient, toClient', e, m),
             MessagePlaced(e, m)', m.op # "DCOPReplyWait",
             (m.op \in Requests /\ e = d) \/ (FailsIt(m) /\ e = c)
      PROVE  WireInv' /\ Announced(n, c, d)
  <2>1. m \notin Wire(e)
    BY <1>2, <1>3
  <2>2. /\ WireInv'
        /\ \A x \in Client : Wire(x)' = IF x = e THEN Wire(e) \union {m} ELSE Wire(x)
    BY <1>1, <1>3, <2>1, WireSent
  <2>3. ASSUME NEW x \in Client, NEW y \in Wire(x)', y.n = n PROVE y = m /\ x = e
    BY <1>2, <2>2, <2>3
  <2>4. ASSUME NEW x \in Client, NEW y \in Message, y.n # n PROVE y \in Wire(x)' <=> y \in Wire(x)
    BY <1>3, <2>2, <2>4
  <2> QED
    BY <1>3, <2>2, <2>3, <2>4, Zenon DEF Announced
<1>4. CASE d \notin dead
  <2>1. PICK m : m = [op |-> op, n |-> n, from |-> c, tid |-> 0]
    OBVIOUS
  <2>2. /\ m \in Message /\ m.n = n /\ m.op = op /\ m.from = c /\ m.tid = 0
        /\ m.op \in Requests
    BY <1>1, <2>1 DEF Message, Requests, Opcode
  <2>3. Appends(toClient, toClient', d, m)
    BY <1>4, <2>1, SendCases
  <2>4. MessagePlaced(d, m)'
    BY <1>1, <2>2 DEF MessagePlaced, Requests
  <2>5. m.op # "DCOPReplyWait"
    BY <2>2 DEF Requests
  <2> QED
    BY <1>3, <2>2, <2>3, <2>4, <2>5
<1>5. CASE d \in dead /\ op = "DCOPCall"
  <2>1. PICK m : m = Failure(d, n, 0)
    OBVIOUS
  <2>2. /\ m \in Message /\ m.n = n /\ m.op = "DCOPReplyFailed" /\ m.from = d /\ m.tid = 0
    BY <1>1, <2>1 DEF Message, Opcode, Failure
  <2>3. Appends(toClient, toClient', c, m)
    BY <1>5, <2>1, SendCases
  <2>4. calls'[n].kind # "send"
    BY <1>5
  <2>5. MessagePlaced(c, m)'
    BY <1>1, <1>5, <2>2, <2>4 DEF MessagePlaced, Requests
  <2> QED
    BY <1>3, <2>2, <2>3, <2>5 DEF FailsIt
<1>6. CASE toClient' = toClient
  <2>1. WireInv' /\ \A e \in Client : Wire(e)' = Wire(e)
    BY <1>1, <1>6, WireKept
  <2> QED
    BY <1>2, <2>1 DEF Announced
<1> QED
  BY <1>4, <1>5, <1>6, SendCases, Zenon

\* Nothing but its request is there, or that it failed.
LEMMA NewCall ==
  ASSUME TypeOK, Known, TypeOK', Known', Life, NEW n, NEW c \in Client, NEW d \in Client, d # c,
         Begins(n, c, d), Announced(n, c, d),
         messages' = messages, transactionList' = transactionList, HandledSame, IdsGrow
  PROVE  Life' /\ OnlyAbout(n) /\ NonePromised(n)'
<1>1. /\ DOMAIN calls' = DOMAIN calls \union {n} /\ n \in CallNo
      /\ n \notin DOMAIN calls /\ Grows /\ calls'[n].caller = c /\ calls'[n].callee = d
  BY DEF Begins
<1>2. ASSUME NEW e \in Client
      PROVE  /\ \A x \in Wire(e) : x.n # n
             /\ n \notin ToSet(messages[e]) /\ n \notin Handled(e)
             /\ \A t \in transactionList[e] : t.n # n
  <2>1. /\ \A x \in Wire(e) : x.n \in DOMAIN calls
        /\ ToSet(messages[e]) \subseteq DOMAIN calls /\ Handled(e) \subseteq DOMAIN calls
        /\ \A t \in transactionList[e] : t.n \in DOMAIN calls
    BY Elements
  <2> QED
    BY <1>1, <2>1
<1>3. OnlyAbout(n)
  BY DEF OnlyAbout, Announced, HandledSame
<1>5. \A x \in Wire(c)' : x.n = n => FailsIt(x)
  BY DEF Announced
<1>6. ASSUME NEW id \in Nat PROVE ~Promised(n, id)' /\ ~Told(n, id)'
  <2>1. ~Owed(n, id)'
    BY <1>1, <1>2 DEF Owed
  <2>2. ~Late(n, id)' /\ ~Told(n, id)'
    BY <1>1, <1>5 DEF Late, Told, FailsIt
  <2> QED
    BY <2>1, <2>2 DEF Promised
<1>7. ASSUME NEW p, NEW q, At(n, p)', At(n, q)' PROVE p = q
  <2>1. n \notin ToSet(messages[d])' /\ n \notin Handled(d)'
    BY <1>2 DEF HandledSame
  <2>2. ~\E x \in Wire(c)' : x.n = n /\ x.op \in {"DCOPReply", "DCOPReplyWait"}
    BY <1>5 DEF FailsIt
  <2>3. \/ \A r : At(n, r)' => r = "asked"
        \/ \A r : At(n, r)' => r = "failed"
    <3>1. CASE \A e \in Client : \A x \in Wire(e)' : x.n = n => x.op \in Requests /\ e = d
      <4>1. ~\E x \in Wire(c)' : x.n = n /\ FailsIt(x)
        BY <3>1
      <4> QED
        BY <1>1, <2>1, <2>2, <4>1 DEF At
    <3>2. CASE \A e \in Client : \A x \in Wire(e)' : x.n = n => FailsIt(x) /\ e = c
      <4>1. ~\E x \in Wire(d)' : x.n = n /\ x.op \in Requests
        BY <3>2
      <4> QED
        BY <1>1, <2>1, <2>2, <4>1 DEF At
    <3> QED
      BY <3>1, <3>2 DEF Announced
  <2> QED
    BY <1>7, <2>3, Zenon
<1>8. OwnLife(n)'
  BY <1>6, <1>7, Zenon DEF OwnLife
<1>9. Life'
  BY <1>1, <1>3, <1>6, <1>8, LifeKept DEF IdsGrow
<1> QED
  BY <1>3, <1>6, <1>9 DEF NonePromised

\* The caller of a new call knows nothing of it, and waits as before.
LEMMA NewAwaited ==
  ASSUME TypeOK, Known, TypeOK', Known', Awaited, WaitsInv, NEW n, NEW c \in Client, NEW d,
         Begins(n, c, d), OnlyAbout(n), NonePromised(n)', OpenedGrow,
         rs' = rs, pendingReplies' = pendingReplies, waits' = waits,
         calls'[n].kind # "send" => n \in Opened(c)'
  PROVE  Awaited' /\ WaitsInv'
<1>0. /\ DOMAIN calls' = DOMAIN calls \union {n} /\ n \in CallNo
      /\ n \notin DOMAIN calls /\ Grows /\ calls'[n].caller = c
  BY DEF Begins
<1>1. rs[n] = NoReply
  BY <1>0 DEF Awaited
<1>2. \A e \in Client : n \notin ToSet(pendingReplies[e])
  BY <1>0 DEF WaitsInv
<1>3. KnownOf(n)'
  BY <1>0, <1>1, <1>2 DEF KnownOf, NoReply, NonePromised
<1>4. ASSUME NEW e \in Client, ~GaveUp(e) PROVE WaitsRight(e)' /\ Once(pendingReplies[e])'
  <2>1. WaitsRight(e) /\ Once(pendingReplies[e])
    BY <1>4 DEF Awaited, AwaitedBy
  <2>2. ASSUME NEW k \in Opened(e), ~Complete(k) PROVE k \in Opened(e)' /\ ~Complete(k)'
    <3>1. calls'[k] = calls[k]
      BY <1>0, Elements DEF Grows
    <3> QED
      BY <2>2, <3>1 DEF Complete, Async, OpenedGrow
  <2>3. WaitsRight(e)'
    BY <2>1, <2>2 DEF WaitsRight
  <2> QED
    BY <2>1, <2>3
<1>5. Awaited'
  <2>1. \A k \in CallNo : k \notin DOMAIN calls' => rs'[k] = NoReply
    BY <1>0 DEF Awaited
  <2>2. \A k \in DOMAIN calls : rs[k].failed => rs'[k].failed
    OBVIOUS
  <2>3. \A e \in Client : ~GaveUp(e) /\ ~GaveUp(e)' =>
          /\ WaitsRight(e)' /\ Once(pendingReplies[e])'
          /\ \A k \in DOMAIN calls : calls[k].caller = e /\ k # n =>
               /\ rs'[k] = rs[k]
               /\ k \in ToSet(pendingReplies[e])' <=> k \in ToSet(pendingReplies[e])
               /\ k \in Opened(e) => k \in Opened(e)' \/ Complete(k)
          /\ n \in DOMAIN calls' /\ calls'[n].caller = e => KnownOf(n)'
    BY <1>0, <1>3, <1>4 DEF OpenedGrow
  <2> QED
    BY <1>0, <2>1, <2>2, <2>3, AwaitedKept
<1>6. WaitsInv'
  BY <1>0, WaitsKept
<1> QED
  BY <1>5, <1>6

LEMMA OwedKept ==
  ASSUME TypeOK, Known, OwedInv, Grows,
         \A c \in Client : transactionList'[c] \subseteq transactionList[c]
  PROVE  OwedInv'
<1> SUFFICES ASSUME NEW c \in Client, NEW t \in transactionList'[c]
             PROVE  calls'[t.n].callee = c /\ calls'[t.n].kind # "send"
  BY DEF OwedInv
<1>1. t \in transactionList[c] /\ t.n \in DOMAIN calls
  BY Elements
<1> QED
  BY <1>1 DEF OwedInv, Grows

LEMMA CallAnswers ==
  ASSUME ~Nesting, ~CallsAndDelays, TypeOK, Known, TypeOK', Known', AnswerInv,
         NEW c \in Client, NEW d \in Client, NEW kind \in Kinds, call(c, d, kind)
  PROVE  AnswerInv'
<1>1. PICK n : n = Len(calls) + 1
  OBVIOUS
<1>2. PICK key : key = IF currentKey[c] = None THEN c ELSE currentKey[c]
  OBVIOUS
<1>3. PICK info : info = [caller |-> c, callee |-> d, kind |-> kind, key |-> key]
  OBVIOUS
<1>4. PICK f : f = [at |-> "call", n |-> n, oldKey |-> currentKey[c], did |-> "nothing", seen |-> {}]
  OBVIOUS
<1>6. key \in Keys /\ currentKey[c] \in Keys
  BY <1>2 DEF TypeOK, Keys
<1>7. info \in CallInfo /\ info.caller = c /\ info.callee = d /\ info.kind # "send"
  BY <1>3, <1>6, KindAssumption DEF CallInfo, call
<1>8. /\ Len(calls) < MaxCalls /\ calls' = Append(calls, info) /\ d # c /\ MayCall(c)
      /\ stack' = [stack EXCEPT ![c] = Append(Calling(c), f)]
      /\ Send(c, d, "DCOPCall", n, 0)
      /\ rs' = rs /\ transaction' = transaction /\ messages' = messages
      /\ pendingReplies' = pendingReplies /\ waits' = waits
      /\ transactionList' = transactionList /\ deaths' = deaths
      /\ transactionId' = [transactionId EXCEPT ![c] =
           IF kind = "callAsync" THEN transactionId[c] + 1 ELSE transactionId[c]]
  BY <1>1, <1>2, <1>3, <1>4 DEF call, MayCall, posted
<1>9. Begins(n, c, d) /\ calls'[n] = info
  BY <1>1, <1>7, <1>8, CallBegins
<1>10. Grows /\ n \in CallNo /\ n \notin DOMAIN calls
  BY <1>9 DEF Begins
<1>11. f \in Frame /\ f.at = "call" /\ f.n = n
  BY <1>4, <1>6, <1>10 DEF Frame
<1>13. IdsGrow
  <2> SUFFICES ASSUME NEW e \in Client PROVE transactionId[e] <= transactionId'[e]
    BY DEF IdsGrow
  <2>1. transactionId[e] \in Nat
    BY DEF TypeOK
  <2>2. transactionId'[e] = transactionId[e] \/ transactionId'[e] = transactionId[e] + 1
    BY <1>8 DEF TypeOK
  <2> QED
    BY <2>1, <2>2
<1>14. /\ WireInv /\ PostedInv /\ StackInv /\ OwedInv /\ WaitsInv /\ DelayInv
       /\ Life /\ Awaited
  BY DEF AnswerInv
<1>15. Opened(c) = {} /\ ~(In(c, "handler") /\ Top(c).did = "delayed")
  BY <1>8, CallsMayBegin
<1>18. WireInv' /\ Announced(n, c, d)
  <2>1. dead' = dead
    BY <1>8 DEF deaths
  <2>2. "DCOPCall" = IF calls'[n].kind = "send" THEN "DCOPSend" ELSE "DCOPCall"
    BY <1>7, <1>9
  <2> QED
    BY <1>8, <1>9, <1>14, <2>1, <2>2, RequestSent
<1>19. PostedInv'
  BY <1>8, <1>10, <1>14, PostedKept
<1>20. Calling(c) \in Seq(Frame) /\ Alike(stack[c], Calling(c))
       /\ \A i \in DOMAIN stack[c] :
            stack[c][i].at = "handler" /\ Calling(c)[i].did = "delayed" =>
              stack[c][i].did = "delayed"
  BY CallingAlike
<1>21. StackInv' /\ HandledSame /\ OpenedGrow /\ n \in Opened(c)'
  <2>1. calls'[f.n].caller = c /\ calls'[f.n].kind # "send"
    BY <1>7, <1>9, <1>11
  <2>2. /\ StackInv'
        /\ \A e \in Client : Handled(e)' =
             IF e = c /\ f.at = "handler" THEN Handled(c) \union {f.n} ELSE Handled(e)
        /\ \A e \in Client : Opened(e)' =
             IF e = c /\ f.at = "call" THEN Opened(c) \union {f.n} ELSE Opened(e)
    BY <1>8, <1>10, <1>11, <1>14, <1>15, <1>20, <2>1, StackPushed
  <2> QED
    BY <1>11, <2>2 DEF HandledSame, OpenedGrow
<1>22. OwedInv'
  BY <1>8, <1>10, <1>14, OwedKept
<1>23. DelayInv'
  <2>1. DelayOf(c)
    BY <1>14 DEF DelayInv
  <2>2. stack'[c] = Append(Calling(c), f) /\ \A e \in Client \ {c} : stack'[e] = stack[e]
    BY <1>8 DEF TypeOK
  <2>3. DelayOf(c)'
    BY <1>8, <1>11, <1>15, <1>20, <2>1, <2>2, DelayCalling
  <2>4. \A e \in Client \ {c} : transactionId'[e] = transactionId[e]
    BY <1>8 DEF TypeOK
  <2> QED
    BY <1>8, <1>14, <2>2, <2>3, <2>4, DelayOthers
<1>24. Life' /\ OnlyAbout(n) /\ NonePromised(n)'
  BY <1>8, <1>9, <1>13, <1>14, <1>18, <1>21, NewCall
<1>25. Awaited' /\ WaitsInv'
  BY <1>8, <1>9, <1>14, <1>21, <1>24, NewAwaited
<1> QED
  BY <1>18, <1>19, <1>21, <1>22, <1>23, <1>24, <1>25 DEF AnswerInv

LEMMA AlikeStacks ==
  ASSUME TypeOK, Known, StackInv, Grows, \A c \in Client : Alike(stack[c], stack'[c])
  PROVE  StackInv' /\ HandledSame /\ OpenedSame
BY StackAlike DEF HandledSame, OpenedSame

LEMMA SendAnswers ==
  ASSUME ~Nesting, ~CallsAndDelays, TypeOK, Known, TypeOK', Known', AnswerInv,
         NEW c \in Client, NEW d \in Client, send(c, d)
  PROVE  AnswerInv'
<1>1. PICK n : n = Len(calls) + 1
  OBVIOUS
<1>2. PICK info : info = [caller |-> c, callee |-> d, kind |-> "send", key |-> "send"]
  OBVIOUS
<1>4. info \in CallInfo /\ info.caller = c /\ info.callee = d /\ info.kind = "send"
  BY <1>2 DEF CallInfo, Keys
<1>5. /\ Len(calls) < MaxCalls /\ calls' = Append(calls, info) /\ d # c /\ MayCall(c)
      /\ stack' = [stack EXCEPT ![c] = Calling(c)]
      /\ Send(c, d, "DCOPSend", n, 0)
      /\ rs' = rs /\ transaction' = transaction /\ messages' = messages
      /\ pendingReplies' = pendingReplies /\ waits' = waits
      /\ transactionList' = transactionList /\ transactionId' = transactionId
      /\ deaths' = deaths
  BY <1>1, <1>2 DEF send, MayCall, posted, current
<1>6. Begins(n, c, d) /\ calls'[n] = info
  BY <1>1, <1>4, <1>5, CallBegins
<1>7. Grows /\ n \in CallNo /\ n \notin DOMAIN calls
  BY <1>6 DEF Begins
<1>9. IdsGrow
  BY <1>5 DEF IdsGrow, TypeOK
<1>10. /\ WireInv /\ PostedInv /\ StackInv /\ OwedInv /\ WaitsInv /\ DelayInv
       /\ Life /\ Awaited
  BY DEF AnswerInv
<1>11. ~(In(c, "handler") /\ Top(c).did = "delayed")
  BY <1>5, CallsMayBegin
<1>14. WireInv' /\ Announced(n, c, d)
  <2>1. dead' = dead
    BY <1>5 DEF deaths
  <2>2. "DCOPSend" = IF calls'[n].kind = "send" THEN "DCOPSend" ELSE "DCOPCall"
    BY <1>4, <1>6
  <2> QED
    BY <1>4, <1>5, <1>6, <1>10, <2>1, <2>2, RequestSent
<1>15. PostedInv'
  BY <1>5, <1>7, <1>10, PostedKept
<1>16. Calling(c) \in Seq(Frame) /\ Alike(stack[c], Calling(c))
       /\ \A i \in DOMAIN stack[c] :
            stack[c][i].at = "handler" /\ Calling(c)[i].did = "delayed" =>
              stack[c][i].did = "delayed"
  BY CallingAlike
<1>17. stack'[c] = Calling(c) /\ \A e \in Client \ {c} : stack'[e] = stack[e]
  BY <1>5 DEF TypeOK
<1>18. StackInv' /\ HandledSame /\ OpenedSame
  <2>1. ASSUME NEW e \in Client PROVE Alike(stack[e], stack'[e])
    BY <1>16, <1>17, SameAlike
  <2> QED
    BY <1>7, <1>10, <2>1, AlikeStacks
<1>19. OpenedGrow
  BY <1>18 DEF OpenedSame, OpenedGrow
<1>20. OwedInv'
  BY <1>5, <1>7, <1>10, OwedKept
<1>21. DelayInv'
  <2>1. DelayOf(c)
    BY <1>10 DEF DelayInv
  <2>2. PICK f : f = [at |-> "posted", n |-> 0, oldKey |-> None, did |-> "nothing", seen |-> {}]
    OBVIOUS
  <2>3. f \in Frame /\ f.at # "handler"
    BY <2>2 DEF Frame, Keys
  <2>4. DelayOf(c)'
    BY <1>5, <1>11, <1>16, <1>17, <2>1, <2>3, DelayCalling
  <2> QED
    BY <1>5, <1>10, <1>17, <2>4, DelayOthers
<1>22. Life' /\ OnlyAbout(n) /\ NonePromised(n)'
  BY <1>5, <1>6, <1>9, <1>10, <1>14, <1>18, NewCall
<1>23. Awaited' /\ WaitsInv'
  <2>1. calls'[n].kind = "send"
    BY <1>4, <1>6
  <2> QED
    BY <1>5, <1>6, <1>10, <1>19, <1>22, <2>1, NewAwaited
<1> QED
  BY <1>14, <1>15, <1>18, <1>20, <1>21, <1>22, <1>23 DEF AnswerInv

-----------------------------------------------------------------------------
(* Steps that move no call: a call returns or times out, the timer fires, the *)
(* posted messages have been looked through.                               *)

LEMMA QuietLife ==
  ASSUME TypeOK, Known, TypeOK', Known', UNCHANGED calls, deaths' = deaths, WireInv, PostedInv, OwedInv, Life,
         toClient' = toClient, messages' = messages, transactionList' = transactionList,
         transactionId' = transactionId, HandledSame
  PROVE  WireInv' /\ PostedInv' /\ OwedInv' /\ Life' /\ OnlyAbout(0)
<1>1. Grows
  BY DEF Grows, deaths
<1>2. WireInv' /\ \A c \in Client : Wire(c)' = Wire(c)
  BY <1>1, WireKept
<1>3. PostedInv'
  BY <1>1, PostedKept
<1>4. OwedInv'
  BY <1>1, OwedKept
<1>5. OnlyAbout(0)
  BY <1>2 DEF OnlyAbout, HandledSame
<1>6. 0 \notin DOMAIN calls'
  <2>1. DOMAIN calls = 1 .. Len(calls)
    BY LenProperties DEF TypeOK
  <2> QED
    BY <2>1
<1>7. \A c \in Client : transactionId[c] <= transactionId'[c]
  BY DEF TypeOK
<1>8. Life'
  BY <1>1, <1>5, <1>6, <1>7, LifeKept
<1> QED
  BY <1>2, <1>3, <1>4, <1>5, <1>8

\* What clients know, when an open call may return that has its answer, or that times
\* out.
LEMMA QuietAwaited ==
  ASSUME TypeOK, Known, TypeOK', Known', UNCHANGED calls, deaths' = deaths, Awaited, WaitsInv, OnlyAbout(0),
         rs' = rs, pendingReplies' = pendingReplies, waits' = waits,
         \A e \in Client : \A k \in Opened(e) : k \in Opened(e)' \/ Complete(k)
  PROVE  Awaited' /\ WaitsInv'
<1>1. Grows
  BY DEF Grows, deaths
<1>2. 0 \notin DOMAIN calls'
  <2>1. DOMAIN calls = 1 .. Len(calls)
    BY LenProperties DEF TypeOK
  <2> QED
    BY <2>1
<1>3. \A k : Complete(k)' <=> Complete(k)
  BY DEF Complete, Async
<1>4. ASSUME NEW e \in Client, ~GaveUp(e) PROVE WaitsRight(e)' /\ Once(pendingReplies[e])'
  <2>1. WaitsRight(e) /\ Once(pendingReplies[e])
    BY <1>4 DEF Awaited, AwaitedBy
  <2>2. WaitsRight(e)'
    BY <1>3, <2>1 DEF WaitsRight
  <2> QED
    BY <2>1, <2>2
<1>5. Awaited'
  <2>1. \A k \in CallNo : k \notin DOMAIN calls' => rs'[k] = NoReply
    BY DEF Awaited
  <2>2. \A k \in DOMAIN calls : rs[k].failed => rs'[k].failed
    OBVIOUS
  <2>3. \A e \in Client : ~GaveUp(e) /\ ~GaveUp(e)' =>
          /\ WaitsRight(e)' /\ Once(pendingReplies[e])'
          /\ \A k \in DOMAIN calls : calls[k].caller = e /\ k # 0 =>
               /\ rs'[k] = rs[k]
               /\ k \in ToSet(pendingReplies[e])' <=> k \in ToSet(pendingReplies[e])
               /\ k \in Opened(e) => k \in Opened(e)' \/ Complete(k)
          /\ 0 \in DOMAIN calls' /\ calls'[0].caller = e => KnownOf(0)'
    BY <1>2, <1>4
  <2> QED
    BY <1>1, <1>2, <2>1, <2>2, <2>3, AwaitedKept
<1>6. WaitsInv'
  BY <1>1, WaitsKept
<1> QED
  BY <1>5, <1>6

\* The frame on top goes; if it is that of a handler it is not one that delays.
LEMMA DelayPopped ==
  ASSUME TypeOK, Known, NEW c \in Client, DelayOf(c), ~Idle(c), stack' = Pop(c),
         transaction' = transaction, transactionList' = transactionList
  PROVE  DelayOf(c)'
<1>1. /\ Len(stack[c]) \in Nat \ {0} /\ DOMAIN stack'[c] = 1 .. Len(stack[c]) - 1
      /\ DOMAIN stack[c] = 1 .. Len(stack[c])
      /\ \A i \in 1 .. Len(stack[c]) - 1 : stack'[c][i] = stack[c][i]
  BY TopTyped, PopTyped
<1>2. ASSUME NEW i \in DOMAIN stack'[c], stack'[c][i].at = "handler"
      PROVE  /\ stack'[c][i].did # "delayed"
             /\ \E j \in DOMAIN stack[c] : /\ stack[c][j].at = "handler"
                                           /\ stack[c][j].did # "delayed"
                                           /\ stack[c][j].n = stack'[c][i].n
  <2>1. i \in DOMAIN stack[c] /\ i # Len(stack[c]) /\ stack'[c][i] = stack[c][i]
    BY <1>1
  <2>2. stack[c][i].did # "delayed"
    BY <1>2, <2>1 DEF DelayOf
  <2> QED
    BY <1>2, <2>1, <2>2
<1>3. transaction'[c] => transaction[c]
  OBVIOUS
<1>4. transactionList'[c] \subseteq transactionList[c]
  OBVIOUS
<1> QED
  BY <1>2, <1>3, <1>4, DelayKept, Zenon

LEMMA OthersPopped ==
  ASSUME TypeOK, NEW c \in Client, stack' = Pop(c)
  PROVE  \A d \in Client \ {c} : stack'[d] = stack[d]
BY DEF TypeOK, Pop

LEMMA ReturnAnswers ==
  ASSUME TypeOK, Known, TypeOK', Known', AnswerInv, NEW c \in Client, Return(c)
  PROVE  AnswerInv'
<1>1. /\ ~Idle(c) /\ Top(c).at = "call" /\ Complete(Top(c).n) /\ stack' = Pop(c)
      /\ UNCHANGED calls /\ deaths' = deaths /\ rs' = rs /\ toClient' = toClient /\ transaction' = transaction
      /\ transactionId' = transactionId /\ messages' = messages
      /\ pendingReplies' = pendingReplies /\ waits' = waits
      /\ transactionList' = transactionList
  BY DEF Return, In, Idle, asked, current, posted
<1>2. /\ WireInv /\ PostedInv /\ StackInv /\ OwedInv /\ WaitsInv /\ DelayInv
      /\ Life /\ Awaited
  BY DEF AnswerInv
<1>3. Grows
  BY <1>1 DEF Grows, deaths
<1>4. PICK f : f = Top(c)
  OBVIOUS
<1>5. StackInv' /\ HandledSame /\ \A e \in Client : \A k \in Opened(e) : k \in Opened(e)' \/ k = f.n
  <2>1. /\ StackInv'
        /\ \A d \in Client : Handled(d)' =
             IF d = c /\ f.at = "handler" THEN Handled(c) \ {f.n} ELSE Handled(d)
        /\ \A d \in Client : Opened(d)' =
             IF d = c /\ f.at = "call" THEN Opened(c) \ {f.n} ELSE Opened(d)
    BY <1>1, <1>2, <1>3, <1>4, StackPopped
  <2> QED
    BY <1>1, <1>4, <2>1 DEF HandledSame
<1>6. WireInv' /\ PostedInv' /\ OwedInv' /\ Life' /\ OnlyAbout(0)
  BY <1>1, <1>2, <1>5, QuietLife
<1>7. DelayInv'
  <2>1. DelayOf(c)'
    BY <1>1, <1>2, DelayPopped DEF DelayInv
  <2> QED
    BY <1>1, <1>2, <2>1, OthersPopped, DelayOthers
<1>8. Awaited' /\ WaitsInv'
  BY <1>1, <1>2, <1>4, <1>5, <1>6, QuietAwaited
<1> QED
  BY <1>5, <1>6, <1>7, <1>8 DEF AnswerInv

LEMMA TimeOutAnswers ==
  ASSUME TypeOK, Known, TypeOK', Known', AnswerInv, NEW c \in Client, TimeOut(c)
  PROVE  AnswerInv'
<1>1. PICK f : f = Top(c)
  OBVIOUS
<1>2. /\ ~Idle(c) /\ f.at = "call" /\ stack' = Pop(c)
      /\ UNCHANGED calls /\ deaths' = deaths /\ rs' = [rs EXCEPT ![f.n].failed = TRUE]
      /\ toClient' = toClient /\ transaction' = transaction
      /\ transactionId' = transactionId /\ messages' = messages
      /\ pendingReplies' = pendingReplies /\ waits' = waits
      /\ transactionList' = transactionList
  BY <1>1 DEF TimeOut, In, Idle, current, posted
<1>3. /\ WireInv /\ PostedInv /\ StackInv /\ OwedInv /\ WaitsInv /\ DelayInv
      /\ Life /\ Awaited
  BY DEF AnswerInv
<1>4. Grows
  BY <1>2 DEF Grows, deaths
<1>5. f.n \in DOMAIN calls /\ f.n \in CallNo
  BY <1>1, <1>2, TopTyped
<1>6. /\ rs'[f.n].failed
      /\ \A k \in CallNo : /\ rs'[k].tid = rs[k].tid /\ rs[k].failed => rs'[k].failed
                           /\ k # f.n => rs'[k] = rs[k]
  <2>1. rs \in [CallNo -> ReplyStruct] /\ rs[f.n] \in ReplyStruct
    BY <1>5 DEF TypeOK
  <2>2. rs' = [rs EXCEPT ![f.n] = [rs[f.n] EXCEPT !.failed = TRUE]]
    BY <1>2
  <2>3. [rs[f.n] EXCEPT !.failed = TRUE].failed /\ [rs[f.n] EXCEPT !.failed = TRUE].tid = rs[f.n].tid
    BY <2>1 DEF ReplyStruct
  <2> QED
    BY <1>5, <2>1, <2>2, <2>3
<1>7. /\ StackInv' /\ HandledSame /\ f.n \in Opened(c)
      /\ \A e \in Client : e # c => Opened(e)' = Opened(e)
  <2>1. /\ StackInv'
        /\ \A d \in Client : Handled(d)' =
             IF d = c /\ f.at = "handler" THEN Handled(c) \ {f.n} ELSE Handled(d)
        /\ \A d \in Client : Opened(d)' =
             IF d = c /\ f.at = "call" THEN Opened(c) \ {f.n} ELSE Opened(d)
        /\ f.n \in Opened(c)
    BY <1>1, <1>2, <1>3, <1>4, StackPopped
  <2> QED
    BY <1>2, <2>1 DEF HandledSame
<1>8. WireInv' /\ PostedInv' /\ OwedInv' /\ Life' /\ OnlyAbout(0)
  BY <1>2, <1>3, <1>7, QuietLife
<1>9. DelayInv'
  <2>1. DelayOf(c)'
    BY <1>2, <1>3, DelayPopped DEF DelayInv
  <2> QED
    BY <1>2, <1>3, <2>1, OthersPopped, DelayOthers
<1>10. GaveUp(c)' /\ calls[f.n].caller = c
  <2>1. calls[f.n].caller = c
    BY <1>3, <1>7 DEF StackInv
  <2> QED
    BY <1>2, <1>5, <1>6, <2>1 DEF GaveUp, TimedOut
<1>11. 0 \notin DOMAIN calls'
  <2>1. DOMAIN calls = 1 .. Len(calls)
    BY LenProperties DEF TypeOK
  <2> QED
    BY <1>2, <2>1
<1>12. \A k \in CallNo : Complete(k)' <=> Complete(k)
  BY <1>2, <1>6 DEF Complete, Async
<1>13. ASSUME NEW e \in Client, ~GaveUp(e), e # c
       PROVE  WaitsRight(e)' /\ Once(pendingReplies[e])'
  <2>1. WaitsRight(e) /\ Once(pendingReplies[e])
    BY <1>3, <1>13 DEF Awaited, AwaitedBy
  <2>2. Opened(e)' = Opened(e) /\ Opened(e) \subseteq CallNo
    BY <1>7, <1>13, Elements
  <2>3. WaitsRight(e)'
    BY <1>2, <1>12, <2>1, <2>2 DEF WaitsRight
  <2> QED
    BY <1>2, <2>1, <2>3
<1>14. Awaited'
  <2>1. \A k \in CallNo : k \notin DOMAIN calls' => rs'[k] = NoReply
    BY <1>2, <1>3, <1>5, <1>6 DEF Awaited
  <2>2. \A k \in DOMAIN calls : rs[k].failed => rs'[k].failed
    BY <1>6, CallsTyped
  <2>3. ASSUME NEW e \in Client, ~GaveUp(e), ~GaveUp(e)'
        PROVE  /\ WaitsRight(e)' /\ Once(pendingReplies[e])'
               /\ \A k \in DOMAIN calls : calls[k].caller = e /\ k # 0 =>
                    /\ rs'[k] = rs[k]
                    /\ k \in ToSet(pendingReplies[e])' <=> k \in ToSet(pendingReplies[e])
                    /\ k \in Opened(e) => k \in Opened(e)' \/ Complete(k)
               /\ 0 \in DOMAIN calls' /\ calls'[0].caller = e => KnownOf(0)'
    <3>1. e # c
      BY <1>10, <2>3
    <3>2. \A k \in DOMAIN calls : calls[k].caller = e => rs'[k] = rs[k]
      BY <1>6, <1>10, <3>1, CallsTyped
    <3>3. Opened(e)' = Opened(e)
      BY <1>7, <3>1
    <3> QED
      BY <1>2, <1>11, <1>13, <2>3, <3>1, <3>2, <3>3
  <2> QED
    BY <1>2, <1>3, <1>4, <1>8, <2>1, <2>2, <2>3, AwaitedKept, Zenon
<1>15. WaitsInv'
  BY <1>2, <1>3, <1>4, WaitsKept
<1> QED
  BY <1>7, <1>8, <1>9, <1>14, <1>15 DEF AnswerInv

LEMMA TimerAnswers ==
  ASSUME TypeOK, Known, TypeOK', Known', AnswerInv, NEW c \in Client, processPostedMessages(c)
  PROVE  AnswerInv'
<1>1. PICK f : f = [at |-> "posted", n |-> 0, oldKey |-> None, did |-> "nothing", seen |-> {}]
  OBVIOUS
<1>2. f \in Frame /\ f.at = "posted"
  BY <1>1 DEF Frame, Keys
<1>3. /\ UNCHANGED calls /\ deaths' = deaths /\ rs' = rs /\ toClient' = toClient /\ transaction' = transaction
      /\ transactionId' = transactionId /\ messages' = messages
      /\ pendingReplies' = pendingReplies /\ waits' = waits
      /\ transactionList' = transactionList
      /\ stack' = stack \/ stack' = [stack EXCEPT ![c] = Append(stack[c], f)]
      /\ AtEventLoop(c)
  BY <1>1 DEF processPostedMessages, asked, current, Push
<1>4. /\ WireInv /\ PostedInv /\ StackInv /\ OwedInv /\ WaitsInv /\ DelayInv
      /\ Life /\ Awaited
  BY DEF AnswerInv
<1>5. Grows
  BY <1>3 DEF Grows, deaths
<1>6. stack[c] \in Seq(Frame) /\ Alike(stack[c], stack[c])
  BY SameAlike DEF TypeOK
<1>7. StackInv' /\ HandledSame /\ OpenedSame
  <2>1. CASE stack' = stack
    <3>1. \A e \in Client : Alike(stack[e], stack'[e])
      BY <2>1, SameAlike
    <3> QED
      BY <1>4, <1>5, <3>1, AlikeStacks
  <2>2. CASE stack' = [stack EXCEPT ![c] = Append(stack[c], f)]
    <3>1. /\ StackInv'
          /\ \A d \in Client : Handled(d)' =
               IF d = c /\ f.at = "handler" THEN Handled(c) \union {f.n} ELSE Handled(d)
          /\ \A d \in Client : Opened(d)' =
               IF d = c /\ f.at = "call" THEN Opened(c) \union {f.n} ELSE Opened(d)
      BY <1>2, <1>4, <1>5, <1>6, <2>2, StackPushed
    <3> QED
      BY <1>2, <3>1 DEF HandledSame, OpenedSame
  <2> QED
    BY <1>3, <2>1, <2>2
<1>8. WireInv' /\ PostedInv' /\ OwedInv' /\ Life' /\ OnlyAbout(0)
  BY <1>3, <1>4, <1>7, QuietLife
<1>9. DelayInv'
  <2>1. ~(In(c, "handler") /\ Top(c).did = "delayed")
    BY <1>3 DEF AtEventLoop, In, Idle
  <2>2. stack'[c] = stack[c] \/ stack'[c] = Append(stack[c], f)
    BY <1>3 DEF TypeOK
  <2>3. \A e \in Client \ {c} : stack'[e] = stack[e]
    BY <1>3 DEF TypeOK
  <2>4. DelayOf(c)'
    BY <1>2, <1>3, <1>4, <1>6, <2>1, <2>2, DelayCalling DEF DelayInv
  <2> QED
    BY <1>3, <1>4, <2>3, <2>4, DelayOthers
<1>10. Awaited' /\ WaitsInv'
  BY <1>3, <1>4, <1>7, <1>8, QuietAwaited DEF OpenedSame
<1> QED
  BY <1>7, <1>8, <1>9, <1>10 DEF AnswerInv

-----------------------------------------------------------------------------
(* Requests that move.                                                     *)

\* Of a request there is one message.
LEMMA OneRequest ==
  ASSUME NEW c, NEW m \in Message, NEW x \in Message, MessagePlaced(c, m), MessagePlaced(c, x),
         m.op \in Requests, x.op \in Requests, x.n = m.n
  PROVE  x = m
<1>1. x.from = m.from /\ x.tid = m.tid /\ x.op = m.op
  BY DEF MessagePlaced
<1> QED
  BY <1>1 DEF Message

\* A request moves from p to q.
Moves(n, p, q) ==
  /\ OnlyAbout(n) /\ At(n, p) /\ ~At(n, p)'
  /\ \A x \in Places : At(n, x)' => At(n, x) \/ x = q
  /\ \A id \in Nat : (Told(n, id)' => Told(n, id)) /\ (Promised(n, id)' => Promised(n, id))

\* Nobody has promised to answer a request that is not handled yet.
LEMMA RequestMoves ==
  ASSUME TypeOK, Known, TypeOK', Known', UNCHANGED calls, deaths' = deaths, Life, Awaited,
         NEW n \in DOMAIN calls, NEW p \in {"asked", "posted"}, NEW q \in Places, Moves(n, p, q),
         transactionId' = transactionId, rs' = rs, pendingReplies' = pendingReplies,
         OpenedSame, \A e \in Client : ~GaveUp(e) => WaitsRight(e)'
  PROVE  Life' /\ Awaited'
<1>1. Grows
  BY DEF Grows, deaths
<1>2. p \in Places /\ p \notin {"handled", "told"}
  BY DEF Places
<1>3. OwnLife(n)
  BY DEF Life
<1>4. \A x \in Places : At(n, x) => x = p
  BY <1>2, <1>3, Zenon DEF OwnLife, Moves
<1>5. ASSUME NEW id \in Nat PROVE ~Promised(n, id) /\ ~Told(n, id)
  BY <1>2, <1>3, <1>4, ToldIsThere, Zenon DEF OwnLife, Moves
<1>6. ASSUME NEW id \in Nat PROVE ~Promised(n, id)' /\ ~Told(n, id)'
  BY <1>5, Zenon DEF Moves
<1>7. ASSUME NEW x \in Places, At(n, x)' PROVE x = q
  BY <1>4, <1>7, Zenon DEF Moves
<1>8. OwnLife(n)'
  BY <1>6, <1>7, Zenon DEF OwnLife
<1>9. OnlyAbout(n)
  BY DEF Moves
<1>10. Life'
  <2>1. \A e \in Client : transactionId[e] <= transactionId'[e]
    BY DEF TypeOK
  <2> QED
    BY <1>1, <1>6, <1>8, <1>9, <2>1, LifeKept
<1>11. ASSUME NEW e \in Client, ~GaveUp(e), calls[n].caller = e PROVE KnownOf(n)'
  <2>1. KnownOf(n)
    BY <1>11 DEF Awaited, AwaitedBy
  <2>2. rs[n].tid = -1
    BY <1>2, <2>1, Zenon DEF KnownOf, Moves
  <2>3. /\ rs[n].of \in {0, n}
        /\ n \in ToSet(pendingReplies[e]) <=> rs[n].tid \notin {0, -1}
        /\ calls[n].kind # "send" /\ ~Complete(n) => n \in Opened(e)
    BY <1>11, <2>1 DEF KnownOf
  <2>4. Opened(e)' = Opened(e) /\ (Complete(n)' <=> Complete(n))
    BY DEF OpenedSame, Complete, Async
  <2> QED
    BY <1>6, <1>11, <2>2, <2>3, <2>4 DEF KnownOf
<1>12. Awaited'
  <2>1. \A k \in CallNo : k \notin DOMAIN calls' => rs'[k] = NoReply
    BY DEF Awaited
  <2>2. \A k \in DOMAIN calls : rs[k].failed => rs'[k].failed
    OBVIOUS
  <2>3. ASSUME NEW e \in Client, ~GaveUp(e), ~GaveUp(e)'
        PROVE  /\ WaitsRight(e)' /\ Once(pendingReplies[e])'
               /\ \A k \in DOMAIN calls : calls[k].caller = e /\ k # n =>
                    /\ rs'[k] = rs[k]
                    /\ k \in ToSet(pendingReplies[e])' <=> k \in ToSet(pendingReplies[e])
                    /\ k \in Opened(e) => k \in Opened(e)' \/ Complete(k)
               /\ n \in DOMAIN calls' /\ calls'[n].caller = e => KnownOf(n)'
    <3>1. Once(pendingReplies[e])
      BY <2>3 DEF Awaited, AwaitedBy
    <3> QED
      BY <1>11, <2>3, <3>1 DEF OpenedSame
  <2>4. DOMAIN calls' \subseteq DOMAIN calls \union {n}
    OBVIOUS
  <2> QED
    BY <1>1, <1>9, <2>1, <2>2, <2>3, <2>4, AwaitedKept, Zenon
<1> QED
  BY <1>10, <1>12

\* A request that waits to be handled is nowhere else.
LEMMA NotBegun ==
  ASSUME TypeOK, Life, NEW n \in DOMAIN calls, NEW p \in {"asked", "posted"}, At(n, p)
  PROVE  /\ \A x \in Places : At(n, x) => x = p
         /\ \A id \in Nat : ~Promised(n, id) /\ ~Told(n, id)
         /\ n \notin Handled(calls[n].callee)
         /\ \A t \in transactionList[calls[n].callee] : t.n # n
<1>1. p \in Places /\ p \notin {"handled", "told"} /\ "handled" \in Places
  BY DEF Places
<1>2. OwnLife(n)
  BY DEF Life
<1>3. \A x \in Places : At(n, x) => x = p
  BY <1>1, <1>2, Zenon DEF OwnLife
<1>4. \A id \in Nat : ~Promised(n, id) /\ ~Told(n, id)
  BY <1>1, <1>2, <1>3, ToldIsThere, Zenon DEF OwnLife
<1>5. ~At(n, "handled")
  BY <1>1, <1>3, Zenon
<1>6. n \notin Handled(calls[n].callee)
  BY <1>5, Zenon DEF At
<1>7. ASSUME NEW t \in transactionList[calls[n].callee], t.n = n PROVE FALSE
  <2>1. t.id \in Nat
    BY Parties DEF TypeOK, Transaction
  <2>2. Promised(n, t.id)
    BY <1>7 DEF Promised, Owed
  <2> QED
    BY <1>4, <2>1, <2>2, Zenon
<1> QED
  BY <1>3, <1>4, <1>6, <1>7

\* A handler begins, on top of frames that go on as they are.
LEMMA HandlerBegins ==
  ASSUME TypeOK, Known, StackInv, DelayInv, UNCHANGED calls, deaths' = deaths, NEW c \in Client,
         NEW n \in DOMAIN calls, NEW F \in Seq(Frame), Alike(stack[c], F), Receive(c, n, F),
         \A i \in DOMAIN stack[c] : F[i].did = stack[c][i].did,
         ~(In(c, "handler") /\ Top(c).did = "delayed"),
         n \notin Handled(c), calls[n].callee = c, \A t \in transactionList[c] : t.n # n,
         transactionList' = transactionList, transactionId' = transactionId
  PROVE  /\ StackInv' /\ DelayInv' /\ OpenedSame
         /\ \A d \in Client : Handled(d)' = IF d = c THEN Handled(c) \union {n} ELSE Handled(d)
<1>1. PICK f : f = [at |-> "handler", n |-> n, oldKey |-> currentKey[c], did |-> "nothing", seen |-> {}]
  OBVIOUS
<1>2. f \in Frame /\ f.at = "handler" /\ f.n = n /\ f.did = "nothing"
  BY <1>1, CallsTyped DEF Frame, TypeOK
<1>3. stack' = [stack EXCEPT ![c] = Append(F, f)] /\ transaction' = [transaction EXCEPT ![c] = FALSE]
  BY <1>1 DEF Receive
<1>4. Grows /\ calls'[f.n].callee = c
  BY <1>2 DEF Grows, deaths
<1>5. /\ StackInv'
      /\ \A d \in Client : Handled(d)' =
           IF d = c /\ f.at = "handler" THEN Handled(c) \union {f.n} ELSE Handled(d)
      /\ \A d \in Client : Opened(d)' =
           IF d = c /\ f.at = "call" THEN Opened(c) \union {f.n} ELSE Opened(d)
  BY <1>2, <1>3, <1>4, StackPushed
<1>6. OpenedSame /\ \A d \in Client : Handled(d)' = IF d = c THEN Handled(c) \union {n} ELSE Handled(d)
  BY <1>2, <1>5 DEF OpenedSame
<1>7. /\ stack'[c] = Append(F, f) /\ ~transaction'[c]
      /\ \A d \in Client \ {c} : stack'[d] = stack[d] /\ transaction'[d] = transaction[d]
  BY <1>3 DEF TypeOK
<1>8. /\ Len(F) \in Nat /\ DOMAIN stack'[c] = 1 .. Len(F) + 1 /\ stack'[c][Len(F) + 1] = f
      /\ DOMAIN F = 1 .. Len(F) /\ \A i \in 1 .. Len(F) : stack'[c][i] = F[i]
  BY <1>2, <1>7, AppendToSeq, LenProperties
<1>9. DelayOf(c)
  BY DEF DelayInv
<1>10. ASSUME NEW i \in DOMAIN stack'[c], stack'[c][i].at = "handler"
       PROVE  /\ stack'[c][i].did # "delayed"
              /\ \/ \E j \in DOMAIN stack[c] : /\ stack[c][j].at = "handler"
                                               /\ stack[c][j].did # "delayed"
                                               /\ stack[c][j].n = stack'[c][i].n
                 \/ ~transaction'[c] /\ \A t \in transactionList[c] : t.n # stack'[c][i].n
  <2>1. CASE i = Len(F) + 1
    BY <1>2, <1>7, <1>8, <2>1
  <2>2. CASE i # Len(F) + 1
    <3>1. i \in DOMAIN stack[c] /\ stack'[c][i] = F[i]
      BY <1>8, <2>2 DEF Alike
    <3>2. stack[c][i].at = "handler" /\ stack[c][i].n = stack'[c][i].n
          /\ stack'[c][i].did = stack[c][i].did
      BY <1>10, <3>1 DEF Alike
    <3>3. stack[c][i].did # "delayed"
      BY <1>9, <3>1, <3>2, NoneDelays
    <3> QED
      BY <3>1, <3>2, <3>3
  <2> QED
    BY <2>1, <2>2
<1>11. transactionList'[c] \subseteq transactionList[c] /\ (transaction'[c] => transaction[c])
  BY <1>7
<1>12. DelayOf(c)'
  BY <1>9, <1>10, <1>11, DelayKept, Zenon
<1>13. DelayInv'
  BY <1>7, <1>12, DelayOthers
<1> QED
  BY <1>5, <1>6, <1>13

\* What the loop of processPostedMessagesInternal() does next.
LEMMA ProcessPostedCases ==
  ASSUME TypeOK, Known, NEW c \in Client, ProcessPosted(c)
  PROVE  /\ ~Idle(c) /\ Top(c).at = "posted" /\ Top(c) \in Frame
         /\ UNCHANGED calls /\ deaths' = deaths /\ rs' = rs /\ toClient' = toClient
         /\ transactionId' = transactionId /\ pendingReplies' = pendingReplies
         /\ waits' = waits /\ transactionList' = transactionList
         /\ \/ stack' = Pop(c) /\ transaction' = transaction /\ messages' = messages
            \/ \E k \in DOMAIN messages[c] : \E f \in Frame :
                 /\ f.at = Top(c).at /\ f.n = Top(c).n /\ f.did = Top(c).did
                 /\ messages' = [messages EXCEPT ![c] = RemoveAt(messages[c], k)]
                 /\ Receive(c, messages[c][k], ReplaceTop(c, f))
<1> DEFINE fits == {i \in DOMAIN messages[c] : /\ messages[c][i] \notin Top(c).seen
                                               /\ currentKey[c] \in {None, calls[messages[c][i]].key}}
           k == First(fits)
           f == [Top(c) EXCEPT !.seen = @ \union {messages[c][j] : j \in 1 .. k - 1}]
<1>1. /\ In(c, "posted")
      /\ UNCHANGED <<asked, toClient, transactionId, pendingReplies, waits, transactionList,
                     deaths>>
  BY Zenon DEF ProcessPosted
<1>2. ~Idle(c) /\ Top(c).at = "posted" /\ Top(c) \in Frame
  <2>1. ~Idle(c) /\ Top(c).at = "posted"
    BY <1>1 DEF In, Idle
  <2> QED
    BY <2>1, TopTyped
<1>3. /\ UNCHANGED calls /\ deaths' = deaths /\ rs' = rs /\ toClient' = toClient
      /\ transactionId' = transactionId /\ pendingReplies' = pendingReplies
      /\ waits' = waits /\ transactionList' = transactionList
  BY <1>1 DEF asked
<1>4. CASE fits = {}
  <2>1. stack' = Pop(c) /\ transaction' = transaction /\ messages' = messages
    BY <1>4 DEF ProcessPosted
  <2> QED
    BY <1>2, <1>3, <2>1
<1>5. CASE fits # {}
  <2>1. /\ messages[c] \in Seq(CallNo) /\ Len(messages[c]) \in Nat
        /\ DOMAIN messages[c] = 1 .. Len(messages[c])
        /\ messages[c] \in [1 .. Len(messages[c]) -> CallNo]
    BY LenProperties DEF TypeOK
  <2>2. k \in DOMAIN messages[c] /\ k \in 1 .. Len(messages[c])
    <3>1. fits \subseteq 1 .. Len(messages[c])
      BY <2>1
    <3>2. k \in fits
      BY <1>5, <2>1, <3>1, FirstIsThere
    <3> HIDE DEF fits, k
    <3> QED
      BY <3>1, <3>2, <2>1
  <2>3. /\ messages' = [messages EXCEPT ![c] = RemoveAt(messages[c], k)]
        /\ Receive(c, messages[c][k], ReplaceTop(c, f))
    BY <1>5 DEF ProcessPosted
  <2>4. f \in Frame /\ f.at = Top(c).at /\ f.n = Top(c).n /\ f.did = Top(c).did
    <3> HIDE DEF k, fits
    <3>1. {messages[c][j] : j \in 1 .. k - 1} \subseteq CallNo
      BY <2>1, <2>2, ElementsBefore, Zenon
    <3> QED
      BY <1>2, <3>1 DEF Frame
  <2> HIDE DEF fits, k, f
  <2> QED
    BY <1>2, <1>3, <2>2, <2>3, <2>4, Zenon
<1> QED
  BY <1>4, <1>5

LEMMA ProcessPostedAnswers ==
  ASSUME TypeOK, Known, TypeOK', Known', AnswerInv, NEW c \in Client, ProcessPosted(c)
  PROVE  AnswerInv'
<1>2. /\ ~Idle(c) /\ Top(c).at = "posted" /\ Top(c) \in Frame
      /\ UNCHANGED calls /\ deaths' = deaths /\ rs' = rs /\ toClient' = toClient
      /\ transactionId' = transactionId /\ pendingReplies' = pendingReplies
      /\ waits' = waits /\ transactionList' = transactionList
  BY ProcessPostedCases
<1>3. /\ WireInv /\ PostedInv /\ StackInv /\ OwedInv /\ WaitsInv /\ DelayInv
      /\ Life /\ Awaited
  BY DEF AnswerInv
<1>4. Grows
  BY <1>2 DEF Grows, deaths
<1>5. CASE stack' = Pop(c) /\ transaction' = transaction /\ messages' = messages
  <2>1. stack' = Pop(c) /\ transaction' = transaction /\ messages' = messages
    BY <1>5
  <2>2. PICK f : f = Top(c)
    OBVIOUS
  <2>3. StackInv' /\ HandledSame /\ OpenedSame
    <3>1. /\ StackInv'
          /\ \A d \in Client : Handled(d)' =
               IF d = c /\ f.at = "handler" THEN Handled(c) \ {f.n} ELSE Handled(d)
          /\ \A d \in Client : Opened(d)' =
               IF d = c /\ f.at = "call" THEN Opened(c) \ {f.n} ELSE Opened(d)
      BY <1>2, <1>3, <1>4, <2>1, <2>2, StackPopped
    <3> QED
      BY <1>2, <2>2, <3>1 DEF HandledSame, OpenedSame
  <2>4. WireInv' /\ PostedInv' /\ OwedInv' /\ Life' /\ OnlyAbout(0)
    BY <1>2, <1>3, <2>1, <2>3, QuietLife
  <2>5. DelayInv'
    <3>1. DelayOf(c)'
      BY <1>2, <1>3, <2>1, DelayPopped DEF DelayInv
    <3> QED
      BY <1>2, <1>3, <2>1, <3>1, OthersPopped, DelayOthers
  <2>6. Awaited' /\ WaitsInv'
    BY <1>2, <1>3, <2>3, <2>4, QuietAwaited DEF OpenedSame
  <2> QED
    BY <2>3, <2>4, <2>5, <2>6 DEF AnswerInv
<1>6. CASE \E k \in DOMAIN messages[c] : \E f \in Frame :
            /\ f.at = Top(c).at /\ f.n = Top(c).n /\ f.did = Top(c).did
            /\ messages' = [messages EXCEPT ![c] = RemoveAt(messages[c], k)]
            /\ Receive(c, messages[c][k], ReplaceTop(c, f))
  <2>1. PICK k \in DOMAIN messages[c] : \E f \in Frame :
          /\ f.at = Top(c).at /\ f.n = Top(c).n /\ f.did = Top(c).did
          /\ messages' = [messages EXCEPT ![c] = RemoveAt(messages[c], k)]
          /\ Receive(c, messages[c][k], ReplaceTop(c, f))
    BY <1>6, Zenon
  <2>2. PICK f \in Frame :
          /\ f.at = Top(c).at /\ f.n = Top(c).n /\ f.did = Top(c).did
          /\ messages' = [messages EXCEPT ![c] = RemoveAt(messages[c], k)]
          /\ Receive(c, messages[c][k], ReplaceTop(c, f))
    BY <2>1, Zenon
  <2>3. PICK n : n = messages[c][k]
    OBVIOUS
  <2>4. Receive(c, n, ReplaceTop(c, f))
    BY <2>2, <2>3, Zenon
  <2>5. k \in DOMAIN messages[c]
    BY <2>1, Zenon
  <2>6. messages' = [messages EXCEPT ![c] = RemoveAt(messages[c], k)]
    BY <2>2, Zenon
  <2>7. f.at = Top(c).at /\ f.n = Top(c).n /\ f.did = Top(c).did
    BY <2>2, Zenon
  <2>8. /\ ReplaceTop(c, f) \in Seq(Frame) /\ Alike(stack[c], ReplaceTop(c, f))
        /\ \A i \in DOMAIN stack[c] : ReplaceTop(c, f)[i].did = stack[c][i].did
    <3>1. /\ ReplaceTop(c, f) \in Seq(Frame)
          /\ DOMAIN ReplaceTop(c, f) = DOMAIN stack[c]
          /\ \A i \in DOMAIN stack[c] : /\ ReplaceTop(c, f)[i].at = stack[c][i].at
                                        /\ ReplaceTop(c, f)[i].n = stack[c][i].n
          /\ \A i \in DOMAIN stack[c] : i # Len(stack[c]) => ReplaceTop(c, f)[i] = stack[c][i]
          /\ ReplaceTop(c, f)[Len(stack[c])] = f
      BY <1>2, <2>7, ReplaceTopTyped
    <3>2. ASSUME NEW i \in DOMAIN stack[c] PROVE ReplaceTop(c, f)[i].did = stack[c][i].did
      <4>1. CASE i = Len(stack[c])
        BY <2>7, <3>1, <4>1 DEF Top
      <4>2. CASE i # Len(stack[c])
        BY <3>1, <4>2
      <4> QED
        BY <4>1, <4>2
    <3> QED
      BY <3>1, <3>2 DEF Alike
  <2>9. PostedInv' /\ n \in ToSet(messages[c]) /\ PostedLess(c, n)
    BY <1>2, <1>3, <2>3, <2>5, <2>6, PostedTaken
  <2>10. calls[n].callee = c /\ n \in DOMAIN calls
    BY <1>3, <2>9, Elements DEF PostedInv
  <2>11. At(n, "posted") /\ ~At(n, "posted")'
    BY <1>2, <2>9, <2>10 DEF At, PostedLess
  <2>12. /\ \A x \in Places : At(n, x) => x = "posted"
         /\ \A id \in Nat : ~Promised(n, id) /\ ~Told(n, id)
         /\ n \notin Handled(c) /\ \A t \in transactionList[c] : t.n # n
    BY <1>3, <2>10, <2>11, NotBegun
  <2>13. ~(In(c, "handler") /\ Top(c).did = "delayed")
    BY <1>2 DEF In
  <2>14. /\ StackInv' /\ DelayInv' /\ OpenedSame
         /\ \A d \in Client : Handled(d)' = IF d = c THEN Handled(c) \union {n} ELSE Handled(d)
    BY <1>2, <1>3, <2>4, <2>8, <2>10, <2>12, <2>13, HandlerBegins
  <2>15. WireInv' /\ \A e \in Client : Wire(e)' = Wire(e)
    BY <1>2, <1>3, <1>4, WireKept
  <2>16. OwedInv'
    BY <1>2, <1>3, <1>4, OwedKept
  <2>17. OnlyAbout(n)
    BY <1>2, <2>9, <2>14, <2>15 DEF OnlyAbout, PostedLess
  <2>18. calls[n].caller \in Client
    BY <2>10, Parties
  <2>19. \A x \in Places : At(n, x)' => At(n, x) \/ x = "handled"
    BY <1>2, <2>9, <2>10, <2>14, <2>15, <2>18 DEF At, PostedLess
  <2>20. \A id \in Nat : (Told(n, id)' => Told(n, id)) /\ (Promised(n, id)' => Promised(n, id))
    BY <1>2, <2>15, <2>18 DEF Told, Promised, Owed, Late
  <2>21. Moves(n, "posted", "handled")
    BY <2>11, <2>17, <2>19, <2>20 DEF Moves
  <2>22. ASSUME NEW e \in Client, ~GaveUp(e) PROVE WaitsRight(e)'
    <3>1. WaitsRight(e)
      BY <1>3, <2>22 DEF Awaited, AwaitedBy
    <3>2. Opened(e)' = Opened(e) /\ \A l : Complete(l)' <=> Complete(l)
      BY <1>2, <2>14 DEF OpenedSame, Complete, Async
    <3> QED
      BY <1>2, <3>1, <3>2 DEF WaitsRight
  <2>23. Life' /\ Awaited'
    <3>1. "handled" \in Places
      BY DEF Places
    <3> QED
      BY <1>2, <1>3, <2>10, <2>14, <2>21, <2>22, <3>1, RequestMoves
  <2>24. WaitsInv'
    BY <1>2, <1>3, <1>4, WaitsKept
  <2> QED
    BY <2>9, <2>14, <2>15, <2>16, <2>23, <2>24 DEF AnswerInv
<1> QED
  BY <1>5, <1>6, ProcessPostedCases, Zenon

-----------------------------------------------------------------------------
(* Messages that are read.                                                 *)

\* The first reply wait of a client that did not give up is that of its open call.
LEMMA WaitsForOpened ==
  ASSUME TypeOK, Known, StackInv, NEW c \in Client, MayRead(c), WaitsRight(c)
  PROVE  \/ Opened(c) = {} /\ Waiting(c) = << >> /\ ReplyWaitFor(c) = 0
         \/ \E k \in CallNo : /\ Opened(c) = {k} /\ ~Complete(k) /\ Waiting(c) = <<k>>
                              /\ ReplyWaitFor(c) = k /\ Tail(Waiting(c)) = << >>
<1>1. CASE Idle(c)
  <2>1. Opened(c) = {}
    <3>1. DOMAIN stack[c] = {}
      BY <1>1, EmptySeq DEF Idle
    <3> QED
      BY <3>1 DEF Opened, Numbers
  <2>2. waits[c] = << >>
    BY <2>1 DEF WaitsRight
  <2> QED
    BY <1>1, <2>1, <2>2 DEF Waiting, ReplyWaitFor
<1>2. CASE ~Idle(c)
  <2>1. PICK k : k = Top(c).n
    OBVIOUS
  <2>2. Top(c).at = "call" /\ ~Complete(k)
    BY <1>2, <2>1 DEF MayRead, In
  <2>3. /\ Len(stack[c]) \in DOMAIN stack[c] /\ Top(c) = stack[c][Len(stack[c])] /\ k \in CallNo
    <3>1. Len(stack[c]) \in Nat \ {0} /\ DOMAIN stack[c] = 1 .. Len(stack[c]) /\ Top(c).n \in CallNo
      BY <1>2, <2>2, TopTyped
    <3> QED
      BY <2>1, <3>1 DEF Top
  <2>4. Opened(c) = {k}
    <3>1. k \in Opened(c)
      BY <2>1, <2>2, <2>3, InNumbers DEF Opened
    <3>2. ASSUME NEW x \in Opened(c) PROVE x = k
      <4>1. PICK i \in DOMAIN stack[c] : stack[c][i].at = "call" /\ stack[c][i].n = x
        BY InNumbers DEF Opened
      <4>2. i = Len(stack[c])
        BY <2>2, <2>3, <4>1 DEF StackInv, AloneAt
      <4> QED
        BY <2>1, <2>3, <4>1, <4>2
    <3> QED
      BY <3>1, <3>2
  <2>5. Waiting(c) = <<k>>
    <3>1. CASE waits[c] = << >>
      <4>1. k \notin ToSet(waits[c])
        BY <3>1 DEF ToSet
      <4> QED
        BY <1>2, <2>1, <3>1, <4>1 DEF Waiting
    <3>2. CASE waits[c] = <<k>>
      <4>1. k \in ToSet(waits[c])
        BY <3>2, Single
      <4> QED
        BY <1>2, <2>1, <3>2, <4>1 DEF Waiting
    <3> QED
      BY <2>4, <3>1, <3>2 DEF WaitsRight
  <2>6. ReplyWaitFor(c) = k /\ Tail(Waiting(c)) = << >>
    BY <1>2, <2>5, Single DEF ReplyWaitFor
  <2> QED
    BY <2>2, <2>3, <2>4, <2>5, <2>6
<1> QED
  BY <1>1, <1>2

\* A call that c made and that is answered.
Made(c, n) == n \in DOMAIN calls /\ calls[n].caller = c /\ calls[n].kind # "send"

\* Whether or not c gave up, it waits for calls it made.
LEMMA WaitsForMade ==
  ASSUME TypeOK, Known, StackInv, WaitsInv, NEW c \in Client, MayRead(c)
  PROVE  /\ \A x \in ToSet(Waiting(c)) : Made(c, x)
         /\ ReplyWaitFor(c) # 0 => /\ Made(c, ReplyWaitFor(c))
                                   /\ \A x \in ToSet(Tail(Waiting(c))) : Made(c, x)
<1>1. \A x \in ToSet(waits[c]) : Made(c, x)
  BY DEF WaitsInv, Made
<1>2. waits[c] \in Seq(CallNo)
  BY DEF TypeOK
<1>3. CASE Idle(c)
  BY <1>1, <1>3 DEF Waiting, ReplyWaitFor
<1>4. CASE ~Idle(c)
  <2>1. Top(c).at = "call"
    BY <1>4 DEF MayRead, In
  <2>2. Top(c).n \in CallNo /\ Top(c).n \in DOMAIN calls
    BY <1>4, <2>1, TopTyped
  <2>3. Made(c, Top(c).n)
    <3>1. Len(stack[c]) \in DOMAIN stack[c] /\ Top(c) = stack[c][Len(stack[c])]
      <4>1. Len(stack[c]) \in Nat \ {0} /\ DOMAIN stack[c] = 1 .. Len(stack[c])
        BY <1>4, TopTyped
      <4> QED
        BY <4>1 DEF Top
    <3>2. Top(c).n \in Opened(c)
      BY <2>1, <3>1, InNumbers DEF Opened
    <3> QED
      BY <2>2, <3>2 DEF StackInv, Made
  <2>4. \/ Waiting(c) = waits[c] /\ Top(c).n \in ToSet(waits[c])
        \/ Waiting(c) = Append(waits[c], Top(c).n)
    BY <1>4 DEF Waiting
  <2>5. /\ Waiting(c) \in Seq(CallNo) /\ Waiting(c) # << >>
        /\ \A x \in ToSet(Waiting(c)) : Made(c, x)
    <3>1. CASE Waiting(c) = waits[c] /\ Top(c).n \in ToSet(waits[c])
      <4>1. waits[c] # << >>
        BY <3>1 DEF ToSet
      <4> QED
        BY <1>1, <1>2, <3>1, <4>1
    <3>2. CASE Waiting(c) = Append(waits[c], Top(c).n)
      <4>1. ToSet(Waiting(c)) = ToSet(waits[c]) \union {Top(c).n}
        BY <1>2, <2>2, <3>2, Appended
      <4>2. Waiting(c) \in Seq(CallNo) /\ Waiting(c) # << >>
        BY <1>2, <2>2, <3>2, AppendProperties
      <4> QED
        BY <1>1, <2>3, <4>1, <4>2
    <3> QED
      BY <2>4, <3>1, <3>2
  <2>6. PICK w : w = Waiting(c)
    OBVIOUS
  <2>7. /\ Len(w) \in Nat \ {0} /\ DOMAIN w = 1 .. Len(w)
        /\ Len(Tail(w)) = Len(w) - 1 /\ DOMAIN Tail(w) = 1 .. Len(w) - 1
        /\ \A i \in 1 .. Len(w) - 1 : Tail(w)[i] = w[i + 1]
    <3>1. w \in Seq(CallNo) /\ w # << >>
      BY <2>5, <2>6
    <3>2. Tail(w) \in Seq(CallNo) /\ Len(Tail(w)) = Len(w) - 1
          /\ \A i \in 1 .. Len(Tail(w)) : Tail(w)[i] = w[i + 1]
      BY <3>1, HeadTailProperties
    <3> QED
      BY <3>1, <3>2, LenProperties, EmptySeq
  <2>8. w[1] \in ToSet(w)
    BY <2>7, InToSet
  <2>9. ASSUME NEW x \in ToSet(Tail(w)) PROVE x \in ToSet(w)
    <3>1. PICK i \in DOMAIN Tail(w) : Tail(w)[i] = x
      BY DEF ToSet
    <3>2. i + 1 \in 1 .. Len(w)
      BY <2>7, <3>1
    <3>3. w[i + 1] = x
      BY <2>7, <3>1
    <3> QED
      BY <2>7, <3>2, <3>3, InToSet, Zenon
  <2>10. ReplyWaitFor(c) = w[1]
    BY <1>4, <2>6 DEF ReplyWaitFor
  <2> QED
    BY <2>5, <2>6, <2>8, <2>9, <2>10, Zenon
<1> QED
  BY <1>3, <1>4

\* The message m is the next one of c.
Reads(c, m) ==
  /\ MayRead(c) /\ toClient[c] # << >> /\ m = Head(toClient[c])
  /\ toClient' = [toClient EXCEPT ![c] = Tail(toClient[c])]
  /\ UNCHANGED calls /\ deaths' = deaths /\ transactionId' = transactionId /\ transactionList' = transactionList

LEMMA ReadTaken ==
  ASSUME TypeOK, Known, WireInv, NEW c \in Client, NEW m, Reads(c, m)
  PROVE  /\ WireInv' /\ Taken(c, m) /\ m \in Wire(c) /\ m \in Message /\ MessagePlaced(c, m)
         /\ m.n \in DOMAIN calls /\ m.n \in CallNo
         /\ m.op = "DCOPReplyDelayed" => \A x \in Wire(c) : ~(x.op = "DCOPReplyWait" /\ x.n = m.n)
<1>1. /\ UNCHANGED calls /\ deaths' = deaths /\ toClient[c] # << >> /\ m = Head(toClient[c])
      /\ toClient' = [toClient EXCEPT ![c] = Tail(toClient[c])]
  BY DEF Reads
<1>2. /\ WireInv' /\ m \in Wire(c) /\ m \in Message
      /\ \A e \in Client : Wire(e)' = IF e = c THEN Wire(c) \ {m} ELSE Wire(e)
      /\ m.op = "DCOPReplyDelayed" => \A x \in Wire(c) : ~(x.op = "DCOPReplyWait" /\ x.n = m.n)
  BY <1>1, WireRead DEF Grows, deaths
<1>3. MessagePlaced(c, m) /\ m.n \in DOMAIN calls /\ m.n \in CallNo
  BY <1>2, Elements DEF WireInv
<1> QED
  BY <1>2, <1>3 DEF Taken

\* The request n, read by c, is posted or handled.
HandledMore(c, n) ==
  \A d \in Client : Handled(d)' = IF d = c THEN Handled(c) \union {n} ELSE Handled(d)

LEMMA RequestRead ==
  ASSUME TypeOK, Known, WireInv, NEW c \in Client, NEW m, Reads(c, m), m.op \in Requests,
         NEW n, n = m.n, NEW q,
         \/ q = "posted" /\ PostedMore(c, n) /\ HandledSame
         \/ q = "handled" /\ PostedSame /\ HandledMore(c, n)
  PROVE  calls[n].callee = c /\ Moves(n, "asked", q)
<1>1. /\ Taken(c, m) /\ m \in Wire(c) /\ m \in Message /\ MessagePlaced(c, m)
      /\ n \in DOMAIN calls /\ n \in CallNo
  BY ReadTaken
<1>2. UNCHANGED calls /\ deaths' = deaths /\ transactionList' = transactionList
  BY DEF Reads
<1>3. calls[n].callee = c /\ calls[n].caller \in Client
  BY <1>1, Parties DEF MessagePlaced
<1>4. At(n, "asked")
  BY <1>1, <1>3 DEF At
<1>5. ~At(n, "asked")'
  <2>1. ASSUME NEW x \in Wire(c)', x.n = n, x.op \in Requests PROVE FALSE
    <3>1. x \in Wire(c) /\ x # m
      BY <1>1, <2>1 DEF Taken
    <3>2. x \in Message /\ MessagePlaced(c, x)
      BY <3>1, Elements DEF WireInv
    <3> QED
      BY <1>1, <2>1, <3>1, <3>2, OneRequest
  <2> QED
    BY <1>2, <1>3, <2>1 DEF At
<1>6. OnlyAbout(n)
  <2>1. ASSUME NEW e \in Client, NEW x \in Message, x.n # n PROVE x \in Wire(e)' <=> x \in Wire(e)
    BY <1>1, <2>1 DEF Taken
  <2>2. ASSUME NEW e \in Client, NEW k \in CallNo, k # n
        PROVE  /\ k \in ToSet(messages[e])' <=> k \in ToSet(messages[e])
               /\ k \in Handled(e)' <=> k \in Handled(e)
    BY <2>2 DEF PostedMore, PostedSame, HandledSame, HandledMore
  <2> QED
    BY <1>2, <2>1, <2>2 DEF OnlyAbout
<1>7. \A e \in Client : Wire(e)' \subseteq Wire(e)
  BY <1>1 DEF Taken
<1>8. ASSUME NEW x \in Places, At(n, x)' PROVE At(n, x) \/ x = q
  <2>1. CASE x \in {"asked", "replied", "failed", "told"}
    BY <1>2, <1>3, <1>7, <1>8, <2>1 DEF At
  <2>2. CASE x = "posted"
    BY <1>2, <1>3, <1>8, <2>2 DEF At, PostedSame
  <2>3. CASE x = "handled"
    BY <1>2, <1>3, <1>8, <2>3 DEF At, HandledSame
  <2> QED
    BY <2>1, <2>2, <2>3 DEF Places
<1>9. ASSUME NEW id \in Nat
      PROVE (Told(n, id)' => Told(n, id)) /\ (Promised(n, id)' => Promised(n, id))
  BY <1>2, <1>3, <1>7 DEF Told, Promised, Owed, Late
<1> QED
  BY <1>3, <1>4, <1>5, <1>6, <1>8, <1>9 DEF Moves

\* Nothing but the request moves.
LEMMA ReadRequestRest ==
  ASSUME TypeOK, Known, TypeOK', Known', AnswerInv, NEW c \in Client, NEW m, Reads(c, m),
         NEW n, n = m.n, NEW q \in Places, Moves(n, "asked", q), OpenedSame,
         rs' = rs, pendingReplies' = pendingReplies,
         waits' = [waits EXCEPT ![c] = Waiting(c)]
  PROVE  WireInv' /\ OwedInv' /\ WaitsInv' /\ Life' /\ Awaited'
<1>1. /\ WireInv /\ PostedInv /\ StackInv /\ OwedInv /\ WaitsInv /\ DelayInv
      /\ Life /\ Awaited
  BY DEF AnswerInv
<1>2. /\ MayRead(c) /\ UNCHANGED calls /\ deaths' = deaths /\ transactionId' = transactionId
      /\ transactionList' = transactionList
  BY DEF Reads
<1>3. Grows
  BY <1>2 DEF Grows, deaths
<1>4. WireInv' /\ n \in DOMAIN calls
  BY <1>1, ReadTaken
<1>5. OwedInv'
  BY <1>1, <1>2, <1>3, OwedKept
<1>6. waits'[c] = Waiting(c) /\ \A e \in Client \ {c} : waits'[e] = waits[e]
  BY DEF TypeOK
<1>7. WaitsInv'
  <2>1. ASSUME NEW e \in Client, NEW k \in ToSet(waits[e])' \union ToSet(pendingReplies[e])'
        PROVE  \/ k \in ToSet(waits[e]) \union ToSet(pendingReplies[e])
               \/ k \in DOMAIN calls /\ calls[k].caller = e /\ calls[k].kind # "send"
    <3>1. CASE e = c
      <4>1. \A x \in ToSet(Waiting(c)) : Made(c, x)
        BY <1>1, <1>2, WaitsForMade
      <4> QED
        BY <1>6, <2>1, <3>1, <4>1 DEF Made
    <3>2. CASE e # c
      BY <1>6, <2>1, <3>2
    <3> QED
      BY <3>1, <3>2
  <2> QED
    BY <1>1, <1>3, <2>1, WaitsKept, Zenon
<1>8. \A k : Complete(k)' <=> Complete(k)
  BY <1>2 DEF Complete, Async
<1>9. ASSUME NEW e \in Client, ~GaveUp(e) PROVE WaitsRight(e)'
  <2>1. WaitsRight(e)
    BY <1>1, <1>9 DEF Awaited, AwaitedBy
  <2>2. CASE e = c
    <3>1. \/ Waiting(c) = << >>
          \/ \E k \in CallNo : Opened(c) = {k} /\ ~Complete(k) /\ Waiting(c) = <<k>>
      BY <1>1, <1>2, <2>1, <2>2, WaitsForOpened, Zenon
    <3>2. Opened(c)' = Opened(c)
      BY DEF OpenedSame
    <3> QED
      BY <1>6, <1>8, <2>2, <3>1, <3>2 DEF WaitsRight
  <2>3. CASE e # c
    <3>1. waits'[e] = waits[e] /\ Opened(e)' = Opened(e)
      BY <1>6, <2>3 DEF OpenedSame
    <3> QED
      BY <1>8, <2>1, <3>1 DEF WaitsRight
  <2> QED
    BY <2>2, <2>3
<1>10. Life' /\ Awaited'
  BY <1>1, <1>2, <1>4, <1>9, RequestMoves
<1> QED
  BY <1>4, <1>5, <1>7, <1>10

LEMMA ReadRequestAnswers ==
  ASSUME TypeOK, Known, TypeOK', Known', AnswerInv, NEW c \in Client, NEW m, Reads(c, m),
         m.op \in Requests, ReceiveOrPost(c, m.n),
         rs' = rs, pendingReplies' = pendingReplies,
         waits' = [waits EXCEPT ![c] = Waiting(c)]
  PROVE  AnswerInv'
<1>1. /\ WireInv /\ PostedInv /\ StackInv /\ OwedInv /\ WaitsInv /\ DelayInv
      /\ Life /\ Awaited
  BY DEF AnswerInv
<1>2. /\ MayRead(c) /\ UNCHANGED calls /\ deaths' = deaths /\ transactionId' = transactionId
      /\ transactionList' = transactionList
  BY DEF Reads
<1>3. PICK n : n = m.n
  OBVIOUS
<1>4. /\ m \in Wire(c) /\ MessagePlaced(c, m) /\ n \in DOMAIN calls /\ n \in CallNo
  BY <1>1, <1>3, ReadTaken
<1>5. calls[n].callee = c /\ At(n, "asked")
  BY <1>3, <1>4 DEF MessagePlaced, At
<1>6. /\ \A x \in Places : At(n, x) => x = "asked"
      /\ n \notin Handled(c) /\ \A t \in transactionList[c] : t.n # n
  BY <1>1, <1>4, <1>5, NotBegun
<1>7. Grows
  BY <1>2 DEF Grows, deaths
<1>8. "posted" \in Places /\ "handled" \in Places
  BY DEF Places
<1>9. CASE currentKey[c] # None /\ calls[n].key # currentKey[c]
  <2>1. /\ messages' = [messages EXCEPT ![c] = Append(messages[c], n)]
        /\ transaction' = transaction /\ stack' = stack
    BY <1>3, <1>9 DEF ReceiveOrPost
  <2>2. n \notin ToSet(messages[c])
    <3>1. ~At(n, "posted")
      BY <1>6, <1>8
    <3> QED
      BY <1>5, <3>1, Zenon DEF At
  <2>3. PostedInv' /\ PostedMore(c, n)
    BY <1>1, <1>2, <1>4, <1>5, <2>1, <2>2, PostedAdded
  <2>4. StackInv' /\ HandledSame /\ OpenedSame
    <3>1. \A e \in Client : Alike(stack[e], stack'[e])
      BY <2>1, SameAlike
    <3> QED
      BY <1>1, <1>7, <3>1, AlikeStacks
  <2>5. DelayInv'
    <3>1. DelayOf(c)'
      BY <1>1, <1>2, <2>1, DelayStays DEF DelayInv
    <3> QED
      BY <1>1, <1>2, <2>1, <3>1, DelayOthers
  <2>6. Moves(n, "asked", "posted")
    BY <1>1, <1>3, <2>3, <2>4, RequestRead
  <2>7. WireInv' /\ OwedInv' /\ WaitsInv' /\ Life' /\ Awaited'
    BY <1>3, <1>8, <2>4, <2>6, ReadRequestRest
  <2> QED
    BY <2>3, <2>4, <2>5, <2>7 DEF AnswerInv
<1>10. CASE ~(currentKey[c] # None /\ calls[n].key # currentKey[c])
  <2>1. Receive(c, n, stack[c]) /\ messages' = messages
    BY <1>3, <1>10 DEF ReceiveOrPost, posted
  <2>2. PostedInv' /\ PostedSame
    BY <1>1, <1>7, <2>1, PostedKept DEF PostedSame
  <2>3. stack[c] \in Seq(Frame) /\ Alike(stack[c], stack[c])
    BY SameAlike DEF TypeOK
  <2>4. ~(In(c, "handler") /\ Top(c).did = "delayed")
    BY <1>2 DEF MayRead, In, Idle
  <2>5. StackInv' /\ DelayInv' /\ OpenedSame /\ HandledMore(c, n)
    BY <1>1, <1>2, <1>4, <1>5, <1>6, <2>1, <2>3, <2>4, HandlerBegins DEF HandledMore
  <2>6. Moves(n, "asked", "handled")
    BY <1>1, <1>3, <2>2, <2>5, RequestRead
  <2>7. WireInv' /\ OwedInv' /\ WaitsInv' /\ Life' /\ Awaited'
    BY <1>3, <1>8, <2>5, <2>6, ReadRequestRest
  <2> QED
    BY <2>2, <2>5, <2>7 DEF AnswerInv
<1> QED
  BY <1>9, <1>10

\* Reading an answer changes the ReplyStruct of a call that the reader made; whoever
\* gave up stays so.
WritesOwn(c) ==
  \A k \in CallNo :
    /\ rs'[k].failed = rs[k].failed
    /\ rs'[k] = rs[k] \/ Made(c, k)

\* Its new list of reply waits is one of two.
WaitsNext(c) ==
  \/ waits' = [waits EXCEPT ![c] = Waiting(c)]
  \/ ReplyWaitFor(c) # 0 /\ waits' = [waits EXCEPT ![c] = Tail(Waiting(c))]

Writes(k, r) == rs' = [rs EXCEPT ![k] = r]

LEMMA WritesOne ==
  ASSUME TypeOK, NEW c, NEW k \in CallNo, Made(c, k), NEW r \in ReplyStruct,
         r.failed = rs[k].failed, Writes(k, r)
  PROVE  WritesOwn(c) /\ rs'[k] = r /\ \A l \in CallNo : l # k => rs'[l] = rs[l]
<1>1. rs'[k] = r /\ \A l \in CallNo : l # k => rs'[l] = rs[l]
  BY DEF TypeOK, Writes
<1> QED
  BY <1>1 DEF WritesOwn

\* The ReplyStruct that is answered.
LEMMA AnsweredOne ==
  ASSUME TypeOK, NEW c, NEW k \in CallNo, Made(c, k), NEW m \in Message, rs' = Answered(k, m)
  PROVE  /\ WritesOwn(c) /\ rs'[k].tid = 0 /\ rs'[k].of = m.n
         /\ \A l \in CallNo : l # k => rs'[l] = rs[l]
<1>1. PICK r : r = [rs[k] EXCEPT !.tid = 0, !.of = m.n]
  OBVIOUS
<1>2. rs[k] \in ReplyStruct /\ m.n \in CallNo /\ 0 \in Int
  BY DEF TypeOK, Message
<1>3. r \in ReplyStruct /\ r.failed = rs[k].failed /\ r.tid = 0 /\ r.of = m.n
  BY <1>1, <1>2 DEF ReplyStruct
<1>4. Writes(k, r)
  BY <1>1 DEF Answered, Writes
<1>5. WritesOwn(c) /\ rs'[k] = r /\ \A l \in CallNo : l # k => rs'[l] = rs[l]
  BY <1>3, <1>4, WritesOne
<1> QED
  BY <1>3, <1>5

\* The ReplyStruct of a call that is told to wait.
WritesId(k, m) == rs' = [rs EXCEPT ![k].tid = m.tid, ![k].calledApp = m.from]

LEMMA ToldOne ==
  ASSUME TypeOK, NEW c, NEW k \in CallNo, Made(c, k), NEW m \in Message, WritesId(k, m)
  PROVE  /\ WritesOwn(c) /\ rs'[k].tid = m.tid /\ rs'[k].calledApp = m.from
         /\ rs'[k].of = rs[k].of
         /\ \A l \in CallNo : l # k => rs'[l] = rs[l]
<1>1. PICK r : r = [rs[k] EXCEPT !.tid = m.tid, !.calledApp = m.from]
  OBVIOUS
<1>2. rs[k] \in ReplyStruct /\ m.tid \in Int /\ m.from \in Client
  <2>1. rs[k] \in ReplyStruct
    BY DEF TypeOK
  <2>2. m.tid \in Nat /\ m.from \in Client
    BY DEF Message
  <2> QED
    BY <2>1, <2>2
<1>3. /\ r \in ReplyStruct /\ r.failed = rs[k].failed /\ r.tid = m.tid
      /\ r.calledApp = m.from /\ r.of = rs[k].of
  BY <1>1, <1>2 DEF ReplyStruct
<1>4. Writes(k, r)
  BY <1>1 DEF Writes, WritesId
<1>5. WritesOwn(c) /\ rs'[k] = r /\ \A l \in CallNo : l # k => rs'[l] = rs[l]
  BY <1>3, <1>4, WritesOne
<1> QED
  BY <1>3, <1>5

\* The pending reply that is answered is the first with that id of that client.
LEMMA PendingAnswered ==
  ASSUME TypeOK, WaitsInv, NEW c \in Client, NEW m \in Message, AnswerPending(c, m)
  PROVE  \/ PendingFor(c, m) = {} /\ rs' = rs /\ pendingReplies' = pendingReplies
         \/ \E i \in PendingFor(c, m) : \E k \in CallNo :
              /\ i \in DOMAIN pendingReplies[c] /\ k = pendingReplies[c][i] /\ Made(c, k)
              /\ rs' = Answered(k, m)
              /\ pendingReplies' = [pendingReplies EXCEPT ![c] = RemoveAt(pendingReplies[c], i)]
<1>1. pendingReplies[c] \in Seq(CallNo) /\ Len(pendingReplies[c]) \in Nat
      /\ DOMAIN pendingReplies[c] = 1 .. Len(pendingReplies[c])
      /\ pendingReplies[c] \in [1 .. Len(pendingReplies[c]) -> CallNo]
  BY LenProperties DEF TypeOK
<1>2. CASE PendingFor(c, m) = {}
  BY <1>2 DEF AnswerPending
<1>3. CASE PendingFor(c, m) # {}
  <2>1. PICK i : i = First(PendingFor(c, m))
    OBVIOUS
  <2>2. PendingFor(c, m) \subseteq 1 .. Len(pendingReplies[c])
    BY <1>1 DEF PendingFor
  <2>3. i \in PendingFor(c, m)
    BY <1>1, <1>3, <2>1, <2>2, FirstIsThere
  <2>4. i \in 1 .. Len(pendingReplies[c])
    BY <2>2, <2>3
  <2>5. PICK k : k = pendingReplies[c][i]
    OBVIOUS
  <2>6. k \in CallNo /\ k \in ToSet(pendingReplies[c])
    BY <1>1, <2>4, <2>5, InToSet
  <2>7. Made(c, k)
    BY <2>6 DEF WaitsInv, Made
  <2>8. rs' = Answered(k, m)
        /\ pendingReplies' = [pendingReplies EXCEPT ![c] = RemoveAt(pendingReplies[c], i)]
    BY <1>3, <2>1, <2>5 DEF AnswerPending
  <2> QED
    BY <1>1, <2>3, <2>4, <2>5, <2>6, <2>7, <2>8
<1> QED
  BY <1>2, <1>3

\* What holds of the reader whether or not it gave up.
LEMMA AnswerWritten ==
  ASSUME TypeOK, Known, StackInv, WaitsInv, NEW c \in Client, NEW m \in Message, MayRead(c),
         NEW r, r = ReplyWaitFor(c),
         Reply(c, m, r) \/ ReplyWait(c, m, r) \/ ReplyDelayed(c, m, r)
  PROVE  /\ WritesOwn(c) /\ WaitsNext(c)
         /\ \A e \in Client \ {c} : pendingReplies'[e] = pendingReplies[e]
         /\ \A k \in ToSet(pendingReplies'[c]) : k \in ToSet(pendingReplies[c]) \/ Made(c, k)
<1>1. r # 0 => Made(c, r) /\ r \in CallNo
  <2>1. r # 0 => Made(c, r)
    BY WaitsForMade
  <2>2. Made(c, r) => r \in CallNo
    BY CallsTyped DEF Made
  <2> QED
    BY <2>1, <2>2
<1>2. pendingReplies \in [Client -> Seq(CallNo)] /\ pendingReplies[c] \in Seq(CallNo)
  BY DEF TypeOK
<1>3. CASE rs' = rs /\ pendingReplies' = pendingReplies /\ WaitsNext(c)
  BY <1>3 DEF WritesOwn
<1>4. CASE Reply(c, m, r) /\ r # 0
  <2>1. WritesOwn(c)
    BY <1>1, <1>4, AnsweredOne DEF Reply
  <2> QED
    BY <1>4, <2>1 DEF Reply, WaitsNext
<1>5. CASE ReplyWait(c, m, r) /\ r # 0
  <2>1. WritesOwn(c)
    BY <1>1, <1>5, ToldOne DEF ReplyWait, WritesId
  <2>2. pendingReplies' = [pendingReplies EXCEPT ![c] = Append(pendingReplies[c], r)]
    BY <1>5 DEF ReplyWait
  <2>3. /\ pendingReplies'[c] = Append(pendingReplies[c], r)
        /\ \A e \in Client \ {c} : pendingReplies'[e] = pendingReplies[e]
    BY <1>2, <2>2
  <2>4. ToSet(Append(pendingReplies[c], r)) = ToSet(pendingReplies[c]) \union {r}
    BY <1>1, <1>2, <1>5, Appended
  <2>5. WaitsNext(c)
    BY <1>5 DEF ReplyWait, WaitsNext
  <2> QED
    BY <1>1, <1>5, <2>1, <2>3, <2>4, <2>5
<1>6. CASE ReplyDelayed(c, m, r)
  <2>1. WaitsNext(c)
    BY <1>6 DEF ReplyDelayed, WaitsNext
  <2>2. AnswerPending(c, m)
    BY <1>6 DEF ReplyDelayed
  <2>3. CASE rs' = rs /\ pendingReplies' = pendingReplies
    BY <1>3, <2>1, <2>3
  <2>4. CASE \E i \in PendingFor(c, m) : \E k \in CallNo :
               /\ i \in DOMAIN pendingReplies[c] /\ k = pendingReplies[c][i] /\ Made(c, k)
               /\ rs' = Answered(k, m)
               /\ pendingReplies' = [pendingReplies EXCEPT ![c] = RemoveAt(pendingReplies[c], i)]
    <3>1. PICK i \in DOMAIN pendingReplies[c], k \in CallNo :
               /\ Made(c, k) /\ rs' = Answered(k, m)
               /\ pendingReplies' = [pendingReplies EXCEPT ![c] = RemoveAt(pendingReplies[c], i)]
      BY <2>4
    <3>2. WritesOwn(c)
      BY <3>1, AnsweredOne
    <3>3. /\ pendingReplies'[c] = RemoveAt(pendingReplies[c], i)
          /\ \A e \in Client \ {c} : pendingReplies'[e] = pendingReplies[e]
      BY <1>2, <3>1
    <3>4. \A j \in DOMAIN RemoveAt(pendingReplies[c], i) :
            \E l \in DOMAIN pendingReplies[c] :
              RemoveAt(pendingReplies[c], i)[j] = pendingReplies[c][l]
      BY <1>2, <3>1, RemoveAtKeeps
    <3>5. \A x \in ToSet(RemoveAt(pendingReplies[c], i)) : x \in ToSet(pendingReplies[c])
      BY <3>4 DEF ToSet
    <3> QED
      BY <2>1, <3>2, <3>3, <3>5
  <2> QED
    BY <2>2, <2>3, <2>4, PendingAnswered
<1> QED
  <2>1. CASE Reply(c, m, r) /\ r = 0
    <3>1. rs' = rs /\ pendingReplies' = pendingReplies /\ WaitsNext(c)
      BY <2>1 DEF Reply, WaitsNext
    <3> QED
      BY <1>3, <3>1
  <2>2. CASE ReplyWait(c, m, r) /\ r = 0
    <3>1. rs' = rs /\ pendingReplies' = pendingReplies /\ WaitsNext(c)
      BY <2>2 DEF ReplyWait, WaitsNext
    <3> QED
      BY <1>3, <3>1
  <2> QED
    BY <1>4, <1>5, <1>6, <2>1, <2>2

LEMMA AnswerWaits ==
  ASSUME TypeOK, Known, StackInv, WaitsInv, UNCHANGED calls, deaths' = deaths, NEW c \in Client, MayRead(c),
         WaitsNext(c), \A e \in Client \ {c} : pendingReplies'[e] = pendingReplies[e],
         \A k \in ToSet(pendingReplies'[c]) : k \in ToSet(pendingReplies[c]) \/ Made(c, k)
  PROVE  WaitsInv' /\ \A e \in Client \ {c} : waits'[e] = waits[e]
<1>1. Grows
  BY DEF Grows, deaths
<1>2. \A e \in Client \ {c} : waits'[e] = waits[e]
  BY DEF WaitsNext, TypeOK
<1>3. \A x \in ToSet(waits'[c]) : Made(c, x)
  <2>1. /\ \A x \in ToSet(Waiting(c)) : Made(c, x)
        /\ ReplyWaitFor(c) # 0 => \A x \in ToSet(Tail(Waiting(c))) : Made(c, x)
    BY WaitsForMade
  <2>2. waits'[c] = Waiting(c) \/ (ReplyWaitFor(c) # 0 /\ waits'[c] = Tail(Waiting(c)))
    BY DEF WaitsNext, TypeOK
  <2> QED
    BY <2>1, <2>2
<1>4. ASSUME NEW e \in Client, NEW k \in ToSet(waits[e])' \union ToSet(pendingReplies[e])'
      PROVE  \/ k \in ToSet(waits[e]) \union ToSet(pendingReplies[e])
             \/ k \in DOMAIN calls /\ calls[k].caller = e /\ calls[k].kind # "send"
  <2>1. CASE e = c
    BY <1>3, <1>4, <2>1 DEF Made
  <2>2. CASE e # c
    BY <1>2, <1>4, <2>2
  <2> QED
    BY <2>1, <2>2
<1>5. WaitsInv'
  BY <1>1, <1>4, WaitsKept, Zenon
<1> QED
  BY <1>2, <1>5

\* What is gone when the answer m to n is read by c.
LEMMA AnswerTaken ==
  ASSUME TypeOK, Known, WireInv, NEW c \in Client, NEW m, Reads(c, m), m.op \notin Requests,
         NEW n, n = m.n, stack' = stack, messages' = messages
  PROVE  /\ OnlyAbout(n) /\ Made(c, n) /\ n \in CallNo /\ m.from = calls[n].callee
         /\ m \in Message /\ m.tid \in Nat
         /\ \A x \in Places : At(n, x)' => At(n, x)
         /\ \A id \in Nat : /\ Told(n, id)' => Told(n, id)
                            /\ Late(n, id)' => Late(n, id)
                            /\ Owed(n, id)' <=> Owed(n, id)
                            /\ m.op # "DCOPReplyDelayed" => (Late(n, id) => Late(n, id)')
                            /\ Told(n, id)' => At(n, "told")'
                            /\ Told(n, id) => At(n, "told")
         /\ At(n, "told")' => \E id \in Nat : Told(n, id)'
         /\ m.op = "DCOPReply" => At(n, "replied") /\ ~At(n, "replied")'
         /\ FailsIt(m) => At(n, "failed") /\ ~At(n, "failed")'
         /\ m.op = "DCOPReplyFailed" /\ ~FailsIt(m) => n \in abandoned
         /\ m.op = "DCOPReplyWait" => Told(n, m.tid) /\ ~Told(n, m.tid)'
         /\ m.op = "DCOPReplyDelayed" => Late(n, m.tid) /\ ~Late(n, m.tid)' /\ ~At(n, "told")
<1>1. /\ Taken(c, m) /\ m \in Wire(c) /\ m \in Message /\ MessagePlaced(c, m)
      /\ n \in DOMAIN calls /\ n \in CallNo
      /\ m.op = "DCOPReplyDelayed" => \A x \in Wire(c) : ~(x.op = "DCOPReplyWait" /\ x.n = n)
  BY ReadTaken
<1>2. UNCHANGED calls /\ deaths' = deaths /\ transactionList' = transactionList
  BY DEF Reads
<1>3. /\ calls[n].caller = c /\ m.from = calls[n].callee /\ calls[n].kind # "send"
      /\ m.op = "DCOPReply" => m.tid = 0
      /\ calls[n].callee \in Client /\ m.tid \in Nat
  <2>1. m.tid \in Nat
    BY <1>1 DEF Message
  <2> QED
    BY <1>1, <2>1, Parties DEF MessagePlaced
<1>4. calls'[n].caller = c /\ calls'[n].callee = calls[n].callee
  BY <1>2, <1>3
<1>5. \A e \in Client : Wire(e)' \subseteq Wire(e)
  BY <1>1 DEF Taken
<1>6. Wire(c)' = Wire(c) \ {m}
  BY <1>1 DEF Taken
<1>7. ASSUME NEW x \in Wire(c)', x.n = n, x.op = m.op, x.tid = m.tid PROVE FALSE
  <2>1. x \in Wire(c) /\ x # m
    BY <1>6
  <2>2. x \in Message /\ MessagePlaced(c, x)
    BY <2>1, Elements DEF WireInv
  <2>3. x.from = m.from
    BY <1>3, <1>7, <2>2 DEF MessagePlaced
  <2> QED
    BY <1>1, <1>7, <2>1, <2>2, <2>3 DEF Message
<1>8. OnlyAbout(n)
  <2>1. ASSUME NEW e \in Client, NEW x \in Message, x.n # n PROVE x \in Wire(e)' <=> x \in Wire(e)
    BY <1>1, <2>1 DEF Taken
  <2>2. ASSUME NEW e \in Client, NEW k \in CallNo
        PROVE  /\ k \in ToSet(messages[e])' <=> k \in ToSet(messages[e])
               /\ k \in Handled(e)' <=> k \in Handled(e)
    BY DEF Handled
  <2> QED
    BY <1>2, <2>1, <2>2 DEF OnlyAbout
<1>9. ASSUME NEW x \in Places, At(n, x)' PROVE At(n, x)
  <2>1. CASE x \in {"asked", "replied", "failed", "told"}
    BY <1>3, <1>4, <1>5, <1>9, <2>1 DEF At
  <2>2. CASE x = "posted"
    BY <1>4, <1>9, <2>2 DEF At
  <2>3. CASE x = "handled"
    BY <1>4, <1>9, <2>3 DEF At, Handled
  <2> QED
    BY <2>1, <2>2, <2>3 DEF Places
<1>10. ASSUME NEW id \in Nat
       PROVE  /\ Told(n, id)' => Told(n, id)
              /\ Late(n, id)' => Late(n, id)
              /\ Owed(n, id)' <=> Owed(n, id)
              /\ m.op # "DCOPReplyDelayed" => (Late(n, id) => Late(n, id)')
              /\ Told(n, id)' => At(n, "told")'
              /\ Told(n, id) => At(n, "told")
  <2>1. Told(n, id)' => Told(n, id)
    BY <1>3, <1>4, <1>5 DEF Told
  <2>2. Late(n, id)' => Late(n, id)
    BY <1>3, <1>4, <1>5 DEF Late
  <2>3. Owed(n, id)' <=> Owed(n, id)
    BY <1>2, <1>4 DEF Owed
  <2>4. m.op # "DCOPReplyDelayed" => (Late(n, id) => Late(n, id)')
    BY <1>3, <1>4, <1>6 DEF Late
  <2>5. (Told(n, id)' => At(n, "told")') /\ (Told(n, id) => At(n, "told"))
    BY Zenon DEF Told, At
  <2> QED
    BY <2>1, <2>2, <2>3, <2>4, <2>5
<1>11. At(n, "told")' => \E id \in Nat : Told(n, id)'
  <2> SUFFICES ASSUME At(n, "told")' PROVE \E id \in Nat : Told(n, id)'
    OBVIOUS
  <2>1. PICK x \in Wire(c)' : x.n = n /\ x.op = "DCOPReplyWait"
    BY <1>4 DEF At
  <2>2. x \in Message
    BY <1>6, <2>1, Elements
  <2>3. x.tid \in Nat
    BY <2>2 DEF Message
  <2>4. Told(n, x.tid)'
    BY <1>4, <2>1 DEF Told
  <2> QED
    BY <2>3, <2>4
<1>12. m.op = "DCOPReply" => At(n, "replied") /\ ~At(n, "replied")'
  <2>1. m.op = "DCOPReply" => At(n, "replied")
    BY <1>1, <1>3 DEF At
  <2>2. ASSUME m.op = "DCOPReply", At(n, "replied")' PROVE FALSE
    <3>1. PICK x \in Wire(c)' : x.n = n /\ x.op = "DCOPReply"
      BY <1>4, <2>2 DEF At
    <3>2. MessagePlaced(c, x)
      BY <1>6, <3>1 DEF WireInv
    <3>3. x.op \notin Requests
      BY <3>1 DEF Requests
    <3>4. x.tid = 0
      BY <3>1, <3>2, <3>3 DEF MessagePlaced
    <3> QED
      BY <1>3, <1>7, <2>2, <3>1, <3>4
  <2> QED
    BY <2>1, <2>2
<1>13. m.op = "DCOPReplyWait" => Told(n, m.tid) /\ ~Told(n, m.tid)'
  <2>1. m.op = "DCOPReplyWait" => Told(n, m.tid)
    BY <1>1, <1>3 DEF Told
  <2>2. ASSUME m.op = "DCOPReplyWait" PROVE ~Told(n, m.tid)'
    <3>1. \A x \in Wire(c)' : ~(x.n = n /\ x.op = "DCOPReplyWait" /\ x.tid = m.tid)
      BY <1>7, <2>2
    <3>2. PICK id : id = m.tid
      OBVIOUS
    <3>3. ~Told(n, id)'
      BY <1>4, <3>1, <3>2 DEF Told
    <3> QED
      BY <3>2, <3>3
  <2> QED
    BY <2>1, <2>2
<1>14. m.op = "DCOPReplyDelayed" => Late(n, m.tid) /\ ~Late(n, m.tid)' /\ ~At(n, "told")
  <2>1. m.op = "DCOPReplyDelayed" => Late(n, m.tid)
    BY <1>1, <1>3 DEF Late
  <2>2. ASSUME m.op = "DCOPReplyDelayed" PROVE ~Late(n, m.tid)'
    <3>1. \A x \in Wire(c)' : ~(x.n = n /\ x.op = "DCOPReplyDelayed" /\ x.tid = m.tid)
      BY <1>7, <2>2
    <3>2. PICK id : id = m.tid
      OBVIOUS
    <3>3. ~Late(n, id)'
      BY <1>4, <3>1, <3>2 DEF Late
    <3> QED
      BY <3>2, <3>3
  <2>3. m.op = "DCOPReplyDelayed" => ~At(n, "told")
    BY <1>1, <1>3 DEF At
  <2> QED
    BY <2>1, <2>2, <2>3
<1>15. Made(c, n)
  BY <1>1, <1>3 DEF Made
<1>16. FailsIt(m) => At(n, "failed") /\ ~At(n, "failed")'
  <2>1. FailsIt(m) => At(n, "failed")
    BY <1>1, <1>3 DEF At
  <2>2. ASSUME FailsIt(m), At(n, "failed")' PROVE FALSE
    <3>1. PICK x \in Wire(c)' : x.n = n /\ FailsIt(x)
      BY <1>4, <2>2 DEF At
    <3> QED
      BY <1>7, <2>2, <3>1 DEF FailsIt
  <2> QED
    BY <2>1, <2>2
<1>17. m.op = "DCOPReplyFailed" /\ ~FailsIt(m) => n \in abandoned
  BY <1>1 DEF MessagePlaced, FailsIt
<1> QED
  BY <1>1, <1>3, <1>8, <1>9, <1>10, <1>11, <1>12, <1>13, <1>14, <1>15, <1>16, <1>17

LEMMA AnswerLife ==
  ASSUME TypeOK, Known, TypeOK', Known', WireInv, Life, NEW c \in Client, NEW m, Reads(c, m),
         m \in Message, m.op \notin Requests, NEW n, n = m.n, stack' = stack, messages' = messages
  PROVE  Life'
<1>1. /\ OnlyAbout(n) /\ Made(c, n) /\ n \in CallNo /\ m.tid \in Nat
      /\ \A x \in Places : At(n, x)' => At(n, x)
      /\ \A id \in Nat : /\ Told(n, id)' => Told(n, id)
                         /\ Late(n, id)' => Late(n, id)
                         /\ Owed(n, id)' <=> Owed(n, id)
                         /\ m.op # "DCOPReplyDelayed" => (Late(n, id) => Late(n, id)')
                         /\ Told(n, id) => At(n, "told")
      /\ m.op = "DCOPReplyDelayed" => ~At(n, "told")
  BY AnswerTaken
<1>2. UNCHANGED calls /\ deaths' = deaths /\ transactionId' = transactionId
  BY DEF Reads
<1>3. n \in DOMAIN calls /\ Grows /\ calls'[n].callee = calls[n].callee
  BY <1>1, <1>2 DEF Made, Grows, deaths
<1>4. OwnLife(n) /\ "handled" \in Places
  BY <1>3 DEF Life, Places
<1>5. \A id \in Nat : Promised(n, id)' => Promised(n, id)
  BY <1>1, Zenon DEF Promised
<1>6. ASSUME NEW id \in Nat, Told(n, id)' PROVE Promised(n, id)' \/ Lost(n)'
  <2>1. Told(n, id) /\ (Promised(n, id) \/ Lost(n))
    BY <1>1, <1>4, <1>6, Zenon DEF OwnLife
  <2>2. m.op # "DCOPReplyDelayed"
    BY <1>1, <2>1, Zenon
  <2>3. Lost(n) => Lost(n)'
    BY <1>3 DEF Lost, Grows
  <2> QED
    BY <1>1, <2>1, <2>2, <2>3, Zenon DEF Promised
<1>7. \A p, q \in Places : At(n, p)' /\ At(n, q)' => p = q
  BY <1>1, <1>4, Zenon DEF OwnLife
<1>8. ASSUME NEW id \in Nat, Promised(n, id)'
      PROVE  /\ 0 < id /\ id <= transactionId'[calls'[n].callee]
             /\ \A p \in Places : At(n, p)' => p \in {"handled", "told"}
             /\ Late(n, id)' => ~At(n, "handled")' /\ ~Owed(n, id)'
             /\ \A x \in Nat : Promised(n, x)' => x = id
  <2>1. Promised(n, id)
    BY <1>5, <1>8, Zenon
  <2>2. /\ 0 < id /\ id <= transactionId[calls[n].callee]
        /\ \A p \in Places : At(n, p) => p \in {"handled", "told"}
        /\ Late(n, id) => ~At(n, "handled") /\ ~Owed(n, id)
        /\ \A x \in Nat : Promised(n, x) => x = id
    BY <1>4, <2>1, Zenon DEF OwnLife
  <2>3. id <= transactionId'[calls'[n].callee]
    BY <1>2, <1>3, <2>2
  <2> QED
    BY <1>1, <1>4, <1>5, <2>2, <2>3, Zenon
<1>9. OwnLife(n)'
  BY <1>6, <1>7, <1>8, Zenon DEF OwnLife
<1>10. Life'
  <2>1. \A e \in Client : transactionId[e] <= transactionId'[e]
    BY <1>2 DEF TypeOK
  <2>2. DOMAIN calls' \subseteq DOMAIN calls \union {n}
    BY <1>2
  <2> QED
    BY <1>1, <1>3, <1>5, <1>9, <2>1, <2>2, LifeKept
<1> QED
  BY <1>10

\* What the reader of an answer to n knows then, if it did not give up.
Learns(c, n) ==
  /\ WaitsRight(c)' /\ Once(pendingReplies[c])' /\ KnownOf(n)'
  /\ \A k \in DOMAIN calls : calls[k].caller = c /\ k # n =>
       /\ rs'[k] = rs[k]
       /\ k \in ToSet(pendingReplies[c])' <=> k \in ToSet(pendingReplies[c])

\* Somebody is to answer a call of a client that did not give up.
LEMMA NotLost ==
  ASSUME NEW c, NEW n, Made(c, n), ~GaveUp(c)
  PROVE  ~Lost(n)
BY DEF Made, GaveUp, Abandoned, Lost

\* The answer of a call that is still open.
LEMMA OpenAnswered ==
  ASSUME TypeOK, Known, StackInv, Life, Awaited, NEW c \in Client, ~GaveUp(c), MayRead(c),
         NEW n, Made(c, n), NEW p \in Places, At(n, p)
  PROVE  /\ ReplyWaitFor(c) = n /\ Tail(Waiting(c)) = << >> /\ rs[n].tid = -1
         /\ rs[n].of \in {0, n} /\ n \notin ToSet(pendingReplies[c])
         /\ \A x \in Places : At(n, x) => x = p
         /\ n \in Opened(c) /\ Once(pendingReplies[c])
<1>1. AwaitedBy(c) /\ n \in DOMAIN calls /\ calls[n].caller = c /\ calls[n].kind # "send"
  BY DEF Awaited, Made
<1>2. KnownOf(n) /\ WaitsRight(c) /\ Once(pendingReplies[c]) /\ OwnLife(n)
  BY <1>1 DEF AwaitedBy, Life
<1>3. rs[n].tid = -1
  BY <1>2, Zenon DEF KnownOf
<1>4. rs[n].of \in {0, n} /\ n \notin ToSet(pendingReplies[c])
  BY <1>1, <1>2, <1>3 DEF KnownOf
<1>5. n \in Opened(c)
  <2>1. ~Complete(n)
    BY <1>3 DEF Complete
  <2> QED
    BY <1>1, <1>2, <2>1 DEF KnownOf
<1>6. ReplyWaitFor(c) = n /\ Tail(Waiting(c)) = << >>
  BY <1>2, <1>5, WaitsForOpened
<1>7. \A x \in Places : At(n, x) => x = p
  BY <1>2, Zenon DEF OwnLife
<1> QED
  BY <1>2, <1>3, <1>4, <1>5, <1>6, <1>7

LEMMA ReplyLearns ==
  ASSUME TypeOK, Known, TypeOK', Known', AnswerInv, NEW c \in Client, NEW m, Reads(c, m),
         m \in Message, NEW n, n = m.n, stack' = stack, messages' = messages, ~GaveUp(c),
         Reply(c, m, ReplyWaitFor(c))
  PROVE  Learns(c, n)
<1>1. /\ WireInv /\ StackInv /\ WaitsInv /\ Life /\ Awaited
  BY DEF AnswerInv
<1>2. /\ m.op \in {"DCOPReply", "DCOPReplyFailed"} /\ m.op \notin Requests
      /\ MayRead(c) /\ UNCHANGED calls
  BY DEF Reply, Requests, Reads
<1>0. PICK p : p = IF m.op = "DCOPReply" THEN "replied" ELSE "failed"
  OBVIOUS
<1>3. /\ Made(c, n) /\ n \in CallNo /\ At(n, p) /\ ~At(n, p)'
      /\ \A x \in Places : At(n, x)' => At(n, x)
      /\ \A id \in Nat : /\ Late(n, id)' => Late(n, id)
                         /\ Owed(n, id)' <=> Owed(n, id)
  <2>1. /\ Made(c, n) /\ n \in CallNo
        /\ \A x \in Places : At(n, x)' => At(n, x)
        /\ \A id \in Nat : /\ Late(n, id)' => Late(n, id)
                           /\ Owed(n, id)' <=> Owed(n, id)
        /\ m.op = "DCOPReply" => At(n, "replied") /\ ~At(n, "replied")'
        /\ FailsIt(m) => At(n, "failed") /\ ~At(n, "failed")'
        /\ m.op = "DCOPReplyFailed" /\ ~FailsIt(m) => n \in abandoned
    BY <1>1, <1>2, AnswerTaken
  <2>2. n \notin abandoned
    BY <2>1, NotLost DEF Lost
  <2>3. CASE m.op = "DCOPReply"
    BY <1>0, <2>1, <2>3
  <2>4. CASE m.op = "DCOPReplyFailed"
    <3>1. p = "failed" /\ FailsIt(m)
      BY <1>0, <2>1, <2>2, <2>4
    <3> QED
      BY <2>1, <3>1
  <2> QED
    BY <1>2, <2>3, <2>4
<1>4. p \in Places /\ n # 0 /\ p \notin {"handled", "told"}
  BY <1>0, <1>3 DEF Places, CallNo
<1>5. /\ ReplyWaitFor(c) = n /\ Tail(Waiting(c)) = << >> /\ rs[n].tid = -1
      /\ n \notin ToSet(pendingReplies[c]) /\ Once(pendingReplies[c])
      /\ \A x \in Places : At(n, x) => x = p
  BY <1>1, <1>2, <1>3, <1>4, OpenAnswered
<1>6. rs' = Answered(n, m) /\ waits' = [waits EXCEPT ![c] = << >>] /\ pendingReplies' = pendingReplies
  BY <1>4, <1>5 DEF Reply
<1>7. rs'[n].tid = 0 /\ rs'[n].of = n /\ \A l \in CallNo : l # n => rs'[l] = rs[l]
  BY <1>3, <1>6, AnsweredOne
<1>8. WaitsRight(c)'
  BY <1>6 DEF WaitsRight, TypeOK
<1>9. ASSUME NEW id \in Nat, Promised(n, id)' PROVE FALSE
  <2>1. Promised(n, id)
    BY <1>3, <1>9, Zenon DEF Promised
  <2>2. OwnLife(n)
    BY <1>1, <1>3 DEF Life, Made
  <2>3. p \in {"handled", "told"}
    BY <1>3, <1>4, <2>1, <2>2, Zenon DEF OwnLife
  <2> QED
    BY <1>4, <2>3
<1>10. \A x \in Places : ~At(n, x)'
  BY <1>3, <1>5, Zenon
<1>11. KnownOf(n)'
  <2>1. calls'[n].caller = c
    BY <1>2, <1>3 DEF Made
  <2>2. Complete(n)'
    BY <1>7 DEF Complete
  <2> QED
    BY <1>5, <1>6, <1>7, <1>9, <1>10, <2>1, <2>2 DEF KnownOf
<1>12. \A k \in DOMAIN calls : k # n => rs'[k] = rs[k]
  BY <1>7, CallsTyped
<1> QED
  BY <1>5, <1>6, <1>8, <1>11, <1>12 DEF Learns

LEMMA ReplyWaitLearns ==
  ASSUME TypeOK, Known, TypeOK', Known', AnswerInv, NEW c \in Client, NEW m, Reads(c, m),
         m \in Message, NEW n, n = m.n, stack' = stack, messages' = messages, ~GaveUp(c),
         ReplyWait(c, m, ReplyWaitFor(c))
  PROVE  Learns(c, n)
<1>1. /\ WireInv /\ StackInv /\ WaitsInv /\ Life /\ Awaited
  BY DEF AnswerInv
<1>2. m.op = "DCOPReplyWait" /\ m.op \notin Requests /\ MayRead(c) /\ UNCHANGED calls
  BY DEF ReplyWait, Requests, Reads
<1>3. PICK id : id = m.tid
  OBVIOUS
<1>4. /\ Made(c, n) /\ n \in CallNo /\ id \in Nat /\ m.from = calls[n].callee
      /\ Told(n, id) /\ At(n, "told") /\ ~Told(n, id)'
      /\ At(n, "told")' => \E i \in Nat : Told(n, i)'
      /\ \A x \in Places : At(n, x)' => At(n, x)
      /\ \A i \in Nat : /\ Told(n, i)' => Told(n, i)
                        /\ Late(n, i)' => Late(n, i)
                        /\ Owed(n, i)' <=> Owed(n, i)
                        /\ Late(n, i) => Late(n, i)'
  <2>1. /\ Made(c, n) /\ n \in CallNo /\ m.from = calls[n].callee /\ m.tid \in Nat
        /\ Told(n, m.tid) /\ ~Told(n, m.tid)'
        /\ At(n, "told")' => \E i \in Nat : Told(n, i)'
        /\ \A x \in Places : At(n, x)' => At(n, x)
        /\ \A i \in Nat : /\ Told(n, i)' => Told(n, i)
                          /\ Late(n, i)' => Late(n, i)
                          /\ Owed(n, i)' <=> Owed(n, i)
                          /\ m.op # "DCOPReplyDelayed" => (Late(n, i) => Late(n, i)')
                          /\ Told(n, i) => At(n, "told")
    BY <1>1, <1>2, AnswerTaken
  <2>2. Told(n, id) /\ ~Told(n, id)' /\ id \in Nat
    BY <1>3, <2>1
  <2> QED
    BY <1>2, <2>1, <2>2
<1>5. "told" \in Places /\ n # 0
  BY <1>4 DEF Places, CallNo
<1>6. /\ ReplyWaitFor(c) = n /\ Tail(Waiting(c)) = << >> /\ rs[n].of \in {0, n}
      /\ n \notin ToSet(pendingReplies[c]) /\ Once(pendingReplies[c])
      /\ \A x \in Places : At(n, x) => x = "told"
      /\ n \in Opened(c)
  BY <1>1, <1>2, <1>4, <1>5, OpenAnswered
<1>7. /\ rs' = [rs EXCEPT ![n].tid = m.tid, ![n].calledApp = m.from]
      /\ waits' = [waits EXCEPT ![c] = << >>]
      /\ pendingReplies' = [pendingReplies EXCEPT ![c] = Append(pendingReplies[c], n)]
  BY <1>5, <1>6 DEF ReplyWait
<1>8. /\ rs'[n].tid = id /\ rs'[n].calledApp = calls[n].callee /\ rs'[n].of \in {0, n}
      /\ \A l \in CallNo : l # n => rs'[l] = rs[l]
  <2>1. /\ rs'[n].tid = m.tid /\ rs'[n].calledApp = m.from /\ rs'[n].of = rs[n].of
        /\ \A l \in CallNo : l # n => rs'[l] = rs[l]
    <3>1. WritesId(n, m)
      BY <1>7 DEF WritesId
    <3> QED
      BY <1>4, <3>1, ToldOne
  <2> QED
    BY <1>3, <1>4, <1>6, <2>1
<1>9. WaitsRight(c)'
  BY <1>7 DEF WaitsRight, TypeOK
<1>10. ToSet(pendingReplies'[c]) = ToSet(pendingReplies[c]) \union {n} /\ Once(pendingReplies'[c])
  <2>1. pendingReplies[c] \in Seq(CallNo) /\ pendingReplies'[c] = Append(pendingReplies[c], n)
    BY <1>7 DEF TypeOK
  <2>2. n \in CallNo /\ n \notin ToSet(pendingReplies[c]) /\ Once(pendingReplies[c])
    BY <1>4, <1>6
  <2>3. /\ ToSet(Append(pendingReplies[c], n)) = ToSet(pendingReplies[c]) \union {n}
        /\ Once(Append(pendingReplies[c], n))
    BY <2>1, <2>2, Appended
  <2> QED
    BY <2>1, <2>3
<1>11. OwnLife(n)
  BY <1>1, <1>4 DEF Life, Made
<1>12. Promised(n, id) /\ 0 < id /\ \A i \in Nat : Promised(n, i) => i = id
  BY <1>4, <1>11, NotLost, Zenon DEF OwnLife
<1>13. \A i \in Nat : Promised(n, i)' <=> Promised(n, i)
  BY <1>4, Zenon DEF Promised
<1>14. ~At(n, "told")'
  <2>1. ASSUME NEW i \in Nat, Told(n, i)' PROVE FALSE
    <3>1. Promised(n, i)
      BY <1>4, <1>11, <2>1, NotLost, Zenon DEF OwnLife
    <3>2. i = id
      BY <1>12, <3>1, Zenon
    <3> QED
      BY <1>4, <2>1, <3>2, Zenon
  <2> QED
    BY <1>4, <2>1, Zenon
<1>15. \A x \in Places : ~At(n, x)'
  BY <1>4, <1>6, <1>14, Zenon
<1>16. KnownOf(n)'
  <2>1. calls'[n] = calls[n] /\ calls'[n].caller = c
    BY <1>2, <1>4 DEF Made
  <2>2. n \in Opened(c)'
    BY <1>6 DEF Opened
  <2>3. n \in ToSet(pendingReplies[c])' <=> rs'[n].tid \notin {0, -1}
    BY <1>4, <1>8, <1>10, <1>12
  <2>4. /\ rs'[n].tid \in Nat \union {-1}
        /\ \A i \in Nat \ {0} : rs'[n].tid = i =>
             Promised(n, i)' /\ rs'[n].calledApp = calls'[n].callee
        /\ \A i \in Nat : Promised(n, i)' => rs'[n].tid = i
    BY <1>4, <1>8, <1>12, <1>13, <2>1
  <2> QED
    BY <1>8, <1>15, <2>1, <2>2, <2>3, <2>4 DEF KnownOf
<1>17. \A k \in DOMAIN calls : k # n => rs'[k] = rs[k]
  BY <1>8, CallsTyped
<1>18. \A k : k # n => (k \in ToSet(pendingReplies[c])' <=> k \in ToSet(pendingReplies[c]))
  BY <1>10
<1> QED
  BY <1>9, <1>10, <1>16, <1>17, <1>18 DEF Learns

\* A promise that is kept: the only pending reply with its number and sender is the
\* one it was made to.
LEMMA PendingFound ==
  ASSUME TypeOK, Known, AnswerInv, NEW c \in Client, ~GaveUp(c), NEW m \in Message,
         NEW n, n = m.n, Made(c, n), NEW id \in Nat, id = m.tid, m.from = calls[n].callee,
         Late(n, id), ~At(n, "told"), \A i \in Nat : Told(n, i) => At(n, "told")
  PROVE  /\ \A i \in DOMAIN pendingReplies[c] :
              i \in PendingFor(c, m) <=> pendingReplies[c][i] = n
         /\ n \in ToSet(pendingReplies[c]) /\ rs[n].tid = m.tid /\ rs[n].calledApp = m.from
         /\ rs[n].of \in {0, n} /\ 0 < id
         /\ \A x \in Places : ~At(n, x)
<1>1. AwaitedBy(c) /\ n \in DOMAIN calls /\ calls[n].caller = c
  BY DEF AnswerInv, Awaited, Made
<1>2. KnownOf(n) /\ OwnLife(n)
  BY <1>1 DEF AwaitedBy, AnswerInv, Life
<1>3. Promised(n, id) /\ 0 < id /\ ~At(n, "handled")
  BY <1>2, Zenon DEF Promised, OwnLife
<1>4. rs[n].tid = id
  BY <1>2, <1>3, Zenon DEF KnownOf
<1>5. n \in ToSet(pendingReplies[c]) /\ rs[n].calledApp = m.from /\ rs[n].of \in {0, n}
  BY <1>1, <1>2, <1>3, <1>4 DEF KnownOf
<1>6. ASSUME NEW x \in Places, At(n, x) PROVE FALSE
  <2>1. x \in {"handled", "told"}
    BY <1>2, <1>3, <1>6, Zenon DEF OwnLife
  <2> QED
    BY <1>3, <1>6, <2>1
<1>7. ASSUME NEW i \in DOMAIN pendingReplies[c]
      PROVE  i \in PendingFor(c, m) <=> pendingReplies[c][i] = n
  <2>1. PICK k : k = pendingReplies[c][i]
    OBVIOUS
  <2>2. i \in PendingFor(c, m) <=> rs[k].tid = m.tid /\ rs[k].calledApp = m.from
    BY <2>1 DEF PendingFor
  <2>3. k \in ToSet(pendingReplies[c])
    BY <2>1 DEF ToSet
  <2>4. k \in DOMAIN calls /\ calls[k].caller = c
    BY <2>3 DEF AnswerInv, WaitsInv
  <2>5. KnownOf(k)
    BY <1>1, <2>4 DEF AwaitedBy
  <2>6. ASSUME rs[k].tid = m.tid, rs[k].calledApp = m.from PROVE k = n
    <3>1. id \in Nat \ {0} /\ rs[k].tid = id
      BY <1>3, <2>6
    <3>2. Promised(k, id) /\ rs[k].calledApp = calls[k].callee
      BY <2>5, <3>1, Zenon DEF KnownOf
    <3>3. calls[k].callee = calls[n].callee
      BY <2>6, <3>2
    <3> QED
      BY <1>1, <1>3, <2>4, <3>2, <3>3, Zenon DEF AnswerInv, Life
  <2> QED
    BY <1>4, <1>5, <2>1, <2>2, <2>6
<1> QED
  BY <1>3, <1>4, <1>5, <1>6, <1>7

LEMMA ReplyDelayedLearns ==
  ASSUME TypeOK, Known, TypeOK', Known', AnswerInv, NEW c \in Client, NEW m, Reads(c, m),
         m \in Message, NEW n, n = m.n, stack' = stack, messages' = messages, ~GaveUp(c),
         ReplyDelayed(c, m, ReplyWaitFor(c))
  PROVE  Learns(c, n)
<1>1. /\ WireInv /\ StackInv /\ WaitsInv /\ Life /\ Awaited
  BY DEF AnswerInv
<1>2. m.op = "DCOPReplyDelayed" /\ m.op \notin Requests /\ MayRead(c) /\ UNCHANGED calls
  BY DEF ReplyDelayed, Requests, Reads
<1>3. PICK id : id = m.tid
  OBVIOUS
<1>4. /\ Made(c, n) /\ n \in CallNo /\ m.from = calls[n].callee /\ id \in Nat
      /\ Late(n, id) /\ ~Late(n, id)' /\ ~At(n, "told")
      /\ \A x \in Places : At(n, x)' => At(n, x)
      /\ \A i \in Nat : /\ Late(n, i)' => Late(n, i)
                        /\ Owed(n, i)' <=> Owed(n, i)
                        /\ Told(n, i) => At(n, "told")
  <2>1. /\ Made(c, n) /\ n \in CallNo /\ m.from = calls[n].callee /\ m.tid \in Nat
        /\ Late(n, m.tid) /\ ~Late(n, m.tid)' /\ ~At(n, "told")
        /\ \A x \in Places : At(n, x)' => At(n, x)
        /\ \A i \in Nat : /\ Late(n, i)' => Late(n, i)
                          /\ Owed(n, i)' <=> Owed(n, i)
                          /\ Told(n, i) => At(n, "told")
    BY <1>1, <1>2, AnswerTaken
  <2>2. Late(n, id) /\ ~Late(n, id)' /\ id \in Nat
    BY <1>3, <2>1
  <2> QED
    BY <2>1, <2>2
<1>5. /\ \A i \in DOMAIN pendingReplies[c] :
           i \in PendingFor(c, m) <=> pendingReplies[c][i] = n
      /\ n \in ToSet(pendingReplies[c]) /\ rs[n].tid = m.tid /\ rs[n].calledApp = m.from
      /\ 0 < id /\ \A x \in Places : ~At(n, x)
  BY <1>3, <1>4, PendingFound
<1>6. PendingFor(c, m) # {}
  BY <1>5 DEF ToSet
<1>7. PICK i \in DOMAIN pendingReplies[c] :
        /\ pendingReplies[c][i] = n /\ rs' = Answered(n, m)
        /\ pendingReplies' = [pendingReplies EXCEPT ![c] = RemoveAt(pendingReplies[c], i)]
  <2>1. AnswerPending(c, m)
    BY DEF ReplyDelayed
  <2>2. \E i \in PendingFor(c, m) : \E k \in CallNo :
          /\ i \in DOMAIN pendingReplies[c] /\ k = pendingReplies[c][i] /\ Made(c, k)
          /\ rs' = Answered(k, m)
          /\ pendingReplies' = [pendingReplies EXCEPT ![c] = RemoveAt(pendingReplies[c], i)]
    BY <1>1, <1>6, <2>1, PendingAnswered, Zenon
  <2> QED
    BY <1>5, <2>2, Zenon
<1>8. i \in DOMAIN pendingReplies[c]
  BY <1>7
<1>9. rs'[n].tid = 0 /\ rs'[n].of = n /\ \A l \in CallNo : l # n => rs'[l] = rs[l]
  BY <1>4, <1>7, AnsweredOne
<1>10. WaitsRight(c) /\ Once(pendingReplies[c])
  BY <1>1 DEF Awaited, AwaitedBy
<1>11. ToSet(pendingReplies'[c]) = ToSet(pendingReplies[c]) \ {n} /\ Once(pendingReplies'[c])
  <2>1. /\ pendingReplies[c] \in Seq(CallNo)
        /\ pendingReplies'[c] = RemoveAt(pendingReplies[c], i)
    BY <1>7 DEF TypeOK
  <2> QED
    BY <1>7, <1>8, <1>10, <2>1, Removed
<1>12. WaitsRight(c)'
  <2>1. PICK r : r = ReplyWaitFor(c)
    OBVIOUS
  <2>2. waits' = [waits EXCEPT ![c] =
          IF r # 0 /\ rs[r].tid = m.tid /\ rs[r].calledApp = m.from THEN Tail(Waiting(c))
          ELSE Waiting(c)]
    BY <2>1 DEF ReplyDelayed
  <2>3. waits'[c] = IF r # 0 /\ rs[r].tid = m.tid /\ rs[r].calledApp = m.from
                      THEN Tail(Waiting(c)) ELSE Waiting(c)
    BY <2>2 DEF TypeOK
  <2>4. CASE Waiting(c) = << >> /\ r = 0
    BY <2>3, <2>4 DEF WaitsRight
  <2>5. CASE \E k \in CallNo : /\ Opened(c) = {k} /\ ~Complete(k) /\ Waiting(c) = <<k>>
                               /\ r = k /\ Tail(Waiting(c)) = << >>
    <3>1. PICK k \in CallNo : /\ Opened(c) = {k} /\ ~Complete(k) /\ Waiting(c) = <<k>>
                              /\ r = k /\ Tail(Waiting(c)) = << >>
      BY <2>5
    <3>2. CASE k = n
      <4>1. waits'[c] = << >>
        BY <1>4, <1>5, <2>3, <3>1, <3>2 DEF CallNo
      <4> QED
        BY <4>1 DEF WaitsRight
    <3>3. CASE k # n
      <4>1. waits'[c] = << >> \/ waits'[c] = <<k>>
        BY <2>3, <3>1
      <4>2. k \in Opened(c)'
        BY <3>1 DEF Opened
      <4>3. ~Complete(k)'
        BY <1>2, <1>9, <3>1, <3>3 DEF Complete, Async
      <4> QED
        BY <4>1, <4>2, <4>3 DEF WaitsRight
    <3> QED
      BY <3>2, <3>3
  <2> QED
    BY <1>1, <1>2, <1>10, <2>1, <2>4, <2>5, WaitsForOpened, Zenon
<1>13. OwnLife(n)
  BY <1>1, <1>4 DEF Life, Made
<1>14. ASSUME NEW x \in Nat, Promised(n, x)' PROVE FALSE
  <2>1. Promised(n, x) /\ Promised(n, id)
    BY <1>4, <1>14, Zenon DEF Promised
  <2>2. x = id /\ ~Owed(n, id)
    BY <1>4, <1>13, <2>1, Zenon DEF OwnLife
  <2> QED
    BY <1>4, <1>14, <2>2, Zenon DEF Promised
<1>15. \A x \in Places : ~At(n, x)'
  BY <1>4, <1>5, Zenon
<1>16. KnownOf(n)'
  <2>1. calls'[n].caller = c
    BY <1>2, <1>4 DEF Made
  <2>2. Complete(n)'
    BY <1>9 DEF Complete
  <2>3. n \notin ToSet(pendingReplies[c])'
    BY <1>11
  <2> QED
    BY <1>9, <1>14, <1>15, <2>1, <2>2, <2>3 DEF KnownOf
<1>17. \A k \in DOMAIN calls : k # n => rs'[k] = rs[k]
  BY <1>9, CallsTyped
<1>18. \A k : k # n => (k \in ToSet(pendingReplies[c])' <=> k \in ToSet(pendingReplies[c]))
  BY <1>11
<1> QED
  BY <1>11, <1>12, <1>16, <1>17, <1>18 DEF Learns

LEMMA ReadAnswerAnswers ==
  ASSUME TypeOK, Known, TypeOK', Known', AnswerInv, NEW c \in Client, NEW m, Reads(c, m),
         m \in Message, NEW r, r = ReplyWaitFor(c),
         Reply(c, m, r) \/ ReplyWait(c, m, r) \/ ReplyDelayed(c, m, r),
         stack' = stack, messages' = messages, transaction' = transaction
  PROVE  AnswerInv'
<1>1. /\ WireInv /\ PostedInv /\ StackInv /\ OwedInv /\ WaitsInv /\ DelayInv
      /\ Life /\ Awaited
  BY DEF AnswerInv
<1>2. /\ MayRead(c) /\ UNCHANGED calls /\ deaths' = deaths /\ transactionId' = transactionId
      /\ transactionList' = transactionList
  BY DEF Reads
<1>3. m.op \notin Requests
  BY DEF Reply, ReplyWait, ReplyDelayed, Requests
<1>4. PICK n : n = m.n
  OBVIOUS
<1>5. Grows /\ WireInv'
  BY <1>1, <1>2, ReadTaken DEF Grows, deaths
<1>6. OnlyAbout(n) /\ Made(c, n)
  BY <1>1, <1>3, <1>4, AnswerTaken
<1>7. Life'
  BY <1>1, <1>3, <1>4, AnswerLife
<1>8. PostedInv'
  BY <1>1, <1>5, PostedKept
<1>9. OwedInv'
  BY <1>1, <1>2, <1>5, OwedKept
<1>10. StackInv' /\ OpenedSame
  <2>1. \A e \in Client : Alike(stack[e], stack'[e])
    BY SameAlike
  <2> QED
    BY <1>1, <1>5, <2>1, AlikeStacks
<1>11. DelayInv'
  <2>1. DelayOf(c)'
    BY <1>1, <1>2, DelayStays DEF DelayInv
  <2> QED
    BY <1>1, <1>2, <2>1, DelayOthers
<1>12. /\ WritesOwn(c) /\ WaitsNext(c)
       /\ \A e \in Client \ {c} : pendingReplies'[e] = pendingReplies[e]
       /\ \A k \in ToSet(pendingReplies'[c]) : k \in ToSet(pendingReplies[c]) \/ Made(c, k)
  BY <1>1, <1>2, AnswerWritten
<1>13. WaitsInv' /\ \A e \in Client \ {c} : waits'[e] = waits[e]
  BY <1>1, <1>2, <1>12, AnswerWaits
<1>14. ASSUME ~GaveUp(c) PROVE Learns(c, n)
  BY <1>4, <1>14, ReplyLearns, ReplyWaitLearns, ReplyDelayedLearns
<1>15. ASSUME NEW e \in Client, e # c, ~GaveUp(e)
       PROVE  /\ WaitsRight(e)' /\ Once(pendingReplies[e])'
              /\ \A k \in DOMAIN calls : calls[k].caller = e =>
                   /\ rs'[k] = rs[k]
                   /\ k \in ToSet(pendingReplies[e])' <=> k \in ToSet(pendingReplies[e])
  <2>1. WaitsRight(e) /\ Once(pendingReplies[e])
    BY <1>1, <1>15 DEF Awaited, AwaitedBy
  <2>2. \A k \in DOMAIN calls : calls[k].caller = e => rs'[k] = rs[k]
    BY <1>12, <1>15, CallsTyped DEF WritesOwn, Made
  <2>3. pendingReplies'[e] = pendingReplies[e] /\ waits'[e] = waits[e]
    BY <1>12, <1>13, <1>15
  <2>4. ASSUME NEW k \in Opened(e), ~Complete(k) PROVE k \in Opened(e)' /\ ~Complete(k)'
    <3>1. k \in DOMAIN calls /\ calls[k].caller = e
      BY <1>1, Elements DEF StackInv
    <3>2. rs'[k] = rs[k]
      BY <2>2, <3>1
    <3> QED
      BY <1>2, <1>10, <2>4, <3>2 DEF Complete, Async, OpenedSame
  <2>5. WaitsRight(e)'
    BY <2>1, <2>3, <2>4 DEF WaitsRight
  <2> QED
    BY <2>1, <2>2, <2>3, <2>5
<1>16. Awaited'
  <2>1. \A k \in CallNo : k \notin DOMAIN calls' => rs'[k] = NoReply
    BY <1>1, <1>2, <1>12 DEF Awaited, WritesOwn, Made
  <2>2. \A k \in DOMAIN calls : rs[k].failed => rs'[k].failed
    BY <1>12, CallsTyped DEF WritesOwn
  <2>3. ASSUME NEW e \in Client, ~GaveUp(e), ~GaveUp(e)'
        PROVE  /\ WaitsRight(e)' /\ Once(pendingReplies[e])'
               /\ \A k \in DOMAIN calls : calls[k].caller = e /\ k # n =>
                    /\ rs'[k] = rs[k]
                    /\ k \in ToSet(pendingReplies[e])' <=> k \in ToSet(pendingReplies[e])
                    /\ k \in Opened(e) => k \in Opened(e)' \/ Complete(k)
               /\ n \in DOMAIN calls' /\ calls'[n].caller = e => KnownOf(n)'
    <3>1. \A k : k \in Opened(e) => k \in Opened(e)'
      BY <1>10 DEF OpenedSame
    <3>2. CASE e = c
      <4>1. Learns(c, n)
        BY <1>14, <2>3, <3>2
      <4> QED
        BY <3>1, <3>2, <4>1 DEF Learns
    <3>3. CASE e # c
      <4>1. calls'[n].caller # e
        BY <1>2, <1>6, <3>3 DEF Made
      <4> QED
        BY <1>15, <2>3, <3>1, <3>3, <4>1
    <3> QED
      BY <3>2, <3>3
  <2>4. DOMAIN calls' \subseteq DOMAIN calls \union {n}
    BY <1>2
  <2> QED
    BY <1>1, <1>5, <1>6, <2>1, <2>2, <2>3, <2>4, AwaitedKept, Zenon
<1> QED
  BY <1>5, <1>7, <1>8, <1>9, <1>10, <1>11, <1>13, <1>16 DEF AnswerInv

LEMMA ReadAnswers ==
  ASSUME TypeOK, Known, TypeOK', Known', AnswerInv, NEW c \in Client, Read(c)
  PROVE  AnswerInv'
<1>1. PICK m : m = Head(toClient[c])
  OBVIOUS
<1>2. Reads(c, m)
  BY <1>1 DEF Read, Reads, MayRead
<1>3. m \in Message
  BY <1>2, ReadTaken DEF AnswerInv
<1>4. CASE /\ \E n \in {ReplyWaitFor(c)} :
                Reply(c, m, n) \/ ReplyWait(c, m, n) \/ ReplyDelayed(c, m, n)
           /\ UNCHANGED <<senderId, transaction, stack, currentKey, posted>>
  <2>1. PICK r : r = ReplyWaitFor(c)
    OBVIOUS
  <2>2. Reply(c, m, r) \/ ReplyWait(c, m, r) \/ ReplyDelayed(c, m, r)
    BY <1>4, <2>1
  <2>3. stack' = stack /\ messages' = messages /\ transaction' = transaction
    BY <1>4 DEF posted
  <2> QED
    BY <1>2, <1>3, <2>1, <2>2, <2>3, ReadAnswerAnswers
<1>5. CASE /\ m.op \in {"DCOPCall", "DCOPSend"} /\ ReceiveOrPost(c, m.n)
           /\ waits' = [waits EXCEPT ![c] = Waiting(c)]
           /\ UNCHANGED <<rs, pendingReplies>>
  <2>1. m.op \in Requests /\ rs' = rs /\ pendingReplies' = pendingReplies
    BY <1>5 DEF Requests
  <2> QED
    BY <1>2, <1>5, <2>1, ReadRequestAnswers
<1> QED
  BY <1>1, <1>4, <1>5 DEF Read

-----------------------------------------------------------------------------
(* Handlers and what they promise.                                         *)

\* A step that concerns the answer to n, which the callers do not read.
LEMMA StillAwaited ==
  ASSUME TypeOK, Known, TypeOK', Known', UNCHANGED calls, deaths' = deaths, Awaited, WaitsInv,
         NEW n \in DOMAIN calls, OnlyAbout(n), rs' = rs, pendingReplies' = pendingReplies,
         waits' = waits, OpenedSame, ~Lost(n) /\ KnownOf(n) => KnownOf(n)'
  PROVE  Awaited' /\ WaitsInv'
<1>1. Grows
  BY DEF Grows, deaths
<1>2. WaitsInv'
  BY <1>1, WaitsKept
<1>3. \A k : Complete(k)' <=> Complete(k)
  BY DEF Complete, Async
<1>4. ASSUME NEW e \in Client, ~GaveUp(e)
      PROVE  /\ WaitsRight(e)' /\ Once(pendingReplies[e])'
             /\ calls[n].caller = e => KnownOf(n)'
  <2>1. /\ WaitsRight(e) /\ Once(pendingReplies[e])
        /\ calls[n].caller = e => KnownOf(n) /\ ~Lost(n)
    BY <1>4 DEF Awaited, AwaitedBy, GaveUp, Abandoned, Lost
  <2>2. WaitsRight(e)'
    BY <1>3, <2>1 DEF WaitsRight, OpenedSame
  <2> QED
    BY <2>1, <2>2
<1>5. Awaited'
  <2>1. \A k \in CallNo : k \notin DOMAIN calls' => rs'[k] = NoReply
    BY DEF Awaited
  <2>2. \A k \in DOMAIN calls : rs[k].failed => rs'[k].failed
    OBVIOUS
  <2>3. ASSUME NEW e \in Client, ~GaveUp(e), ~GaveUp(e)'
        PROVE  /\ WaitsRight(e)' /\ Once(pendingReplies[e])'
               /\ \A k \in DOMAIN calls : calls[k].caller = e /\ k # n =>
                    /\ rs'[k] = rs[k]
                    /\ k \in ToSet(pendingReplies[e])' <=> k \in ToSet(pendingReplies[e])
                    /\ k \in Opened(e) => k \in Opened(e)' \/ Complete(k)
               /\ n \in DOMAIN calls' /\ calls'[n].caller = e => KnownOf(n)'
    BY <1>4, <2>3 DEF OpenedSame
  <2>4. DOMAIN calls' \subseteq DOMAIN calls \union {n}
    OBVIOUS
  <2> QED
    BY <1>1, <2>1, <2>2, <2>3, <2>4, AwaitedKept, Zenon
<1> QED
  BY <1>2, <1>5

\* The caller of a call that is handled has only asked.
LEMMA HandledUnknown ==
  ASSUME NEW n, NEW p \in Places, At(n, p), KnownOf(n)
  PROVE  rs[n].tid = -1
BY Zenon DEF KnownOf

\* The call of the handler on top is handled; it is promised an answer only if the
\* handler has delayed it.
LEMMA HandlerOnTop ==
  ASSUME TypeOK, Known, StackInv, DelayInv, Life, NEW c \in Client, In(c, "handler"),
         NEW f, f = Top(c), NEW n, n = f.n
  PROVE  /\ ~Idle(c) /\ f \in Frame /\ f.at = "handler" /\ n \in DOMAIN calls /\ n \in CallNo
         /\ n \in Handled(c) /\ calls[n].callee = c /\ At(n, "handled") /\ OwnLife(n)
         /\ \A x \in Places : At(n, x) => x = "handled"
         /\ \A id \in Nat : ~Late(n, id) /\ ~Told(n, id)
         /\ f.did # "delayed" => ~transaction[c] /\ \A id \in Nat : ~Owed(n, id)
         /\ f.did = "delayed" => transaction[c] /\ Owed(n, transactionId[c])
<1>1. ~Idle(c) /\ f.at = "handler"
  BY DEF In, Idle
<1>2. /\ f \in Frame /\ n \in DOMAIN calls /\ n \in CallNo
      /\ Len(stack[c]) \in DOMAIN stack[c] /\ f = stack[c][Len(stack[c])]
  <2>1. /\ Len(stack[c]) \in Nat \ {0} /\ DOMAIN stack[c] = 1 .. Len(stack[c])
        /\ Top(c) \in Frame
        /\ Top(c).at # "posted" => Top(c).n \in DOMAIN calls /\ Top(c).n \in CallNo
    BY <1>1, TopTyped
  <2> QED
    BY <1>1, <2>1 DEF Top
<1>3. n \in Handled(c)
  BY <1>1, <1>2, InNumbers DEF Handled
<1>4. calls[n].callee = c
  BY <1>3 DEF StackInv
<1>5. At(n, "handled") /\ OwnLife(n) /\ "handled" \in Places
  BY <1>2, <1>3, <1>4 DEF At, Life, Places
<1>6. \A x \in Places : At(n, x) => x = "handled"
  BY <1>5, Zenon DEF OwnLife
<1>7. ASSUME NEW id \in Nat PROVE ~Late(n, id)
  BY <1>5, Zenon DEF OwnLife, Promised
<1>8. ASSUME NEW id \in Nat PROVE ~Told(n, id)
  <2>1. Told(n, id) => At(n, "told")
    BY Zenon DEF Told, At
  <2>2. "told" \in Places /\ "told" # "handled"
    BY DEF Places
  <2> QED
    BY <1>6, <2>1, <2>2, Zenon
<1>9. f.did # "delayed" => ~transaction[c] /\ \A id \in Nat : ~Owed(n, id)
  <2>1. f.did # "delayed" => ~transaction[c] /\ \A t \in transactionList[c] : t.n # n
    BY <1>1, <1>2 DEF DelayInv, DelayOf
  <2> QED
    BY <1>4, <2>1 DEF Owed
<1>10. f.did = "delayed" => transaction[c] /\ Owed(n, transactionId[c])
  <2>1. f.did = "delayed" => /\ transaction[c]
                             /\ \E t \in transactionList[c] : t.n = n /\ t.id = transactionId[c]
    BY <1>1, <1>2 DEF DelayInv, DelayOf
  <2> QED
    BY <1>4, <2>1 DEF Owed
<1> QED
  BY <1>1, <1>2, <1>3, <1>4, <1>5, <1>6, <1>7, <1>8, <1>9, <1>10

LEMMA BeginAnswers ==
  ASSUME ~CallsAndDelays, ~NestedDelays, TypeOK, Known, TypeOK', Known', SenderInv, AnswerInv,
         NEW c \in Client, beginTransaction(c)
  PROVE  AnswerInv'
<1>1. PICK f : f = Top(c)
  OBVIOUS
<1>2. PICK n : n = f.n
  OBVIOUS
<1>3. PICK id : id = transactionId[c] + 1
  OBVIOUS
<1>4. PICK t : t = [id |-> id, senderId |-> senderId[c], n |-> n]
  OBVIOUS
<1>5. PICK g : g = [f EXCEPT !.did = "delayed"]
  OBVIOUS
<1>6. /\ In(c, "handler") /\ opcode[c] # "DCOPSend" /\ f.did \notin {"called", "delayed"}
      /\ ~InsideHandler(c)
      /\ transaction' = [transaction EXCEPT ![c] = TRUE]
      /\ transactionId' = [transactionId EXCEPT ![c] = id]
      /\ stack' = [stack EXCEPT ![c] = ReplaceTop(c, g)]
      /\ UNCHANGED calls /\ deaths' = deaths /\ rs' = rs /\ toClient' = toClient /\ messages' = messages
      /\ pendingReplies' = pendingReplies /\ waits' = waits
  BY <1>1, <1>2, <1>3, <1>5 DEF beginTransaction, asked, posted
<1>7. /\ WireInv /\ PostedInv /\ StackInv /\ OwedInv /\ WaitsInv /\ DelayInv
      /\ Life /\ Awaited
  BY DEF AnswerInv
<1>8. /\ ~Idle(c) /\ f \in Frame /\ f.at = "handler" /\ n \in DOMAIN calls /\ n \in CallNo
      /\ calls[n].callee = c /\ At(n, "handled") /\ OwnLife(n) /\ calls[n].kind # "send"
      /\ \A x \in Places : At(n, x) => x = "handled"
      /\ \A i \in Nat : ~Late(n, i) /\ ~Told(n, i) /\ ~Owed(n, i)
  <2>1. /\ ~Idle(c) /\ f \in Frame /\ f.at = "handler" /\ n \in DOMAIN calls /\ n \in CallNo
        /\ calls[n].callee = c /\ At(n, "handled") /\ OwnLife(n)
        /\ \A x \in Places : At(n, x) => x = "handled"
        /\ \A i \in Nat : ~Late(n, i) /\ ~Told(n, i) /\ ~Owed(n, i)
    BY <1>1, <1>2, <1>6, <1>7, HandlerOnTop
  <2>2. f.did = "nothing"
    BY <1>6, <2>1 DEF Frame
  <2>3. calls[n].kind # "send"
    BY <1>1, <1>2, <1>6, <2>2 DEF SenderInv, SenderKnown
  <2> QED
    BY <2>1, <2>3
<1>9. /\ transactionId[c] \in Nat /\ id \in Nat /\ 0 < id /\ ~(id <= transactionId[c])
      /\ transactionId'[c] = id
      /\ \A e \in Client : transactionId[e] <= transactionId'[e]
      /\ \A e \in Client \ {c} : transactionId'[e] = transactionId[e]
  <2>1. transactionId \in [Client -> Nat] /\ transactionId[c] \in Nat
    BY DEF TypeOK
  <2>2. id \in Nat /\ 0 < id /\ ~(id <= transactionId[c]) /\ transactionId[c] <= id
    BY <1>3, <2>1
  <2>3. transactionId'[c] = id /\ \A e \in Client \ {c} : transactionId'[e] = transactionId[e]
    BY <1>6, <2>1
  <2>4. ASSUME NEW e \in Client PROVE transactionId[e] <= transactionId'[e]
    <3>1. transactionId[e] \in Nat
      BY <2>1
    <3>2. transactionId'[e] = transactionId[e] \/ e = c
      BY <2>3
    <3> QED
      BY <2>2, <2>3, <3>1, <3>2
  <2> QED
    BY <2>1, <2>2, <2>3, <2>4
<1>10. t.n = n /\ t.id = id
  BY <1>4
<1>11. /\ transactionList'[c] = transactionList[c] \union {t}
       /\ \A e \in Client \ {c} : transactionList'[e] = transactionList[e]
  <2>1. transactionList' = [transactionList EXCEPT ![c] = transactionList[c] \union {t}]
    BY <1>1, <1>2, <1>4, <1>9 DEF beginTransaction
  <2> QED
    BY <2>1 DEF TypeOK
<1>12. Grows /\ calls'[n].callee = c /\ calls'[n] = calls[n]
  BY <1>6, <1>8 DEF Grows, deaths
<1>13. g \in Frame /\ g.at = Top(c).at /\ g.n = Top(c).n /\ g.did = "delayed"
  BY <1>1, <1>5, <1>8 DEF Frame
<1>14. /\ ReplaceTop(c, g) \in Seq(Frame) /\ Alike(stack[c], ReplaceTop(c, g))
       /\ Len(ReplaceTop(c, g)) = Len(stack[c]) /\ ReplaceTop(c, g)[Len(stack[c])] = g
  BY <1>8, <1>13, ReplaceTopTyped DEF Alike
<1>15. stack'[c] = ReplaceTop(c, g) /\ \A e \in Client \ {c} : stack'[e] = stack[e]
  BY <1>6 DEF TypeOK
<1>16. StackInv' /\ HandledSame /\ OpenedSame
  <2>1. ASSUME NEW e \in Client PROVE Alike(stack[e], stack'[e])
    BY <1>14, <1>15, SameAlike
  <2> QED
    BY <1>7, <1>12, <2>1, AlikeStacks
<1>17. WireInv' /\ \A e \in Client : Wire(e)' = Wire(e)
  BY <1>6, <1>7, <1>12, WireKept
<1>18. PostedInv'
  BY <1>6, <1>7, <1>12, PostedKept
<1>19. OwedInv'
  <2> SUFFICES ASSUME NEW e \in Client, NEW u \in transactionList'[e]
               PROVE  calls'[u.n].callee = e /\ calls'[u.n].kind # "send"
    BY DEF OwedInv
  <2>1. CASE u \in transactionList[e]
    BY <1>6, <1>7, <2>1 DEF OwedInv
  <2>2. CASE u \notin transactionList[e]
    <3>1. e = c /\ u = t
      BY <1>11, <2>2
    <3> QED
      BY <1>6, <1>8, <1>10, <3>1
  <2> QED
    BY <2>1, <2>2
<1>20. DelayInv'
  <2>1. ASSUME NEW i \in DOMAIN stack'[c], stack'[c][i].at = "handler"
        PROVE  i = Len(stack'[c]) /\ stack'[c][i].did = "delayed" /\ stack'[c][i].n = n
    <3>1. i \in DOMAIN stack[c] /\ stack[c][i].at = "handler"
      BY <1>14, <1>15, <2>1 DEF Alike
    <3>2. Len(stack[c]) \in Nat /\ DOMAIN stack[c] = 1 .. Len(stack[c])
      BY <1>8, TopTyped
    <3>3. i = Len(stack[c])
      BY <1>6, <3>1, <3>2 DEF InsideHandler
    <3> QED
      BY <1>1, <1>2, <1>13, <1>14, <1>15, <3>3
  <2>2. transaction'[c] /\ \A e \in Client \ {c} : transaction'[e] = transaction[e]
    BY <1>6 DEF TypeOK
  <2>3. \E u \in transactionList'[c] : u.n = n /\ u.id = transactionId'[c]
    BY <1>9, <1>10, <1>11
  <2>4. DelayOf(c)'
    BY <2>1, <2>2, <2>3 DEF DelayOf
  <2> QED
    BY <1>7, <1>9, <1>11, <1>15, <2>2, <2>4, DelayOthers
<1>21. OnlyAbout(n)
  <2>1. ASSUME NEW e \in Client, NEW u \in Transaction, u.n # n
        PROVE  u \in transactionList'[e] <=> u \in transactionList[e]
    BY <1>10, <1>11, <2>1
  <2> QED
    BY <1>6, <1>16, <1>17, <2>1 DEF OnlyAbout, HandledSame
<1>22. calls[n].caller \in Client
  BY <1>8, Parties
<1>23. \A x \in Places : At(n, x)' <=> At(n, x)
  BY <1>6, <1>8, <1>12, <1>16, <1>17, <1>22 DEF At, HandledSame
<1>24. ASSUME NEW i \in Nat
       PROVE  /\ ~Late(n, i)' /\ ~Told(n, i)'
              /\ Owed(n, i)' <=> i = id
  <2>1. ~Late(n, i)' /\ ~Told(n, i)'
    BY <1>8, <1>12, <1>17, <1>22 DEF Late, Told
  <2>2. \A u \in transactionList[c] : ~(u.n = n /\ u.id = i)
    BY <1>8 DEF Owed
  <2>3. Owed(n, i)' <=> i = id
    BY <1>10, <1>11, <1>12, <2>2 DEF Owed
  <2> QED
    BY <2>1, <2>3
<1>25. OwnLife(n)'
  <2>1. \A p, q \in Places : At(n, p)' /\ At(n, q)' => p = q
    BY <1>8, <1>23, Zenon
  <2>2. \A i \in Nat : Promised(n, i)' => i = id
    BY <1>24, Zenon DEF Promised
  <2>3. \A p \in Places : At(n, p)' => p \in {"handled", "told"}
    BY <1>8, <1>23
  <2>4. id <= transactionId'[calls'[n].callee]
    BY <1>9, <1>12
  <2> QED
    BY <1>9, <1>24, <2>1, <2>2, <2>3, <2>4 DEF OwnLife
<1>26. Life'
  <2>1. \A i \in Nat : Promised(n, i)' =>
          (n \in DOMAIN calls /\ Promised(n, i)) \/ ~(i <= transactionId[calls'[n].callee])
    BY <1>9, <1>12, <1>24 DEF Promised
  <2>2. DOMAIN calls' \subseteq DOMAIN calls \union {n}
    BY <1>6
  <2> QED
    BY <1>7, <1>9, <1>12, <1>21, <1>25, <2>1, <2>2, LifeKept
<1>27. KnownOf(n) => KnownOf(n)'
  <2> SUFFICES ASSUME KnownOf(n) PROVE KnownOf(n)'
    OBVIOUS
  <2>1. rs[n].tid = -1 /\ "handled" \in Places
    BY <1>8, HandledUnknown DEF Places
  <2>2. At(n, "handled")'
    BY <1>8, <1>23, <2>1
  <2>3. /\ rs[n].of \in {0, n}
        /\ n \in ToSet(pendingReplies[calls[n].caller]) <=> rs[n].tid \notin {0, -1}
        /\ calls[n].kind # "send" /\ ~Complete(n) => n \in Opened(calls[n].caller)
    BY DEF KnownOf
  <2>4. PICK e \in Client : e = calls[n].caller
    BY <1>22
  <2>5. calls'[n].caller = e /\ (Complete(n)' <=> Complete(n)) /\ Opened(e)' = Opened(e)
    BY <1>6, <1>12, <1>16, <2>4 DEF Complete, Async, OpenedSame
  <2> QED
    BY <1>6, <2>1, <2>2, <2>3, <2>4, <2>5 DEF KnownOf
<1>28. Awaited' /\ WaitsInv'
  BY <1>6, <1>7, <1>8, <1>16, <1>21, <1>27, StillAwaited
<1> QED
  BY <1>16, <1>17, <1>18, <1>19, <1>20, <1>26, <1>28 DEF AnswerInv

\* A handler returns: what it answers, if anything, is told with its promise, if it
\* made one.
HandledLess(c, n) ==
  \A d \in Client : Handled(d)' = IF d = c THEN Handled(c) \ {n} ELSE Handled(d)
Returns(n, q) ==
  /\ OnlyAbout(n) /\ \A x \in Places : At(n, x)' => x = q
  /\ \A id \in Nat :
       /\ ~Late(n, id) /\ ~Late(n, id)' /\ (Owed(n, id)' <=> Owed(n, id))
       /\ Told(n, id)' => Owed(n, id)
       /\ Owed(n, id) => q = "told" /\ (Told(n, id)' \/ Lost(n))

LEMMA ReturnsLife ==
  ASSUME TypeOK, Known, TypeOK', Known', UNCHANGED calls, deaths' = deaths, Life, Awaited, WaitsInv,
         NEW n \in DOMAIN calls, At(n, "handled"), NEW q \in {"replied", "told"}, Returns(n, q),
         transactionId' = transactionId, rs' = rs, pendingReplies' = pendingReplies,
         waits' = waits, OpenedSame
  PROVE  Life' /\ Awaited' /\ WaitsInv'
<1>1. Grows /\ "handled" \in Places /\ q \in Places /\ OnlyAbout(n)
  BY DEF Grows, deaths, Places, Returns
<1>2. OwnLife(n)
  BY DEF Life
<1>3. ASSUME NEW id \in Nat
      PROVE  /\ Promised(n, id)' <=> Promised(n, id)
             /\ Promised(n, id)' => q = "told" /\ (Told(n, id)' \/ Lost(n))
             /\ Told(n, id)' => Promised(n, id)'
             /\ ~Late(n, id)'
  BY Zenon DEF Promised, Returns
<1>4. \A x \in Places : At(n, x)' => x = q
  BY Zenon DEF Returns
<1>5. \A e \in Client : transactionId[e] <= transactionId'[e]
  BY DEF TypeOK
<1>6. OwnLife(n)'
  <2>1. \A p, r \in Places : At(n, p)' /\ At(n, r)' => p = r
    BY <1>4, Zenon
  <2>2. ASSUME NEW id \in Nat, Promised(n, id)'
        PROVE  /\ 0 < id /\ id <= transactionId'[calls'[n].callee]
               /\ \A p \in Places : At(n, p)' => p \in {"handled", "told"}
               /\ \A x \in Nat : Promised(n, x)' => x = id
    <3>1. Promised(n, id) /\ q = "told"
      BY <1>3, <2>2, Zenon
    <3>2. /\ 0 < id /\ id <= transactionId[calls[n].callee]
          /\ \A x \in Nat : Promised(n, x) => x = id
      BY <1>2, <3>1, Zenon DEF OwnLife
    <3>3. \A x \in Nat : Promised(n, x)' => x = id
      BY <1>3, <3>2, Zenon
    <3>4. \A p \in Places : At(n, p)' => p \in {"handled", "told"}
      BY <1>4, <3>1
    <3> QED
      BY <3>2, <3>3, <3>4
  <2> QED
    BY <1>3, <2>1, <2>2, Zenon DEF OwnLife
<1>7. Life'
  <2>1. \A id \in Nat : Promised(n, id)' => n \in DOMAIN calls /\ Promised(n, id)
    BY <1>3, Zenon
  <2>2. DOMAIN calls' \subseteq DOMAIN calls \union {n}
    OBVIOUS
  <2> QED
    BY <1>1, <1>5, <1>6, <2>1, <2>2, LifeKept
<1>8. ASSUME ~Lost(n), KnownOf(n) PROVE KnownOf(n)'
  <2>1. rs[n].tid = -1
    BY <1>1, <1>8, HandledUnknown
  <2>2. PICK e \in Client : e = calls[n].caller
    BY Parties
  <2>3. /\ rs[n].of \in {0, n}
        /\ n \in ToSet(pendingReplies[e]) <=> rs[n].tid \notin {0, -1}
        /\ calls[n].kind # "send" /\ ~Complete(n) => n \in Opened(e)
    BY <1>8, <2>2 DEF KnownOf
  <2>4. calls'[n].caller = e /\ (Complete(n)' <=> Complete(n)) /\ Opened(e)' = Opened(e)
    BY <2>2 DEF Complete, Async, OpenedSame
  <2>5. \A id \in Nat : Promised(n, id)' => Told(n, id)'
    BY <1>3, <1>8, Zenon
  <2> QED
    BY <2>1, <2>3, <2>4, <2>5 DEF KnownOf
<1>9. Awaited' /\ WaitsInv'
  BY <1>1, <1>8, StillAwaited
<1> QED
  BY <1>7, <1>9

\* What does not depend on the answer.
LEMMA HandlerGone ==
  ASSUME TypeOK, Known, AnswerInv, NEW c \in Client, HandlerReturns(c),
         NEW f, f = Top(c), NEW n, n = f.n
  PROVE  /\ StackInv' /\ OpenedSame /\ HandledLess(c, n) /\ DelayInv' /\ PostedInv' /\ OwedInv'
         /\ Grows /\ UNCHANGED calls /\ deaths' = deaths /\ rs' = rs /\ messages' = messages
         /\ pendingReplies' = pendingReplies /\ waits' = waits
         /\ transactionId' = transactionId /\ transactionList' = transactionList
<1>1. /\ ~Idle(c) /\ f.at = "handler" /\ stack' = Pop(c)
      /\ UNCHANGED calls /\ deaths' = deaths /\ rs' = rs /\ transaction' = transaction
      /\ transactionId' = transactionId /\ messages' = messages
      /\ pendingReplies' = pendingReplies /\ waits' = waits
      /\ transactionList' = transactionList
  BY DEF HandlerReturns, In, Idle, asked, current, posted
<1>2. /\ StackInv /\ OwedInv /\ DelayInv /\ PostedInv
  BY DEF AnswerInv
<1>3. Grows
  BY <1>1 DEF Grows, deaths
<1>4. StackInv' /\ OpenedSame /\ HandledLess(c, n)
  <2>1. /\ StackInv'
        /\ \A d \in Client : Handled(d)' =
             IF d = c /\ f.at = "handler" THEN Handled(c) \ {f.n} ELSE Handled(d)
        /\ \A d \in Client : Opened(d)' =
             IF d = c /\ f.at = "call" THEN Opened(c) \ {f.n} ELSE Opened(d)
    BY <1>1, <1>2, <1>3, StackPopped
  <2> QED
    BY <1>1, <2>1 DEF HandledLess, OpenedSame
<1>5. PostedInv'
  BY <1>1, <1>2, <1>3, PostedKept
<1>6. OwedInv'
  BY <1>1, <1>2, <1>3, OwedKept
<1>7. DelayInv'
  <2>1. DelayOf(c)'
    BY <1>1, <1>2, DelayPopped DEF DelayInv
  <2> QED
    BY <1>1, <1>2, <2>1, OthersPopped, DelayOthers
<1> QED
  BY <1>1, <1>3, <1>4, <1>5, <1>6, <1>7

\* A handler sends nothing, or one message, when it returns.  It sends nothing if there
\* is no answer or nobody to send it to.
LEMMA ReturnsSilently ==
  ASSUME TypeOK, Known, WireInv, NEW c \in Client, NEW n \in DOMAIN calls, Grows,
         calls' = calls, calls[n].callee = c, toClient' = toClient, messages' = messages,
         transactionList' = transactionList, HandledLess(c, n),
         \A x \in Places : At(n, x) => x = "handled", NEW q,
         \A id \in Nat : /\ ~Late(n, id) /\ ~Told(n, id)
                         /\ Owed(n, id) => q = "told" /\ Lost(n)
  PROVE  WireInv' /\ Returns(n, q)
<1>1. WireInv' /\ \A e \in Client : Wire(e)' = Wire(e)
  BY WireKept
<1>2. OnlyAbout(n)
  BY <1>1 DEF OnlyAbout, HandledLess
<1>3. calls[n].caller \in Client
  BY Parties
<1>4. ASSUME NEW x \in Places, At(n, x)' PROVE x = q
  <2>1. ~At(n, "handled")'
    BY DEF At, HandledLess
  <2>2. x # "handled"
    BY <1>4, <2>1
  <2>3. At(n, x)
    BY <1>1, <1>3, <1>4, <2>2 DEF At
  <2> QED
    BY <2>2, <2>3
<1>5. ASSUME NEW id \in Nat
      PROVE  /\ Late(n, id)' <=> Late(n, id)
             /\ Told(n, id)' <=> Told(n, id)
             /\ Owed(n, id)' <=> Owed(n, id)
  BY <1>1, <1>3 DEF Late, Told, Owed
<1> QED
  BY <1>1, <1>2, <1>4, <1>5, Zenon DEF Returns

LEMMA ReturnsAnswering ==
  ASSUME TypeOK, Known, WireInv, NEW c \in Client, NEW n \in DOMAIN calls, Grows,
         calls' = calls, calls[n].callee = c, calls[n].kind # "send", messages' = messages,
         transactionList' = transactionList, HandledLess(c, n),
         \A x \in Places : At(n, x) => x = "handled", OwnLife(n),
         \A id \in Nat : ~Late(n, id) /\ ~Told(n, id),
         NEW id \in Nat, NEW q,
         \/ q = "replied" /\ id = 0 /\ \A i \in Nat : ~Owed(n, i)
         \/ q = "told" /\ Owed(n, id),
         NEW op, op = (IF q = "told" THEN "DCOPReplyWait" ELSE "DCOPReply"),
         NEW m, m = [op |-> op, n |-> n, from |-> c, tid |-> id],
         Appends(toClient, toClient', calls[n].caller, m)
  PROVE  WireInv' /\ Returns(n, q)
<1>1. PICK e : e = calls[n].caller
  OBVIOUS
<1>2. e \in Client /\ n \in CallNo
  BY <1>1, Parties
<1>3. /\ q \in Places /\ q # "handled" /\ op \notin Requests
      /\ op \notin {"DCOPReplyDelayed", "DCOPReplyFailed"}
      /\ op \in Opcode
      /\ op = "DCOPReply" <=> q = "replied"
      /\ op = "DCOPReplyWait" <=> q = "told"
  BY DEF Places, Requests, Opcode
<1>4. m \in Message /\ m.op = op /\ m.n = n /\ m.from = c /\ m.tid = id
  BY <1>2, <1>3 DEF Message, Opcode
<1>5. MessagePlaced(e, m)'
  BY <1>1, <1>3, <1>4 DEF MessagePlaced
<1>6. m \notin Wire(e)
  <2>1. ~At(n, q)
    BY <1>3
  <2> QED
    BY <1>1, <1>3, <1>4, <2>1 DEF At
<1>7. \A x \in Wire(e) : ~(x.op = "DCOPReplyDelayed" /\ x.n = n)
  <2> SUFFICES ASSUME NEW x \in Wire(e), x.op = "DCOPReplyDelayed", x.n = n PROVE FALSE
    OBVIOUS
  <2>1. x.tid \in Nat
    BY <1>2, Elements DEF Message
  <2>2. Late(n, x.tid)
    BY <1>1 DEF Late
  <2> QED
    BY <2>1, <2>2
<1>8. WireInv' /\ \A d \in Client : Wire(d)' = IF d = e THEN Wire(e) \union {m} ELSE Wire(d)
  BY <1>1, <1>2, <1>3, <1>4, <1>5, <1>6, <1>7, WireSent
<1>9. OnlyAbout(n)
  BY <1>4, <1>8 DEF OnlyAbout, HandledLess
<1>10. ASSUME NEW x \in Places, At(n, x)' PROVE x = q
  <2>1. ~At(n, "handled")'
    BY DEF At, HandledLess
  <2>2. x # "handled"
    BY <1>10, <2>1
  <2>3. ~At(n, x)
    BY <2>2
  <2>4. Wire(c)' = Wire(c) \/ Wire(c)' = Wire(c) \union {m}
    BY <1>2, <1>8
  <2>5. x # "asked"
    <3>1. ASSUME x = "asked" PROVE FALSE
      <4>1. PICK y \in Wire(c)' : y.n = n /\ y.op \in Requests
        BY <1>10, <3>1 DEF At
      <4>2. y \in Wire(c)
        BY <1>3, <1>4, <2>4, <4>1
      <4> QED
        BY <2>3, <3>1, <4>1, <4>2 DEF At
    <3> QED
      BY <3>1
  <2>6. x # "posted"
    BY <1>10, <2>3 DEF At
  <2>7. x = "replied" => q = "replied"
    <3>1. ASSUME x = "replied", q # "replied" PROVE FALSE
      <4>1. PICK y \in Wire(e)' : y.n = n /\ y.op = "DCOPReply"
        BY <1>1, <1>10, <3>1 DEF At
      <4>2. y \in Wire(e)
        BY <1>2, <1>3, <1>4, <1>8, <3>1, <4>1
      <4> QED
        BY <1>1, <2>3, <3>1, <4>1, <4>2 DEF At
    <3> QED
      BY <3>1
  <2>8. x = "told" => q = "told"
    <3>1. ASSUME x = "told", q # "told" PROVE FALSE
      <4>1. PICK y \in Wire(e)' : y.n = n /\ y.op = "DCOPReplyWait"
        BY <1>1, <1>10, <3>1 DEF At
      <4>2. y \in Wire(e)
        BY <1>2, <1>3, <1>4, <1>8, <3>1, <4>1
      <4> QED
        BY <1>1, <2>3, <3>1, <4>1, <4>2 DEF At
    <3> QED
      BY <3>1
  <2>9. x # "failed"
    <3>1. ASSUME x = "failed" PROVE FALSE
      <4>1. PICK y \in Wire(e)' : y.n = n /\ FailsIt(y)
        BY <1>1, <1>10, <3>1 DEF At
      <4>2. y \in Wire(e)
        BY <1>2, <1>3, <1>4, <1>8, <4>1 DEF FailsIt
      <4> QED
        BY <1>1, <2>3, <3>1, <4>1, <4>2 DEF At
    <3> QED
      BY <3>1
  <2> QED
    BY <2>2, <2>5, <2>6, <2>7, <2>8, <2>9 DEF Places
<1>11. ASSUME NEW i \in Nat
       PROVE  /\ ~Late(n, i)' /\ (Owed(n, i)' <=> Owed(n, i))
              /\ Told(n, i)' <=> q = "told" /\ i = id
  <2>1. Wire(e)' = Wire(e) \union {m} /\ calls'[n].caller = e /\ calls[n].caller = e
    BY <1>1, <1>2, <1>8
  <2>2. Late(n, i)' => Late(n, i)
    BY <1>3, <1>4, <2>1 DEF Late
  <2>3. Told(n, i)' <=> Told(n, i) \/ (q = "told" /\ i = id)
    BY <1>3, <1>4, <2>1 DEF Told
  <2>4. Owed(n, i)' <=> Owed(n, i)
    BY DEF Owed
  <2> QED
    BY <2>2, <2>3, <2>4
<1>12. ASSUME NEW i \in Nat
       PROVE  /\ Told(n, i)' => Owed(n, i)
              /\ Owed(n, i) => q = "told" /\ Told(n, i)'
  <2>1. Owed(n, i) => Promised(n, i)
    BY DEF Promised
  <2>2. CASE q = "replied"
    BY <1>11, <2>2
  <2>3. CASE q = "told" /\ Owed(n, id)
    <3>1. Promised(n, id)
      BY <2>3 DEF Promised
    <3>2. Owed(n, i) => i = id
      BY <2>1, <3>1, Zenon DEF OwnLife
    <3> QED
      BY <1>11, <2>3, <3>2
  <2> QED
    BY <2>2, <2>3
<1> QED
  BY <1>8, <1>9, <1>10, <1>11, <1>12, Zenon DEF Returns

LEMMA HandlerReturnsAnswers ==
  ASSUME TypeOK, Known, TypeOK', Known', AnswerInv, NEW c \in Client, HandlerReturns(c)
  PROVE  AnswerInv'
<1>1. PICK f : f = Top(c)
  OBVIOUS
<1>2. PICK n : n = f.n
  OBVIOUS
<1>3. PICK id : id = IF transaction[c] THEN transactionId[c] ELSE 0
  OBVIOUS
<1>4. /\ WireInv /\ PostedInv /\ StackInv /\ OwedInv /\ WaitsInv /\ DelayInv
      /\ Life /\ Awaited
  BY DEF AnswerInv
<1>5. /\ In(c, "handler")
      /\ IF calls[n].kind = "send" THEN toClient' = toClient
         ELSE IF id = 0 THEN Send(c, calls[n].caller, "DCOPReply", n, 0)
         ELSE Send(c, calls[n].caller, "DCOPReplyWait", n, id)
  BY <1>1, <1>2, <1>3 DEF HandlerReturns
<1>6. /\ StackInv' /\ OpenedSame /\ HandledLess(c, n) /\ DelayInv' /\ PostedInv' /\ OwedInv'
      /\ Grows /\ UNCHANGED calls /\ deaths' = deaths /\ rs' = rs /\ messages' = messages
      /\ pendingReplies' = pendingReplies /\ waits' = waits
      /\ transactionId' = transactionId /\ transactionList' = transactionList
  BY <1>1, <1>2, HandlerGone
<1>7. /\ n \in DOMAIN calls /\ calls[n].callee = c /\ At(n, "handled") /\ OwnLife(n)
      /\ \A x \in Places : At(n, x) => x = "handled"
      /\ \A i \in Nat : ~Late(n, i) /\ ~Told(n, i)
      /\ f.did # "delayed" => ~transaction[c] /\ \A i \in Nat : ~Owed(n, i)
      /\ f.did = "delayed" => transaction[c] /\ Owed(n, transactionId[c])
  BY <1>1, <1>2, <1>4, <1>5, HandlerOnTop
<1>8. transactionId[c] \in Nat
  BY DEF TypeOK
<1>9. ASSUME calls[n].kind = "send" PROVE WireInv' /\ Returns(n, "replied")
  <2>1. ASSUME NEW i \in Nat PROVE ~Owed(n, i)
    BY <1>4, <1>7, <1>9 DEF Owed, OwedInv
  <2>2. toClient' = toClient
    BY <1>5, <1>9
  <2> QED
    BY <1>4, <1>6, <1>7, <2>1, <2>2, ReturnsSilently
\* Its caller may be dead.
<1>10. ASSUME NEW op, op # "DCOPCall", NEW i, Send(c, calls[n].caller, op, n, i)
       PROVE  \/ Lost(n) /\ toClient' = toClient
              \/ Appends(toClient, toClient', calls[n].caller,
                         [op |-> op, n |-> n, from |-> c, tid |-> i])
  BY <1>10, SendCases DEF Lost
<1>11. ASSUME calls[n].kind # "send", f.did # "delayed" PROVE WireInv' /\ Returns(n, "replied")
  <2>1. 0 \in Nat /\ Send(c, calls[n].caller, "DCOPReply", n, 0)
    BY <1>3, <1>5, <1>7, <1>11
  <2>2. "DCOPReply" = (IF "replied" = "told" THEN "DCOPReplyWait" ELSE "DCOPReply")
    OBVIOUS
  <2>3. \A i \in Nat : ~Owed(n, i)
    BY <1>7, <1>11
  <2>4. CASE toClient' = toClient
    BY <1>4, <1>6, <1>7, <2>3, <2>4, ReturnsSilently
  <2>5. CASE Appends(toClient, toClient', calls[n].caller,
                     [op |-> "DCOPReply", n |-> n, from |-> c, tid |-> 0])
    BY <1>4, <1>6, <1>7, <1>11, <2>1, <2>2, <2>3, <2>5, ReturnsAnswering
  <2> QED
    BY <1>10, <2>1, <2>4, <2>5
<1>12. ASSUME calls[n].kind # "send", f.did = "delayed" PROVE WireInv' /\ Returns(n, "told")
  <2>1. id \in Nat /\ id = transactionId[c] /\ Owed(n, id)
    BY <1>3, <1>7, <1>8, <1>12
  <2>2. id # 0
    BY <1>7, <2>1 DEF Promised, OwnLife
  <2>3. Send(c, calls[n].caller, "DCOPReplyWait", n, id)
    BY <1>5, <1>12, <2>2
  <2>4. "DCOPReplyWait" = (IF "told" = "told" THEN "DCOPReplyWait" ELSE "DCOPReply")
    OBVIOUS
  <2>5. CASE Lost(n) /\ toClient' = toClient
    BY <1>4, <1>6, <1>7, <2>5, ReturnsSilently
  <2>6. CASE Appends(toClient, toClient', calls[n].caller,
                     [op |-> "DCOPReplyWait", n |-> n, from |-> c, tid |-> id])
    BY <1>4, <1>6, <1>7, <1>12, <2>1, <2>4, <2>6, ReturnsAnswering
  <2> QED
    BY <1>10, <2>3, <2>5, <2>6
<1>13. PICK q \in {"replied", "told"} : WireInv' /\ Returns(n, q)
  BY <1>9, <1>11, <1>12
<1>14. Life' /\ Awaited' /\ WaitsInv'
  BY <1>4, <1>6, <1>7, <1>13, ReturnsLife
<1> QED
  BY <1>6, <1>13, <1>14 DEF AnswerInv

\* What a client answers later is not handled any more.
LEMMA OwedLater ==
  ASSUME OwedInv, NEW c \in Client, NEW t \in transactionList[c], NEW n, n = t.n,
         n \notin HandledBy(c)
  PROVE  calls[n].callee = c /\ calls[n].kind # "send" /\ ~At(n, "handled")
<1>1. calls[n].callee = c /\ calls[n].kind # "send"
  BY DEF OwedInv
<1>2. n \notin Handled(c)
  BY DEF HandledBy, Handled, Numbers
<1> QED
  BY <1>1, <1>2 DEF At

\* The promise of n is now late, if there is somebody to tell.
Ends(n, id) ==
  /\ OnlyAbout(n) /\ \A x \in Places : At(n, x)' <=> At(n, x)
  /\ Owed(n, id) /\ ~Owed(n, id)' /\ ~At(n, "handled")
  /\ \A i \in Nat : /\ Owed(n, i)' => Owed(n, i)
                    /\ Late(n, i)' => Late(n, i) \/ i = id
                    /\ Told(n, i)' <=> Told(n, i)
  /\ Late(n, id)' \/ Lost(n)

LEMMA EndsLife ==
  ASSUME TypeOK, Known, TypeOK', Known', UNCHANGED calls, deaths' = deaths, Life, Awaited, WaitsInv,
         NEW n \in DOMAIN calls, NEW id \in Nat, Ends(n, id),
         transactionId' = transactionId, rs' = rs, pendingReplies' = pendingReplies,
         waits' = waits, OpenedSame
  PROVE  Life' /\ Awaited' /\ WaitsInv'
<1>1. Grows /\ "handled" \in Places /\ OnlyAbout(n)
  BY DEF Grows, deaths, Places, Ends
<1>2. OwnLife(n)
  BY DEF Life
<1>3. Promised(n, id) /\ \A i \in Nat : Promised(n, i) => i = id
  BY <1>2, Zenon DEF Promised, OwnLife, Ends
<1>4. /\ \A i \in Nat : Promised(n, i)' => i = id
      /\ Promised(n, id)' \/ Lost(n)
      /\ Lost(n) => Lost(n)'
  BY <1>1, <1>3, Zenon DEF Promised, Ends, Lost, Grows
<1>5. \A e \in Client : transactionId[e] <= transactionId'[e]
  BY DEF TypeOK
<1>6. OwnLife(n)'
  <2>1. \A p, r \in Places : At(n, p)' /\ At(n, r)' => p = r
    BY <1>2, Zenon DEF OwnLife, Ends
  <2>2. \A i \in Nat : Told(n, i)' => Promised(n, i)' \/ Lost(n)'
    BY <1>2, <1>3, <1>4, Zenon DEF OwnLife, Ends
  <2>3. /\ 0 < id /\ id <= transactionId[calls[n].callee]
        /\ \A p \in Places : At(n, p) => p \in {"handled", "told"}
    BY <1>2, <1>3, Zenon DEF OwnLife
  <2>4. /\ id <= transactionId'[calls'[n].callee]
        /\ \A p \in Places : At(n, p)' => p \in {"handled", "told"}
    BY <2>3 DEF Ends
  <2>5. ~At(n, "handled")' /\ ~Owed(n, id)'
    BY <1>1, Zenon DEF Ends
  <2> QED
    BY <1>4, <2>1, <2>2, <2>3, <2>4, <2>5, Zenon DEF OwnLife
<1>7. Life'
  <2>1. \A i \in Nat : Promised(n, i)' => n \in DOMAIN calls /\ Promised(n, i)
    BY <1>3, <1>4, Zenon
  <2>2. DOMAIN calls' \subseteq DOMAIN calls \union {n}
    OBVIOUS
  <2> QED
    BY <1>1, <1>5, <1>6, <2>1, <2>2, LifeKept
<1>8. ASSUME ~Lost(n), KnownOf(n) PROVE KnownOf(n)'
  <2>1. PICK e \in Client : e = calls[n].caller
    BY Parties
  <2>2. /\ rs[n].of \in {0, n}
        /\ n \in ToSet(pendingReplies[e]) <=> rs[n].tid \notin {0, -1}
        /\ calls[n].kind # "send" /\ ~Complete(n) => n \in Opened(e)
        /\ rs[n].tid # -1 => \A p \in Places : ~At(n, p)
        /\ rs[n].tid \in Nat \union {-1}
    BY <1>8, <2>1 DEF KnownOf
  <2>3. calls'[n].caller = e /\ (Complete(n)' <=> Complete(n)) /\ Opened(e)' = Opened(e)
    BY <2>1 DEF Complete, Async, OpenedSame
  <2>4. rs[n].tid # -1 => \A p \in Places : ~At(n, p)'
    BY <2>2, Zenon DEF Ends
  <2>5. ASSUME NEW i \in Nat \ {0}, rs[n].tid = i
        PROVE  Promised(n, i)' /\ rs[n].calledApp = calls[n].callee
    <3>1. Promised(n, i) /\ rs[n].calledApp = calls[n].callee
      BY <1>8, <2>5, Zenon DEF KnownOf
    <3> QED
      BY <1>3, <1>4, <1>8, <2>5, <3>1
  <2>6. ASSUME NEW i \in Nat, Promised(n, i)'
        PROVE  rs[n].tid = i \/ Told(n, i)' \/ At(n, "handled")'
    <3>1. Promised(n, i)
      BY <1>3, <1>4, <2>6, Zenon
    <3>2. rs[n].tid = i \/ Told(n, i) \/ At(n, "handled")
      BY <1>8, <3>1, Zenon DEF KnownOf
    <3> QED
      BY <1>1, <3>2, Zenon DEF Ends
  <2> QED
    BY <2>2, <2>3, <2>4, <2>5, <2>6 DEF KnownOf
<1>9. Awaited' /\ WaitsInv'
  BY <1>1, <1>8, StillAwaited
<1> QED
  BY <1>7, <1>9

LEMMA EndAnswers ==
  ASSUME TypeOK, Known, TypeOK', Known', SenderInv, AnswerInv, NEW c \in Client,
         NEW t \in transactionList[c], endTransaction(c, t)
  PROVE  AnswerInv'
<1>1. PICK n : n = t.n
  OBVIOUS
<1>2. PICK id : id = t.id
  OBVIOUS
<1>3. PICK e : e = calls[n].caller
  OBVIOUS
<1>4. PICK m : m = [op |-> "DCOPReplyDelayed", n |-> n, from |-> c, tid |-> id]
  OBVIOUS
<1>5. /\ WireInv /\ PostedInv /\ StackInv /\ OwedInv /\ WaitsInv /\ DelayInv
      /\ Life /\ Awaited
  BY DEF AnswerInv
<1>6. t.senderId = e
  BY <1>1, <1>3 DEF SenderInv
<1>7. /\ n \notin HandledBy(c) /\ Send(c, e, "DCOPReplyDelayed", n, id)
      /\ stack' = stack /\ UNCHANGED calls /\ deaths' = deaths /\ rs' = rs /\ transaction' = transaction
      /\ transactionId' = transactionId /\ messages' = messages
      /\ pendingReplies' = pendingReplies /\ waits' = waits
  BY <1>1, <1>2, <1>6 DEF endTransaction, asked, current, posted
<1>8. /\ transactionList'[c] = transactionList[c] \ {t}
      /\ \A d \in Client \ {c} : transactionList'[d] = transactionList[d]
  BY DEF endTransaction, TypeOK
<1>9. t \in Transaction /\ n \in DOMAIN calls /\ n \in CallNo /\ id \in Nat /\ e \in Client
  <2>1. t \in Transaction /\ n \in DOMAIN calls
    BY <1>1, Elements
  <2> QED
    BY <1>2, <1>3, <2>1, Parties DEF Transaction
<1>10. calls[n].callee = c /\ calls[n].kind # "send" /\ ~At(n, "handled")
  BY <1>1, <1>5, <1>7, OwedLater
<1>11. Grows /\ calls'[n] = calls[n]
  BY <1>7 DEF Grows, deaths
<1>12. Owed(n, id)
  BY <1>1, <1>2, <1>10 DEF Owed
<1>13. /\ m \in Message /\ m.op = "DCOPReplyDelayed" /\ m.n = n /\ m.from = c /\ m.tid = id
       /\ m.op \notin Requests
  BY <1>4, <1>9 DEF Message, Opcode, Requests
<1>14. m \notin Wire(e)
  <2> SUFFICES ASSUME m \in Wire(e) PROVE FALSE
    OBVIOUS
  <2>1. Late(n, id)
    BY <1>3, <1>13 DEF Late
  <2>2. OwnLife(n) /\ Promised(n, id)
    BY <1>5, <1>9, <1>12 DEF Life, Promised
  <2> QED
    BY <1>9, <1>12, <2>1, <2>2, Zenon DEF OwnLife
<1>15. MessagePlaced(e, m)'
  BY <1>3, <1>10, <1>11, <1>13 DEF MessagePlaced
<1>16. PICK A \in {{}, {m}} :
          /\ WireInv' /\ (A = {} => Lost(n))
          /\ \A d \in Client : Wire(d)' = IF d = e THEN Wire(e) \union A ELSE Wire(d)
  <2>1. CASE e \in dead /\ toClient' = toClient
    <3>1. WireInv' /\ \A d \in Client : Wire(d)' = Wire(d)
      BY <1>5, <1>11, <2>1, WireKept
    <3>2. Lost(n)
      BY <1>3, <2>1 DEF Lost
    <3> QED
      BY <3>1, <3>2
  <2>2. CASE Appends(toClient, toClient', e, m)
    <3>1. m.op # "DCOPReplyWait"
      BY <1>13
    <3>2. WireInv' /\ \A d \in Client : Wire(d)' = IF d = e THEN Wire(e) \union {m} ELSE Wire(d)
      BY <1>5, <1>9, <1>11, <1>13, <1>14, <1>15, <2>2, <3>1, WireSent
    <3> QED
      BY <3>2
  <2>3. "DCOPReplyDelayed" # "DCOPCall"
    OBVIOUS
  <2> QED
    BY <1>4, <1>7, <2>1, <2>2, <2>3, SendCases
<1>17. PostedInv'
  BY <1>5, <1>7, <1>11, PostedKept
<1>18. OwedInv'
  <2>1. \A d \in Client : transactionList'[d] \subseteq transactionList[d]
    BY <1>8
  <2> QED
    BY <1>5, <1>11, <2>1, OwedKept
<1>19. StackInv' /\ HandledSame /\ OpenedSame
  <2>1. \A d \in Client : Alike(stack[d], stack'[d])
    BY <1>7, SameAlike
  <2> QED
    BY <1>5, <1>11, <2>1, AlikeStacks
<1>20. DelayInv'
  <2>1. DelayOf(c) /\ stack'[c] = stack[c]
    BY <1>5, <1>7 DEF DelayInv
  <2>2. ASSUME NEW i \in DOMAIN stack[c], stack[c][i].at = "handler" PROVE stack[c][i].n # n
    BY <1>7, <2>2 DEF HandledBy
  <2>3. ASSUME NEW i \in DOMAIN stack[c], stack[c][i].at = "handler", stack[c][i].did = "delayed"
        PROVE  /\ i = Len(stack[c]) /\ transaction[c]
               /\ \E u \in transactionList'[c] : u.n = stack[c][i].n /\ u.id = transactionId[c]
    <3>1. /\ i = Len(stack[c]) /\ transaction[c]
          /\ \E u \in transactionList[c] : u.n = stack[c][i].n /\ u.id = transactionId[c]
      BY <2>1, <2>3 DEF DelayOf
    <3>2. \A u \in transactionList[c] : u.n = stack[c][i].n => u \in transactionList'[c]
      BY <1>1, <1>8, <2>2, <2>3
    <3> QED
      BY <3>1, <3>2
  <2>4. ASSUME NEW i \in DOMAIN stack[c], stack[c][i].at = "handler", stack[c][i].did # "delayed"
        PROVE  ~transaction[c] /\ \A u \in transactionList'[c] : u.n # stack[c][i].n
    BY <1>8, <2>1, <2>4 DEF DelayOf
  <2>5. DelayOf(c)'
    BY <1>7, <2>1, <2>3, <2>4 DEF DelayOf
  <2> QED
    BY <1>5, <1>7, <1>8, <2>5, DelayOthers
<1>21. OnlyAbout(n)
  <2>1. ASSUME NEW d \in Client, NEW u, u.n # n
        PROVE  u \in transactionList'[d] <=> u \in transactionList[d]
    BY <1>1, <1>8, <2>1
  <2>2. ASSUME NEW d \in Client, NEW x, x.n # n PROVE x \in Wire(d)' <=> x \in Wire(d)
    BY <1>13, <1>16, <2>2
  <2> QED
    BY <1>7, <1>19, <2>1, <2>2 DEF OnlyAbout, HandledSame
<1>22. calls'[n].caller = e /\ calls[n].caller = e /\ calls'[n].callee = c
  BY <1>3, <1>10, <1>11
<1>23. ASSUME NEW d \in Client, NEW x, x.op # "DCOPReplyDelayed"
       PROVE  x \in Wire(d)' <=> x \in Wire(d)
  BY <1>13, <1>16, <1>23
<1>24. /\ "DCOPReplyDelayed" \notin Requests
       /\ \A x : FailsIt(x) => x.op # "DCOPReplyDelayed"
  BY DEF Requests, FailsIt
<1>25. ASSUME NEW x \in Places PROVE At(n, x)' <=> At(n, x)
  <2>1. CASE x = "asked"
    <3>1. ASSUME NEW y, y.op \in Requests PROVE y \in Wire(c)' <=> y \in Wire(c)
      BY <1>23, <1>24, <3>1
    <3> QED
      BY <1>10, <1>22, <2>1, <3>1 DEF At
  <2>2. CASE x \in {"replied", "told"}
    BY <1>9, <1>22, <1>23, <2>2 DEF At
  <2>5. CASE x = "failed"
    BY <1>9, <1>22, <1>23, <1>24, <2>5 DEF At
  <2>3. CASE x = "posted"
    BY <1>7, <1>10, <1>22, <2>3 DEF At
  <2>4. CASE x = "handled"
    BY <1>10, <1>19, <1>22, <2>4 DEF At, HandledSame
  <2> QED
    BY <2>1, <2>2, <2>3, <2>4, <2>5 DEF Places
<1>26. ASSUME NEW i \in Nat
       PROVE  /\ Owed(n, i)' => Owed(n, i)
              /\ Late(n, i)' => Late(n, i) \/ i = id
              /\ Told(n, i)' <=> Told(n, i)
  <2>1. Wire(e)' = Wire(e) \union A
    BY <1>9, <1>16
  <2>2. Owed(n, i)' => Owed(n, i)
    BY <1>8, <1>10, <1>22 DEF Owed
  <2>3. Late(n, i)' => Late(n, i) \/ i = id
    BY <1>13, <1>22, <2>1 DEF Late
  <2>4. Told(n, i)' <=> Told(n, i)
    BY <1>13, <1>22, <2>1 DEF Told
  <2> QED
    BY <2>2, <2>3, <2>4
<1>27. ~Owed(n, id)'
  <2> SUFFICES ASSUME Owed(n, id)' PROVE FALSE
    OBVIOUS
  <2>1. PICK u \in transactionList'[c] : u.n = n /\ u.id = id
    BY <1>22 DEF Owed
  <2>2. u \in transactionList[c] /\ u # t
    BY <1>8
  <2>3. u \in Transaction /\ u.senderId = e
    BY <1>3, <2>1, <2>2, Elements DEF SenderInv
  <2> QED
    BY <1>1, <1>2, <1>6, <1>9, <2>1, <2>2, <2>3 DEF Transaction
<1>28. Ends(n, id)
  <2>1. Late(n, id)' \/ Lost(n)
    BY <1>9, <1>13, <1>16, <1>22 DEF Late
  <2> QED
    BY <1>10, <1>12, <1>21, <1>25, <1>26, <1>27, <2>1, Zenon DEF Ends
<1>29. Life' /\ Awaited' /\ WaitsInv'
  BY <1>5, <1>7, <1>9, <1>19, <1>28, EndsLife
<1> QED
  BY <1>16, <1>17, <1>18, <1>19, <1>20, <1>29 DEF AnswerInv

-----------------------------------------------------------------------------
(* Deaths.                                                                 *)

\* Two sequences one after the other, when nothing in the second is in the first.
LEMMA BothOnce ==
  ASSUME NEW s \in Seq(Message), NEW t \in Seq(Message), Once(s), Once(t),
         \A x \in ToSet(t) : x \notin ToSet(s)
  PROVE  Once(s \o t)
<1> DEFINE a == s \o t
           l == Len(s)
           k == Len(t)
<1>1. /\ a \in Seq(Message) /\ Len(a) = l + k
      /\ \A i \in 1 .. l + k : a[i] = IF i <= l THEN s[i] ELSE t[i - l]
  BY ConcatProperties
<1>2. /\ l \in Nat /\ k \in Nat /\ DOMAIN s = 1 .. l /\ DOMAIN t = 1 .. k
      /\ DOMAIN a = 1 .. l + k
  BY <1>1, LenProperties
<1> HIDE DEF a, l, k
<1>3. ASSUME NEW i \in DOMAIN a
      PROVE  \/ i \in DOMAIN s /\ a[i] = s[i]
             \/ i - l \in DOMAIN t /\ a[i] = t[i - l] /\ i \in Int
  BY <1>1, <1>2
<1>4. \A i \in DOMAIN s : s[i] \in ToSet(s)
  BY DEF ToSet
<1>5. \A i \in DOMAIN t : t[i] \in ToSet(t)
  BY DEF ToSet
<1>6. ASSUME NEW i \in DOMAIN a, NEW j \in DOMAIN a, a[i] = a[j] PROVE i = j
  <2>1. CASE i \in DOMAIN s /\ a[i] = s[i]
    <3>1. j \in DOMAIN s /\ a[j] = s[j]
      BY <1>3, <1>4, <1>5, <1>6, <2>1, Zenon
    <3> QED
      BY <1>6, <2>1, <3>1, Zenon DEF Once
  <2>2. CASE i - l \in DOMAIN t /\ a[i] = t[i - l] /\ i \in Int
    <3>1. j - l \in DOMAIN t /\ a[j] = t[j - l] /\ j \in Int
      BY <1>3, <1>4, <1>5, <1>6, <2>2, Zenon
    <3>2. i - l = j - l
      BY <1>6, <2>2, <3>1, Zenon DEF Once
    <3> QED
      BY <1>2, <2>2, <3>1, <3>2
  <2> QED
    BY <1>3, <2>1, <2>2, Zenon
<1> QED
  BY <1>6, Zenon DEF Once, a

\* Failures come last and are neither of the two opcodes whose order matters.
LEMMA FailuresLast ==
  ASSUME NEW s \in Seq(Message), NEW t \in Seq(Message), WaitFirst(s),
         \A x \in ToSet(t) : x.op = "DCOPReplyFailed"
  PROVE  WaitFirst(s \o t)
<1> DEFINE a == s \o t
           l == Len(s)
           k == Len(t)
<1>1. /\ a \in Seq(Message) /\ Len(a) = l + k
      /\ \A i \in 1 .. l + k : a[i] = IF i <= l THEN s[i] ELSE t[i - l]
  BY ConcatProperties
<1>2. /\ l \in Nat /\ k \in Nat /\ DOMAIN s = 1 .. l /\ DOMAIN t = 1 .. k
      /\ DOMAIN a = 1 .. l + k
  BY <1>1, LenProperties
<1> HIDE DEF a, l, k
<1>3. ASSUME NEW i \in DOMAIN a
      PROVE  (i \in DOMAIN s /\ a[i] = s[i]) \/ (i - l \in DOMAIN t /\ a[i] = t[i - l])
  BY <1>1, <1>2
<1>4. \A i \in DOMAIN t : t[i].op = "DCOPReplyFailed"
  BY DEF ToSet
<1>5. ASSUME NEW i \in DOMAIN a, a[i].op \in {"DCOPReplyWait", "DCOPReplyDelayed"}
      PROVE  i \in DOMAIN s /\ a[i] = s[i]
  BY <1>3, <1>4, <1>5
<1>6. ASSUME NEW i \in DOMAIN a, NEW j \in DOMAIN a, a[i].op = "DCOPReplyWait",
             a[j].op = "DCOPReplyDelayed", a[i].n = a[j].n
      PROVE  i < j
  <2>1. i \in DOMAIN s /\ a[i] = s[i] /\ j \in DOMAIN s /\ a[j] = s[j]
    BY <1>5, <1>6
  <2> QED
    BY <1>6, <2>1, Zenon DEF WaitFirst
<1> QED
  BY <1>6, Zenon DEF WaitFirst, a

\* What fails when c dies: calls to c that it did not answer.
LEMMA Left ==
  ASSUME TypeOK, Known, WireInv, PostedInv, StackInv, OwedInv, NEW c \in Client, NEW n
  PROVE  /\ n \in waitingForReply(c) =>
              /\ n \in DOMAIN calls /\ calls[n].callee = c /\ calls[n].kind # "send"
              /\ \E q \in {"asked", "posted", "handled"} : At(n, q)
         /\ n \in waitingForDelayedReply(c) =>
              n \in DOMAIN calls /\ calls[n].callee = c /\ calls[n].kind # "send"
<1>1. n \in Queued(c, {"DCOPCall"}) => calls[n].callee = c /\ At(n, "asked")
  <2> SUFFICES ASSUME NEW m \in Wire(c), m.op = "DCOPCall", n = m.n
               PROVE  calls[n].callee = c /\ At(n, "asked")
    BY DEF Queued, Wire
  <2>1. m.op \in Requests /\ MessagePlaced(c, m)
    BY DEF Requests, WireInv
  <2> QED
    BY <2>1 DEF MessagePlaced, At
<1>2. n \in ToSet(messages[c]) => calls[n].callee = c /\ At(n, "posted")
  BY DEF PostedInv, At
<1>3. HandledBy(c) = Handled(c)
  BY DEF HandledBy, Handled, Numbers
<1>4. n \in HandledBy(c) => calls[n].callee = c /\ At(n, "handled")
  BY <1>3 DEF StackInv, At
<1>5. waitingForReply(c) \subseteq DOMAIN calls /\ waitingForDelayedReply(c) \subseteq DOMAIN calls
  BY FailuresTyped
<1>6. n \in waitingForReply(c) =>
        /\ calls[n].callee = c /\ calls[n].kind # "send"
        /\ \E q \in {"asked", "posted", "handled"} : At(n, q)
  BY <1>1, <1>2, <1>4 DEF waitingForReply
<1>7. n \in waitingForDelayedReply(c) => calls[n].callee = c /\ calls[n].kind # "send"
  BY DEF waitingForDelayedReply, OwedInv
<1> QED
  BY <1>5, <1>6, <1>7

\* The server's message about n, when c died.
Fails(c, n, e, m) ==
  /\ m.op = "DCOPReplyFailed" /\ m.n = n /\ m.from = c /\ calls[n].caller = e
  /\ \/ m.tid = 0 /\ n \in waitingForReply(c)
     \/ m.tid = 1 /\ n \in waitingForDelayedReply(c)

\* The messages to e after the death of c.
LEMMA FailuresSent ==
  ASSUME TypeOK, Known, WireInv, PostedInv, StackInv, OwedInv, NEW c \in Client \ dead,
         NEW e \in Client, Die(c)
  PROVE  /\ Once(toClient'[e]) /\ WaitFirst(toClient'[e])
         /\ \A m \in Wire(e)' : e \notin dead' /\ (m \in Wire(e) \/ Fails(c, m.n, e, m))
         /\ e \notin dead' => Wire(e) \subseteq Wire(e)'
<1>1. toClient'[e] = IF e \in dead' THEN << >> ELSE toClient[e] \o Failures(c, e)
  BY DEF Die
<1>2. CASE e \in dead'
  <2>1. toClient'[e] = << >> /\ DOMAIN << >> = {}
    BY <1>1, <1>2, EmptySeq
  <2> QED
    BY <1>2, <2>1 DEF Once, WaitFirst, Wire, ToSet
<1>3. CASE e \notin dead'
  <2> DEFINE F == FailuresOf(c, Unanswered(c, e), 0)
             G == FailuresOf(c, Unkept(c, e), 1)
             s == SetToSeq(F)
             t == SetToSeq(G)
  <2>1. Unanswered(c, e) \subseteq CallNo /\ Unkept(c, e) \subseteq CallNo
    BY FailuresTyped
  <2>2. IsFiniteSet(F) /\ F \subseteq Message /\ IsFiniteSet(G) /\ G \subseteq Message
    BY <2>1, FailuresFinite
  <2>3. ASSUME NEW x \in F PROVE Fails(c, x.n, e, x) /\ x.tid = 0
    BY <2>1, <2>3, FailureIs DEF FailuresOf, Fails, Unanswered
  <2>4. ASSUME NEW x \in G PROVE Fails(c, x.n, e, x) /\ x.tid = 1
    BY <2>1, <2>4, FailureIs DEF FailuresOf, Fails, Unkept
  <2>5. Failures(c, e) = s \o t
    BY FailuresTyped
  <2> HIDE DEF F, G
  <2>6. /\ s \in Seq(F) /\ t \in Seq(G) /\ ToSet(s) = F /\ ToSet(t) = G
        /\ \A i, j \in DOMAIN s : s[i] = s[j] => i = j
        /\ \A i, j \in DOMAIN t : t[i] = t[j] => i = j
    BY <2>2, SeqOfSet
  <2> HIDE DEF s, t
  <2>7. s \in Seq(Message) /\ t \in Seq(Message) /\ Once(s) /\ Once(t)
    BY <2>2, <2>6, LenProperties, IsASeq DEF Once
  <2>8. \A x \in ToSet(t) : x \notin ToSet(s)
    BY <2>3, <2>4, <2>6
  <2>9. /\ Failures(c, e) \in Seq(Message) /\ ToSet(Failures(c, e)) = F \union G
        /\ Once(Failures(c, e))
    BY <2>5, <2>6, <2>7, <2>8, BothOnce, OneAfterOther
  <2>10. toClient[e] \in Seq(Message) /\ Once(toClient[e]) /\ WaitFirst(toClient[e])
    BY DEF TypeOK, WireInv
  <2>11. \A x \in ToSet(Failures(c, e)) : Fails(c, x.n, e, x)
    BY <2>3, <2>4, <2>9
  <2>12. \A x \in ToSet(Failures(c, e)) : x.op = "DCOPReplyFailed" /\ x \notin ToSet(toClient[e])
    BY <2>11 DEF Fails, WireInv, MessagePlaced, Wire
  <2>13. Once(toClient[e] \o Failures(c, e)) /\ WaitFirst(toClient[e] \o Failures(c, e))
    BY <2>9, <2>10, <2>12, BothOnce, FailuresLast
  <2>14. ToSet(toClient[e] \o Failures(c, e)) = ToSet(toClient[e]) \union ToSet(Failures(c, e))
    BY <2>9, <2>10, OneAfterOther
  <2>15. toClient'[e] = toClient[e] \o Failures(c, e)
    BY <1>1, <1>3
  <2> QED
    BY <1>3, <2>11, <2>13, <2>14, <2>15 DEF Wire
<1> QED
  BY <1>2, <1>3

\* What c was in the middle of is gone, and nothing else of the others.
Cleared(c) ==
  /\ UNCHANGED calls /\ rs' = rs /\ transaction' = transaction /\ transactionId' = transactionId
  /\ dead' = dead \union {c} /\ abandoned' = abandoned \union waitingForDelayedReply(c)
  /\ stack'[c] = << >> /\ messages'[c] = << >> /\ pendingReplies'[c] = << >>
  /\ waits'[c] = << >> /\ transactionList'[c] = {}
  /\ \A d \in Client \ {c} :
       /\ stack'[d] = stack[d] /\ messages'[d] = messages[d]
       /\ pendingReplies'[d] = pendingReplies[d] /\ waits'[d] = waits[d]
       /\ transactionList'[d] = transactionList[d]

LEMMA DieRest ==
  ASSUME TypeOK, Known, AnswerInv, NEW c \in Client, Die(c)
  PROVE  /\ Cleared(c) /\ Grows
         /\ StackInv' /\ PostedInv' /\ OwedInv' /\ WaitsInv' /\ DelayInv'
         /\ Handled(c)' = {} /\ Opened(c)' = {}
         /\ \A d \in Client \ {c} : Handled(d)' = Handled(d) /\ Opened(d)' = Opened(d)
<1>1. Cleared(c)
  BY DEF Die, asked, current, TypeOK, Cleared
<1>2. Grows
  BY <1>1 DEF Cleared, Grows
<1>3. /\ StackInv /\ OwedInv /\ DelayInv /\ PostedInv /\ WaitsInv
  BY DEF AnswerInv
<1>4. DOMAIN << >> = {} /\ ToSet(<< >>) = {}
  BY EmptySeq DEF ToSet
<1>5. Handled(c)' = {} /\ Opened(c)' = {}
  BY <1>1, <1>4 DEF Cleared, Handled, Opened, Numbers
<1>6. \A d \in Client \ {c} : Handled(d)' = Handled(d) /\ Opened(d)' = Opened(d)
  BY <1>1 DEF Cleared, Handled, Opened
<1>7. StackInv'
  <2>1. ASSUME NEW d \in Client
        PROVE  OnceAt(stack'[d], "handler") /\ OnceAt(stack'[d], "call") /\ AloneAt(stack'[d], "call")
    <3>1. CASE d = c
      BY <1>1, <1>4, <3>1 DEF Cleared, OnceAt, AloneAt
    <3>2. CASE d # c
      BY <1>1, <1>3, <3>2 DEF Cleared, StackInv
    <3> QED
      BY <3>1, <3>2
  <2>2. \A d \in Client : Handled(d)' \subseteq Handled(d) /\ Opened(d)' \subseteq Opened(d)
    BY <1>5, <1>6
  <2> QED
    BY <1>2, <1>3, <2>1, <2>2, StackKept
<1>8. PostedInv'
  <2>1. ASSUME NEW d \in Client
        PROVE  Once(messages'[d]) /\ ToSet(messages'[d]) \subseteq ToSet(messages[d])
    <3>1. CASE d = c
      BY <1>1, <1>4, <3>1 DEF Cleared, Once
    <3>2. CASE d # c
      BY <1>1, <1>3, <3>2 DEF Cleared, PostedInv
    <3> QED
      BY <3>1, <3>2
  <2>2. calls' = calls
    BY <1>1 DEF Cleared
  <2> QED
    BY <1>3, <2>1, <2>2 DEF PostedInv
<1>9. OwedInv'
  <2>1. \A d \in Client : transactionList'[d] \subseteq transactionList[d]
    BY <1>1 DEF Cleared
  <2> QED
    BY <1>2, <1>3, <2>1, OwedKept
<1>10. WaitsInv'
  <2>1. ASSUME NEW d \in Client
        PROVE  /\ ToSet(waits[d])' \subseteq ToSet(waits[d])
               /\ ToSet(pendingReplies[d])' \subseteq ToSet(pendingReplies[d])
    <3>1. CASE d = c
      BY <1>1, <1>4, <3>1 DEF Cleared
    <3>2. CASE d # c
      BY <1>1, <3>2 DEF Cleared
    <3> QED
      BY <3>1, <3>2
  <2> QED
    BY <1>2, <1>3, <2>1, WaitsKept
<1>11. DelayInv'
  <2>1. DelayOf(c)'
    BY <1>1, <1>4 DEF Cleared, DelayOf
  <2> QED
    BY <1>1, <1>3, <2>1, DelayOthers DEF Cleared
<1> QED
  BY <1>1, <1>2, <1>5, <1>6, <1>7, <1>8, <1>9, <1>10, <1>11

LEMMA DieWire ==
  ASSUME TypeOK, Known, TypeOK', Known', AnswerInv, NEW c \in Client \ dead, Die(c)
  PROVE  WireInv'
<1>1. Cleared(c) /\ Grows
  BY DieRest
<1>2. WireInv /\ PostedInv /\ StackInv /\ OwedInv
  BY DEF AnswerInv
<1>3. ASSUME NEW e \in Client, NEW m \in Wire(e)' PROVE MessagePlaced(e, m)'
  <2>1. CASE m \in Wire(e)
    <3>1. m.n \in DOMAIN calls /\ MessagePlaced(e, m)
      BY <1>2, <2>1, Elements DEF WireInv
    <3> QED
      BY <1>1, <3>1, MessageStays
  <2>2. CASE Fails(c, m.n, e, m)
    <3>1. /\ m.op = "DCOPReplyFailed" /\ m.from = c /\ calls[m.n].caller = e
          /\ \/ m.tid = 0 /\ m.n \in waitingForReply(c)
             \/ m.tid = 1 /\ m.n \in waitingForDelayedReply(c)
      BY <2>2 DEF Fails
    <3>2. m.n \in DOMAIN calls /\ calls[m.n].callee = c /\ calls[m.n].kind # "send"
      BY <1>2, <3>1, Left
    <3>3. calls' = calls /\ c \in dead' /\ waitingForDelayedReply(c) \subseteq abandoned'
      BY <1>1 DEF Cleared
    <3> QED
      BY <3>1, <3>2, <3>3 DEF MessagePlaced, Requests
  <2> QED
    BY <1>2, <1>3, <2>1, <2>2, FailuresSent
<1>4. \A e \in Client : Once(toClient'[e]) /\ WaitFirst(toClient'[e])
  BY <1>2, FailuresSent
<1> QED
  BY <1>3, <1>4, Zenon DEF WireInv

\* Where a call and its answers are when c has died: where they were, or its failure is on
\* its way if c had the call.
LEMMA DieMoves ==
  ASSUME TypeOK, Known, AnswerInv, NEW c \in Client \ dead, Die(c), NEW n \in DOMAIN calls
  PROVE  /\ \A p \in Places : At(n, p)' =>
              \/ At(n, p)
              \/ /\ p = "failed" /\ calls[n].callee = c
                 /\ \E q \in {"asked", "posted", "handled"} : At(n, q)
         /\ calls[n].callee = c =>
              ~At(n, "asked")' /\ ~At(n, "posted")' /\ ~At(n, "handled")'
         /\ calls[n].callee # c => (At(n, "handled")' <=> At(n, "handled"))
         /\ \A id \in Nat :
              /\ Told(n, id)' => Told(n, id) /\ calls[n].caller \notin dead'
              /\ Late(n, id)' => Late(n, id)
              /\ Owed(n, id)' <=> Owed(n, id) /\ calls[n].callee # c
              /\ Owed(n, id) /\ calls[n].callee = c => At(n, "handled") \/ n \in abandoned'
              /\ calls[n].caller \notin dead' => (Told(n, id) => Told(n, id)')
              /\ calls[n].caller \notin dead' => (Late(n, id) => Late(n, id)')
<1>1. PICK e, d \in Client : /\ calls[n].caller = e /\ calls[n].callee = d
                            /\ calls'[n].caller = e /\ calls'[n].callee = d
  BY Parties, DieRest DEF Cleared
<1>2. WireInv /\ PostedInv /\ StackInv /\ OwedInv
  BY DEF AnswerInv
<1>3. /\ calls[n].caller = e /\ calls[n].callee = d
      /\ Handled(c)' = {} /\ (d # c => Handled(d)' = Handled(d))
      /\ messages'[c] = << >> /\ (d # c => messages'[d] = messages[d])
      /\ transactionList'[c] = {} /\ (d # c => transactionList'[d] = transactionList[d])
      /\ abandoned' = abandoned \union waitingForDelayedReply(c) /\ c \in dead'
  BY <1>1, DieRest DEF Cleared
<1>4. ASSUME NEW b \in Client, NEW m \in Wire(b)', m.op # "DCOPReplyFailed"
      PROVE  m \in Wire(b) /\ b \notin dead'
  BY <1>2, <1>4, FailuresSent DEF Fails
<1>5. ASSUME NEW b \in Client, b \notin dead' PROVE Wire(b) \subseteq Wire(b)'
  BY <1>2, <1>5, FailuresSent
<1>6. "DCOPReplyFailed" \notin Requests /\ ToSet(<< >>) = {}
  BY EmptySeq DEF Requests, ToSet
<1>7. ASSUME NEW p \in Places, At(n, p)', p # "failed" PROVE At(n, p)
  <2>1. CASE p = "asked"
    <3>1. PICK m \in Wire(d)' : m.n = n /\ m.op \in Requests
      BY <1>1, <1>7, <2>1 DEF At
    <3>2. m \in Wire(d)
      BY <1>1, <1>4, <1>6, <3>1
    <3> QED
      BY <1>3, <2>1, <3>1, <3>2 DEF At
  <2>2. CASE p = "posted"
    BY <1>1, <1>3, <1>6, <1>7, <2>2 DEF At
  <2>3. CASE p = "handled"
    BY <1>1, <1>3, <1>7, <2>3 DEF At
  <2>4. CASE p = "replied"
    <3>1. PICK m \in Wire(e)' : m.n = n /\ m.op = "DCOPReply"
      BY <1>1, <1>7, <2>4 DEF At
    <3>2. m \in Wire(e)
      BY <1>1, <1>4, <3>1
    <3> QED
      BY <1>3, <2>4, <3>1, <3>2 DEF At
  <2>5. CASE p = "told"
    <3>1. PICK m \in Wire(e)' : m.n = n /\ m.op = "DCOPReplyWait"
      BY <1>1, <1>7, <2>5 DEF At
    <3>2. m \in Wire(e)
      BY <1>1, <1>4, <3>1
    <3> QED
      BY <1>3, <2>5, <3>1, <3>2 DEF At
  <2> QED
    BY <1>7, <2>1, <2>2, <2>3, <2>4, <2>5 DEF Places
<1>8. ASSUME At(n, "failed")'
      PROVE  \/ At(n, "failed")
             \/ d = c /\ \E q \in {"asked", "posted", "handled"} : At(n, q)
  <2>1. PICK m \in Wire(e)' : m.n = n /\ FailsIt(m)
    BY <1>1, <1>8 DEF At
  <2>2. m \in Wire(e) \/ Fails(c, n, e, m)
    BY <1>1, <1>2, <2>1, FailuresSent
  <2>3. CASE m \in Wire(e)
    BY <1>3, <2>1, <2>3 DEF At
  <2>4. CASE Fails(c, n, e, m)
    <3>1. n \in waitingForReply(c)
      BY <2>1, <2>4 DEF Fails, FailsIt
    <3> QED
      BY <1>2, <1>3, <3>1, Left
  <2> QED
    BY <2>2, <2>3, <2>4
<1>9. d = c => ~At(n, "asked")' /\ ~At(n, "posted")' /\ ~At(n, "handled")'
  <2> SUFFICES ASSUME d = c PROVE ~At(n, "asked")' /\ ~At(n, "posted")' /\ ~At(n, "handled")'
    OBVIOUS
  <2>1. \A m \in Wire(c)' : FALSE
    BY <1>2, <1>3, FailuresSent
  <2> QED
    BY <1>1, <1>3, <1>6, <2>1 DEF At
<1>10. d # c => (At(n, "handled")' <=> At(n, "handled"))
  BY <1>1, <1>3 DEF At
<1>11. ASSUME NEW id \in Nat
       PROVE  /\ Told(n, id)' => Told(n, id) /\ e \notin dead'
              /\ Late(n, id)' => Late(n, id)
              /\ e \notin dead' => (Told(n, id) => Told(n, id)')
              /\ e \notin dead' => (Late(n, id) => Late(n, id)')
  <2>1. ASSUME Told(n, id)' PROVE Told(n, id) /\ e \notin dead'
    <3>1. PICK m \in Wire(e)' : m.n = n /\ m.op = "DCOPReplyWait" /\ m.tid = id
      BY <1>1, <2>1 DEF Told
    <3> QED
      BY <1>1, <1>3, <1>4, <3>1 DEF Told
  <2>2. ASSUME Late(n, id)' PROVE Late(n, id)
    <3>1. PICK m \in Wire(e)' : m.n = n /\ m.op = "DCOPReplyDelayed" /\ m.tid = id
      BY <1>1, <2>2 DEF Late
    <3> QED
      BY <1>1, <1>3, <1>4, <3>1 DEF Late
  <2>3. e \notin dead' => (Told(n, id) => Told(n, id)')
    BY <1>1, <1>3, <1>5 DEF Told
  <2>4. e \notin dead' => (Late(n, id) => Late(n, id)')
    BY <1>1, <1>3, <1>5 DEF Late
  <2> QED
    BY <2>1, <2>2, <2>3, <2>4
<1>12. ASSUME NEW id \in Nat
       PROVE  /\ Owed(n, id)' <=> Owed(n, id) /\ d # c
              /\ Owed(n, id) /\ d = c => At(n, "handled") \/ n \in abandoned'
  <2>1. Owed(n, id)' <=> Owed(n, id) /\ d # c
    BY <1>1, <1>3 DEF Owed
  <2>2. ASSUME Owed(n, id), d = c, n \notin HandledBy(c) PROVE n \in waitingForDelayedReply(c)
    BY <1>3, <2>2 DEF Owed, waitingForDelayedReply
  <2>3. d = c /\ n \in HandledBy(c) => At(n, "handled")
    BY <1>3 DEF At, Handled, Numbers, HandledBy
  <2> QED
    BY <1>3, <2>1, <2>2, <2>3
<1> QED
  BY <1>3, <1>7, <1>8, <1>9, <1>10, <1>11, <1>12

LEMMA DieLife ==
  ASSUME TypeOK, Known, AnswerInv, NEW c \in Client \ dead, Die(c), NEW n \in DOMAIN calls
  PROVE  /\ OwnLife(n)'
         /\ \A id \in Nat : Promised(n, id)' => Promised(n, id)
<1>1. /\ \A p, q \in Places : At(n, p) /\ At(n, q) => p = q
      /\ \A id \in Nat : Told(n, id) => Promised(n, id) \/ Lost(n)
      /\ \A id \in Nat : Promised(n, id) =>
           /\ 0 < id /\ id <= transactionId[calls[n].callee]
           /\ \A p \in Places : At(n, p) => p \in {"handled", "told"}
           /\ Late(n, id) => ~At(n, "handled") /\ ~Owed(n, id)
           /\ \A x \in Nat : Promised(n, x) => x = id
  BY DEF AnswerInv, Life, OwnLife
<1>2. /\ calls'[n] = calls[n] /\ transactionId' = transactionId
      /\ n \in abandoned => n \in abandoned' /\ dead \subseteq dead'
      /\ calls[n].caller \in dead => calls[n].caller \in dead'
  BY DieRest DEF Cleared
<1>3. ASSUME NEW p \in Places, At(n, p)'
      PROVE  \/ At(n, p)
             \/ /\ p = "failed" /\ calls[n].callee = c
                /\ \E q \in {"asked", "posted", "handled"} : At(n, q)
  BY <1>3, DieMoves
<1>4. calls[n].callee = c => ~At(n, "asked")' /\ ~At(n, "posted")' /\ ~At(n, "handled")'
  BY DieMoves
<1>5. calls[n].callee # c => (At(n, "handled")' <=> At(n, "handled"))
  BY DieMoves
<1>6. ASSUME NEW id \in Nat
      PROVE  /\ Told(n, id)' => Told(n, id) /\ calls[n].caller \notin dead'
             /\ Late(n, id)' => Late(n, id)
             /\ Owed(n, id)' <=> Owed(n, id) /\ calls[n].callee # c
             /\ Owed(n, id) /\ calls[n].callee = c => At(n, "handled") \/ n \in abandoned'
             /\ calls[n].caller \notin dead' => (Late(n, id) => Late(n, id)')
  BY DieMoves
<1>7. {"asked", "posted", "handled", "told", "failed"} \subseteq Places
  BY DEF Places
<1>8. ASSUME NEW id \in Nat PROVE Promised(n, id)' => Promised(n, id)
  BY <1>6 DEF Promised
<1>9. ASSUME NEW p \in Places, NEW q \in Places, At(n, p)', At(n, q)' PROVE p = q
  <2>1. ASSUME NEW x \in Places, At(n, x)', ~At(n, x), NEW y \in Places, At(n, y)', At(n, y)
        PROVE  FALSE
    <3>1. calls[n].callee = c /\ \E z \in {"asked", "posted", "handled"} : At(n, z)
      BY <1>3, <2>1
    <3>2. y \in {"asked", "posted", "handled"}
      BY <1>1, <1>7, <2>1, <3>1
    <3> QED
      BY <1>4, <2>1, <3>1, <3>2
  <2>2. ~At(n, p) => p = "failed"
    BY <1>3, <1>9
  <2>3. ~At(n, q) => q = "failed"
    BY <1>3, <1>9
  <2> QED
    BY <1>1, <1>9, <2>1, <2>2, <2>3
<1>10. ASSUME NEW id \in Nat, Told(n, id)' PROVE Promised(n, id)' \/ Lost(n)'
  <2>1. Told(n, id) /\ calls[n].caller \notin dead'
    BY <1>6, <1>10
  <2>2. CASE Lost(n)
    BY <1>2, <2>2 DEF Lost
  <2>3. CASE Late(n, id)
    BY <1>6, <2>1, <2>3 DEF Promised
  <2>4. CASE Owed(n, id)
    <3>1. ~At(n, "handled")
      BY <1>1, <1>7, <2>1, ToldIsThere
    <3> QED
      BY <1>2, <1>6, <2>4, <3>1 DEF Promised, Lost
  <2> QED
    BY <1>1, <2>1, <2>2, <2>3, <2>4 DEF Promised
<1>11. ASSUME NEW id \in Nat, Promised(n, id)'
       PROVE  /\ 0 < id /\ id <= transactionId'[calls'[n].callee]
              /\ \A p \in Places : At(n, p)' => p \in {"handled", "told"}
              /\ Late(n, id)' => ~At(n, "handled")' /\ ~Owed(n, id)'
              /\ \A x \in Nat : Promised(n, x)' => x = id
  <2>1. Promised(n, id)
    BY <1>8, <1>11
  <2>2. 0 < id /\ id <= transactionId'[calls'[n].callee]
    BY <1>1, <1>2, <2>1
  <2>3. ASSUME NEW p \in Places, At(n, p)' PROVE p \in {"handled", "told"}
    <3>1. CASE At(n, p)
      BY <1>1, <2>1, <3>1
    <3>2. CASE ~At(n, p)
      <4>1. PICK q \in {"asked", "posted", "handled"} : At(n, q) /\ calls[n].callee = c
        BY <1>3, <2>3, <3>2
      <4>2. At(n, "handled")
        BY <1>1, <1>7, <2>1, <4>1
      <4>3. Late(n, id)
        BY <1>6, <1>11, <4>1 DEF Promised
      <4> QED
        BY <1>1, <2>1, <4>2, <4>3
    <3> QED
      BY <3>1, <3>2
  <2>4. Late(n, id)' => ~At(n, "handled")' /\ ~Owed(n, id)'
    BY <1>1, <1>4, <1>5, <1>6, <2>1
  <2>5. \A x \in Nat : Promised(n, x)' => x = id
    BY <1>1, <1>8, <2>1
  <2> QED
    BY <2>2, <2>3, <2>4, <2>5
<1>12. OwnLife(n)'
  BY <1>9, <1>10, <1>11, Zenon DEF OwnLife
<1> QED
  BY <1>8, <1>12

\* What a client knows that did not give up, and whose promises did not die.
LEMMA DieKnown ==
  ASSUME TypeOK, Known, AnswerInv, NEW c \in Client \ dead, Die(c), NEW n \in DOMAIN calls,
         KnownOf(n), ~Lost(n)'
  PROVE  KnownOf(n)'
<1>1. /\ rs[n].of \in {0, n}
      /\ n \in ToSet(pendingReplies[calls[n].caller]) <=> rs[n].tid \notin {0, -1}
      /\ calls[n].kind # "send" /\ ~Complete(n) => n \in Opened(calls[n].caller)
      /\ rs[n].tid # -1 => \A p \in Places : ~At(n, p)
      /\ rs[n].tid \in Nat \union {-1}
      /\ \A id \in Nat \ {0} : rs[n].tid = id =>
           Promised(n, id) /\ rs[n].calledApp = calls[n].callee
      /\ \A id \in Nat : Promised(n, id) => rs[n].tid = id \/ Told(n, id) \/ At(n, "handled")
  BY DEF KnownOf
<1>2. PICK e \in Client : e = calls[n].caller
  BY Parties
<1>3. calls' = calls /\ rs' = rs /\ dead' = dead \union {c}
  BY DieRest DEF Cleared
<1>4. n \notin abandoned' /\ e \notin dead' /\ e # c
  BY <1>2, <1>3 DEF Lost
<1>5. pendingReplies'[e] = pendingReplies[e] /\ Opened(e)' = Opened(e)
  BY <1>4, DieRest DEF Cleared
<1>6. Complete(n)' <=> Complete(n)
  BY <1>3 DEF Complete, Async
<1>7. {"asked", "posted", "handled"} \subseteq Places
  BY DEF Places
<1>8. ASSUME rs[n].tid # -1, NEW p \in Places PROVE ~At(n, p)'
  BY <1>1, <1>7, <1>8, DieMoves
<1>9. ASSUME NEW id \in Nat \ {0}, rs[n].tid = id PROVE Promised(n, id)'
  <2>1. Promised(n, id) /\ ~At(n, "handled") /\ rs[n].tid # -1
    BY <1>1, <1>7, <1>9
  <2>2. CASE Late(n, id)
    BY <1>2, <1>4, <2>2, DieMoves DEF Promised
  <2>3. CASE Owed(n, id)
    BY <1>4, <2>1, <2>3, DieMoves DEF Promised
  <2> QED
    BY <2>1, <2>2, <2>3 DEF Promised
<1>10. ASSUME NEW id \in Nat, Promised(n, id)'
       PROVE  rs[n].tid = id \/ Told(n, id)' \/ At(n, "handled")'
  <2>1. Promised(n, id)
    BY <1>10, DieLife
  <2>2. CASE Told(n, id)
    BY <1>2, <1>4, <2>2, DieMoves
  <2>3. CASE At(n, "handled")
    <3>1. ~Late(n, id)
      BY <2>1, <2>3, Zenon DEF AnswerInv, Life, OwnLife
    <3>2. Owed(n, id)'
      BY <1>10, <3>1, DieMoves DEF Promised
    <3> QED
      BY <2>3, <3>2, DieMoves
  <2> QED
    BY <1>1, <2>1, <2>2, <2>3
<1> QED
  BY <1>1, <1>2, <1>3, <1>5, <1>6, <1>8, <1>9, <1>10 DEF KnownOf

LEMMA DieAnswers ==
  ASSUME TypeOK, Known, TypeOK', Known', AnswerInv, NEW c \in Client \ dead, Die(c)
  PROVE  AnswerInv'
<1>1. /\ Cleared(c) /\ Grows
      /\ StackInv' /\ PostedInv' /\ OwedInv' /\ WaitsInv' /\ DelayInv'
      /\ \A d \in Client \ {c} : Opened(d)' = Opened(d)
  BY DieRest
<1>2. WireInv'
  BY DieWire
<1>3. calls' = calls /\ rs' = rs /\ c \in dead'
  BY <1>1 DEF Cleared
<1>4. Life'
  <2>1. ASSUME NEW n \in DOMAIN calls
        PROVE  OwnLife(n)' /\ \A id \in Nat : Promised(n, id)' => Promised(n, id)
    BY DieLife
  <2>2. \A n, k \in DOMAIN calls : \A id \in Nat :
          Promised(n, id) /\ Promised(k, id) /\ calls[n].callee = calls[k].callee => n = k
    BY DEF AnswerInv, Life
  <2> QED
    BY <1>3, <2>1, <2>2, Zenon DEF Life
<1>5. ASSUME NEW e \in Client, ~GaveUp(e)' PROVE AwaitedBy(e)'
  <2>1. e # c
    BY <1>3, <1>5 DEF GaveUp
  <2>2. ~GaveUp(e)
    BY <1>1, <1>3, <1>5, GivenUp
  <2>3. AwaitedBy(e)
    BY <2>2 DEF AnswerInv, Awaited
  <2>4. pendingReplies'[e] = pendingReplies[e] /\ waits'[e] = waits[e] /\ Opened(e)' = Opened(e)
    BY <1>1, <2>1 DEF Cleared
  <2>5. \A k : Complete(k)' <=> Complete(k)
    BY <1>3 DEF Complete, Async
  <2>6. WaitsRight(e)' /\ Once(pendingReplies[e])'
    BY <2>3, <2>4, <2>5 DEF AwaitedBy, WaitsRight
  <2>7. ASSUME NEW n \in DOMAIN calls, calls[n].caller = e PROVE KnownOf(n)'
    <3>1. KnownOf(n)
      BY <2>3, <2>7 DEF AwaitedBy
    <3>2. ~Lost(n)'
      BY <1>3, <1>5, <2>7 DEF Lost, GaveUp, Abandoned
    <3> QED
      BY <3>1, <3>2, DieKnown
  <2> QED
    BY <1>3, <2>6, <2>7 DEF AwaitedBy
<1>6. Awaited'
  BY <1>3, <1>5 DEF AnswerInv, Awaited
<1> QED
  BY <1>1, <1>2, <1>4, <1>6 DEF AnswerInv

-----------------------------------------------------------------------------
(* The invariant.                                                          *)

LEMMA IdleAnswers ==
  ASSUME UNCHANGED vars, AnswerInv
  PROVE  AnswerInv'
<1>1. /\ calls' = calls /\ rs' = rs /\ stack' = stack /\ toClient' = toClient
      /\ transaction' = transaction /\ transactionId' = transactionId /\ messages' = messages
      /\ pendingReplies' = pendingReplies /\ waits' = waits
      /\ transactionList' = transactionList /\ dead' = dead /\ abandoned' = abandoned
  BY DEF vars, asked, current, posted, deaths
<1>2. \A c \in Client : /\ Wire(c)' = Wire(c) /\ Handled(c)' = Handled(c)
                        /\ Opened(c)' = Opened(c)
  BY <1>1 DEF Wire, Handled, Opened
<1>3. WireInv' /\ PostedInv' /\ StackInv' /\ OwedInv' /\ WaitsInv' /\ DelayInv'
  BY <1>1 DEF AnswerInv, WireInv, PostedInv, StackInv, OwedInv, WaitsInv, DelayInv, DelayOf,
              MessagePlaced, Wire, Handled, Opened
<1>4. \A n, p : At(n, p)' <=> At(n, p)
  BY <1>1 DEF At, Wire, Handled
<1>5. \A n, id : /\ Told(n, id)' <=> Told(n, id)
                 /\ Late(n, id)' <=> Late(n, id)
                 /\ Owed(n, id)' <=> Owed(n, id)
                 /\ Promised(n, id)' <=> Promised(n, id)
  BY <1>1 DEF Told, Late, Owed, Promised, Wire
<1>6. Life'
  BY <1>1, <1>4, <1>5 DEF AnswerInv, Life, OwnLife, Lost
<1>7. \A n : KnownOf(n)' <=> KnownOf(n)
  BY <1>1, <1>4, <1>5 DEF KnownOf, Complete, Async, Opened
<1>8. Awaited'
  BY <1>1, <1>7 DEF AnswerInv, Awaited, AwaitedBy, WaitsRight, Complete, Async, Opened,
              GaveUp, TimedOut, Abandoned
<1> QED
  BY <1>3, <1>6, <1>8 DEF AnswerInv

LEMMA StepKeepsAnswers ==
  ~Nesting /\ ~CallsAndDelays /\ ~NestedDelays /\ TypeOK /\ Known /\ SenderInv /\ AnswerInv
    /\ [Next]_vars => AnswerInv'
<1> SUFFICES ASSUME ~Nesting, ~CallsAndDelays, ~NestedDelays, TypeOK, Known, SenderInv,
                    AnswerInv, [Next]_vars
             PROVE  AnswerInv'
  OBVIOUS
<1>1. TypeOK' /\ Known'
  BY StepTyped
<1>2. CASE UNCHANGED vars
  BY <1>2, IdleAnswers
<1>3. ASSUME NEW c \in Client \ dead, NEW d \in Client,
             send(c, d) \/ \E kind \in Kinds : call(c, d, kind)
      PROVE  AnswerInv'
  BY <1>1, <1>3, SendAnswers, CallAnswers
<1>4. ASSUME NEW c \in Client \ dead,
             Read(c) \/ Return(c) \/ TimeOut(c) \/ processPostedMessages(c) \/ ProcessPosted(c)
      PROVE  AnswerInv'
  BY <1>1, <1>4, ReadAnswers, ReturnAnswers, TimeOutAnswers, TimerAnswers, ProcessPostedAnswers
<1>5. ASSUME NEW c \in Client \ dead, beginTransaction(c) \/ HandlerReturns(c) PROVE AnswerInv'
  BY <1>1, <1>5, BeginAnswers, HandlerReturnsAnswers
<1>6. ASSUME NEW c \in Client \ dead, NEW t \in transactionList[c], endTransaction(c, t)
      PROVE  AnswerInv'
  BY <1>1, <1>6, EndAnswers
<1>7. ASSUME NEW c \in Client \ dead, Die(c) PROVE AnswerInv'
  BY <1>1, <1>7, DieAnswers
<1> QED
  BY <1>2, <1>3, <1>4, <1>5, <1>6, <1>7, Zenon DEF Next

LEMMA InitAnswers == Init => AnswerInv
<1> SUFFICES ASSUME Init PROVE AnswerInv
  OBVIOUS
<1>1. /\ calls = << >> /\ rs = [n \in CallNo |-> NoReply]
      /\ \A c \in Client : /\ stack[c] = << >> /\ toClient[c] = << >> /\ messages[c] = << >>
                           /\ pendingReplies[c] = << >> /\ waits[c] = << >>
                           /\ transactionList[c] = {}
  BY DEF Init
<1>2. DOMAIN << >> = {} /\ ToSet(<< >>) = {} /\ Once(<< >>) /\ WaitFirst(<< >>)
  BY EmptySeq DEF ToSet, Once, WaitFirst
<1>3. \A c \in Client : Wire(c) = {} /\ Handled(c) = {} /\ Opened(c) = {}
  BY <1>1, <1>2 DEF Wire, Handled, Opened, Numbers
<1>4. WireInv /\ PostedInv /\ OwedInv /\ WaitsInv
  BY <1>1, <1>2, <1>3 DEF WireInv, PostedInv, OwedInv, WaitsInv
<1>5. StackInv /\ DelayInv
  BY <1>1, <1>2, <1>3 DEF StackInv, OnceAt, AloneAt, DelayInv, DelayOf
<1>6. Life
  BY <1>1, <1>2 DEF Life
<1>7. Awaited
  <2>1. \A c \in Client : AwaitedBy(c)
    BY <1>1, <1>2 DEF AwaitedBy, WaitsRight
  <2> QED
    BY <1>1, <2>1 DEF Awaited
<1> QED
  BY <1>4, <1>5, <1>6, <1>7 DEF AnswerInv

LEMMA InvMatches ==
  ASSUME TypeOK, AnswerInv
  PROVE  AnswersMatch
<1> SUFFICES ASSUME NEW n \in DOMAIN calls, rs[n].of # 0, ~GaveUp(calls[n].caller)
             PROVE  rs[n].of = n
  BY DEF AnswersMatch
<1>1. KnownOf(n)
  BY Parties DEF AnswerInv, Awaited, AwaitedBy
<1> QED
  BY <1>1 DEF KnownOf

LEMMA InvPoints ==
  ASSUME TypeOK, AnswerInv
  PROVE  NoDanglingReply
<1> SUFFICES ASSUME NEW c \in Client, ~GaveUp(c),
                    NEW n \in ToSet(waits[c]) \union ToSet(pendingReplies[c])
             PROVE  calls[n].caller = c /\ (Async(n) \/ \E i \in CallsOpen(c) : stack[c][i].n = n)
  BY DEF NoDanglingReply
<1>1. n \in DOMAIN calls /\ calls[n].caller = c /\ calls[n].kind # "send"
  BY DEF AnswerInv, WaitsInv
<1>2. WaitsRight(c) /\ KnownOf(n)
  BY <1>1 DEF AnswerInv, Awaited, AwaitedBy
<1>3. n \in Opened(c) \/ Async(n)
  <2>1. CASE n \in ToSet(waits[c])
    <3>1. waits[c] # << >>
      BY <2>1, Single
    <3>2. PICK k \in Opened(c) : waits[c] = <<k>>
      BY <1>2, <3>1 DEF WaitsRight
    <3> QED
      BY <2>1, <3>2, Single
  <2>2. CASE n \in ToSet(pendingReplies[c])
    <3>1. rs[n].tid # 0
      BY <1>1, <1>2, <2>2 DEF KnownOf
    <3>2. ~Complete(n) \/ Async(n)
      BY <3>1 DEF Complete
    <3> QED
      BY <1>1, <1>2, <3>2 DEF KnownOf
  <2> QED
    BY <2>1, <2>2
<1>4. n \in Opened(c) => \E i \in CallsOpen(c) : stack[c][i].n = n
  BY InNumbers DEF Opened, CallsOpen
<1> QED
  BY <1>1, <1>3, <1>4

LEMMA InvAwaits ==
  ASSUME TypeOK, Known, AnswerInv
  PROVE  AnswersAreAwaited
<1> SUFFICES ASSUME NEW c \in Client, MayRead(c), ~GaveUp(c), NEW m, m = Head(toClient[c])
             PROVE  /\ m.op \in {"DCOPReply", "DCOPReplyFailed", "DCOPReplyWait"} =>
                         ReplyWaitFor(c) # 0
                    /\ m.op = "DCOPReplyDelayed" => PendingFor(c, m) # {}
  BY DEF AnswersAreAwaited
<1>1. WireInv /\ StackInv /\ Life /\ Awaited
  BY DEF AnswerInv
<1>2. PICK n : n = m.n
  OBVIOUS
<1>3. /\ m \in Wire(c) /\ m \in Message /\ MessagePlaced(c, m) /\ n \in DOMAIN calls
      /\ m.op = "DCOPReplyDelayed" => \A x \in Wire(c) : ~(x.op = "DCOPReplyWait" /\ x.n = n)
  <2>1. toClient[c] \in Seq(Message) /\ toClient[c] # << >>
        /\ Once(toClient[c]) /\ WaitFirst(toClient[c])
    BY <1>1 DEF TypeOK, MayRead, WireInv
  <2>2. m \in Wire(c) /\ m \in Message
    BY <2>1, Tailed DEF Wire
  <2>3. m.op = "DCOPReplyDelayed" => \A x \in Wire(c) : ~(x.op = "DCOPReplyWait" /\ x.n = n)
    BY <1>2, <2>1, WaitFirstTailed DEF Wire
  <2> QED
    BY <1>1, <1>2, <2>2, <2>3, Elements DEF WireInv
<1>4. ASSUME m.op \in {"DCOPReply", "DCOPReplyFailed", "DCOPReplyWait", "DCOPReplyDelayed"}
      PROVE  Made(c, n) /\ m.from = calls[n].callee
  BY <1>2, <1>3, <1>4 DEF MessagePlaced, Requests, Made
<1>5. ASSUME NEW p \in {"replied", "failed", "told"}, At(n, p), Made(c, n) PROVE ReplyWaitFor(c) # 0
  <2>1. p \in Places /\ n \in CallNo
    BY <1>3, Parties DEF Places
  <2>2. ReplyWaitFor(c) = n
    BY <1>1, <1>5, <2>1, OpenAnswered
  <2> QED
    BY <2>1, <2>2 DEF CallNo
<1>6. ASSUME m.op \in {"DCOPReply", "DCOPReplyFailed", "DCOPReplyWait"}
      PROVE  ReplyWaitFor(c) # 0
  <2>1. Made(c, n) /\ calls[n].caller = c
    BY <1>4, <1>6 DEF Made
  <2>2. At(n, "replied") \/ At(n, "failed") \/ At(n, "told")
    <3>1. n \notin abandoned
      BY <2>1, NotLost DEF Lost
    <3>2. m.op = "DCOPReplyFailed" => FailsIt(m)
      BY <1>2, <1>3, <3>1 DEF MessagePlaced, FailsIt
    <3> QED
      BY <1>2, <1>3, <1>6, <2>1, <3>2 DEF At
  <2> QED
    BY <1>5, <2>1, <2>2
<1>7. ASSUME m.op = "DCOPReplyDelayed" PROVE PendingFor(c, m) # {}
  <2>1. Made(c, n) /\ calls[n].caller = c /\ m.from = calls[n].callee
    BY <1>4, <1>7 DEF Made
  <2>2. PICK id \in Nat : id = m.tid
    BY <1>3 DEF Message
  <2>3. Late(n, id)
    BY <1>2, <1>3, <1>7, <2>1, <2>2 DEF Late
  <2>4. ~At(n, "told")
    BY <1>3, <1>7, <2>1 DEF At
  <2>5. \A i \in Nat : Told(n, i) => At(n, "told")
    BY Zenon DEF Told, At
  <2>6. /\ \A i \in DOMAIN pendingReplies[c] :
             i \in PendingFor(c, m) <=> pendingReplies[c][i] = n
        /\ n \in ToSet(pendingReplies[c])
    BY <1>2, <1>3, <2>1, <2>2, <2>3, <2>4, <2>5, PendingFound
  <2> QED
    BY <2>6, InToSet
<1> QED
  BY <1>6, <1>7

LEMMA InvKeeps ==
  ASSUME TypeOK, Known, AnswerInv
  PROVE  PromisesAreKept
<1>1. ASSUME NEW n \in DOMAIN calls, ~GaveUp(calls[n].caller), NEW id,
             \/ \E m \in Wire(calls[n].caller) : m.n = n /\ m.op = "DCOPReplyWait" /\ m.tid = id
             \/ id = rs[n].tid /\ id \notin {0, -1}
      PROVE  Promised(n, id)
  <2>1. calls[n].caller \in Client
    BY Parties
  <2>2. KnownOf(n) /\ OwnLife(n)
    BY <1>1, <2>1 DEF AnswerInv, Awaited, AwaitedBy, Life
  <2>3. CASE id = rs[n].tid /\ id \notin {0, -1}
    <3>1. id \in Nat \ {0}
      BY <2>2, <2>3 DEF KnownOf
    <3> QED
      BY <2>2, <2>3, <3>1 DEF KnownOf
  <2>4. ASSUME NEW m \in Wire(calls[n].caller), m.n = n, m.op = "DCOPReplyWait", m.tid = id
        PROVE  Promised(n, id)
    <3>1. id \in Nat
      BY <2>1, <2>4, Elements DEF Message
    <3>2. Told(n, id)
      BY <2>4 DEF Told
    <3>3. ~Lost(n)
      BY <1>1 DEF Lost, GaveUp, Abandoned
    <3> QED
      BY <2>2, <3>1, <3>2, <3>3, Zenon DEF OwnLife
  <2> QED
    BY <1>1, <2>3, <2>4
<1>2. ASSUME NEW n \in DOMAIN calls, NEW id, Promised(n, id)
      PROVE  \/ \E t \in transactionList[calls[n].callee] : t.n = n /\ t.id = id
             \/ \E m \in Wire(calls[n].caller) : m.n = n /\ m.tid = id /\ m.op = "DCOPReplyDelayed"
  BY <1>2 DEF Promised, Owed, Late
<1> QED
  BY <1>1, <1>2 DEF PromisesAreKept, Wire

\* The invariant holds when clients do not call while a call of theirs is open, and
\* handlers that delay their answer neither call nor run inside one another.
LEMMA AnswersInvariant ==
  ASSUME ~Nesting, ~CallsAndDelays, ~NestedDelays
  PROVE  Spec => [](TypeOK /\ Known /\ AnswerInv)
<1>1. Init => TypeOK /\ Known /\ MessagesFit /\ SenderInv /\ AnswerInv
  <2>1. Init => SenderInv
    BY EmptySeq DEF Init, SenderInv, HandlersBusy, SenderKnown, In
  <2> QED
    BY <2>1, InitTyped, InitFits, InitAnswers
<1>2. (TypeOK /\ Known /\ MessagesFit /\ SenderInv /\ AnswerInv) /\ [Next]_vars =>
        (TypeOK /\ Known /\ MessagesFit /\ SenderInv /\ AnswerInv)'
  BY StepTyped, StepKeepsFits, StepKeepsSenders, StepKeepsAnswers
<1> QED
  BY <1>1, <1>2, PTL DEF Spec

\* The answer written to the ReplyStruct of a call is the answer to that call, or the
\* failure that the server sends for it, however many clients call each other in
\* circles, synchronously or not, delay their answers and die: the first of
\* IceProcessMessages()'s saved reply waits is the one meant, and no two pending
\* replies have one number of one client.  This is so until a call of the caller times
\* out or is failed by a callee that had promised to answer later.
THEOREM ClientAnswersMatch ==
  ~Nesting /\ ~CallsAndDelays /\ ~NestedDelays => (Spec => []AnswersMatch)
<1> SUFFICES ASSUME ~Nesting, ~CallsAndDelays, ~NestedDelays PROVE Spec => []AnswersMatch
  OBVIOUS
<1>1. Spec => [](TypeOK /\ Known /\ AnswerInv)
  BY AnswersInvariant
<1>2. TypeOK /\ Known /\ AnswerInv => AnswersMatch
  BY InvMatches
<1> QED
  BY <1>1, <1>2, PTL

\* What a saved reply wait or the list pendingReplies points to is a ReplyStruct that
\* is still there: of an asynchronous call, or on the stack of an open one.  The death
\* of a callee that promised nothing does not change that; the failure of a promise
\* does, and so does a timeout.
THEOREM ClientNoDanglingReply ==
  ~Nesting /\ ~CallsAndDelays /\ ~NestedDelays => (Spec => []NoDanglingReply)
<1> SUFFICES ASSUME ~Nesting, ~CallsAndDelays, ~NestedDelays PROVE Spec => []NoDanglingReply
  OBVIOUS
<1>1. Spec => [](TypeOK /\ Known /\ AnswerInv)
  BY AnswersInvariant
<1>2. TypeOK /\ Known /\ AnswerInv => NoDanglingReply
  BY InvPoints
<1> QED
  BY <1>1, <1>2, PTL

\* DCOPProcessMessage() never reads an answer, or the failure of a call, that nobody
\* waits for, until the client gives up.
THEOREM ClientAnswersAwaited ==
  ~Nesting /\ ~CallsAndDelays /\ ~NestedDelays => (Spec => []AnswersAreAwaited)
<1> SUFFICES ASSUME ~Nesting, ~CallsAndDelays, ~NestedDelays PROVE Spec => []AnswersAreAwaited
  OBVIOUS
<1>1. Spec => [](TypeOK /\ Known /\ AnswerInv)
  BY AnswersInvariant
<1>2. TypeOK /\ Known /\ AnswerInv => AnswersAreAwaited
  BY InvAwaits
<1> QED
  BY <1>1, <1>2, PTL

\* A caller that is told the number of a transaction gets an answer with that number:
\* the transaction is kept until it is ended, and then the answer is on its way.
THEOREM ClientPromisesKept ==
  ~Nesting /\ ~CallsAndDelays /\ ~NestedDelays => (Spec => []PromisesAreKept)
<1> SUFFICES ASSUME ~Nesting, ~CallsAndDelays, ~NestedDelays PROVE Spec => []PromisesAreKept
  OBVIOUS
<1>1. Spec => [](TypeOK /\ Known /\ AnswerInv)
  BY AnswersInvariant
<1>2. TypeOK /\ Known /\ AnswerInv => PromisesAreKept
  BY InvKeeps
<1> QED
  BY <1>1, <1>2, PTL

-----------------------------------------------------------------------------
(* Requests.  However the calls of a client are nested, a request is in one  *)
(* place, and so is its first answer: this needs none of the assumptions of  *)
(* the theorems above.                                                       *)

Answers == {"DCOPReply", "DCOPReplyWait"}

\* The opcode of a message; the failure of a call is an answer.
Says(m) == IF m.op = "DCOPReplyFailed" /\ m.tid = 0 THEN "DCOPReply" ELSE m.op

LEMMA WhatIsSaid ==
  ASSUME NEW m
  PROVE  /\ FirstAnswer(m) <=> Says(m) \in Answers
         /\ m.op \in Requests <=> Says(m) \in Requests
         /\ Says(m) \in Requests => Says(m) \notin Answers
         /\ m.op \notin {"DCOPReplyFailed"} => Says(m) = m.op
         /\ m.op = "DCOPReplyFailed" => Says(m) = IF m.tid = 0 THEN "DCOPReply" ELSE m.op
BY DEF FirstAnswer, Says, Answers, Requests

\* The numbers of the messages of s with those opcodes; each has one message.
NumbersIn(s, ops) == {s[i].n : i \in {j \in DOMAIN s : Says(s[j]) \in ops}}
OnceIn(s, ops) ==
  \A i, j \in DOMAIN s : Says(s[i]) \in ops /\ Says(s[j]) \in ops /\ s[i].n = s[j].n => i = j

LEMMA InNumbersIn ==
  ASSUME NEW s, NEW ops, NEW D, DOMAIN s = D, NEW x
  PROVE  x \in NumbersIn(s, ops) <=> \E i \in D : Says(s[i]) \in ops /\ s[i].n = x
BY DEF NumbersIn

LEMMA NumbersOf ==
  ASSUME NEW q, NEW ops
  PROVE  {m.n : m \in {x \in ToSet(q) : Says(x) \in ops}} = NumbersIn(q, ops)
BY DEF NumbersIn, ToSet

LEMMA InAppended ==
  ASSUME NEW S, NEW s \in Seq(S), NEW e \in S, NEW ops
  PROVE  /\ NumbersIn(Append(s, e), ops) =
              IF Says(e) \in ops THEN NumbersIn(s, ops) \union {e.n} ELSE NumbersIn(s, ops)
         /\ OnceIn(s, ops) /\ (Says(e) \in ops => e.n \notin NumbersIn(s, ops)) =>
              OnceIn(Append(s, e), ops)
<1> DEFINE a == Append(s, e)
           l == Len(s)
<1>1. /\ l \in Nat /\ DOMAIN a = 1 .. l + 1 /\ DOMAIN s = 1 .. l
      /\ \A i \in 1 .. l : a[i] = s[i]
      /\ a[l + 1] = e
  BY AppendToSeq
<1> HIDE DEF a, l
<1>2. \A i : i \in 1 .. l + 1 <=> i \in 1 .. l \/ i = l + 1
  BY <1>1
<1>3. ASSUME NEW x
      PROVE  x \in NumbersIn(a, ops) <=> x \in NumbersIn(s, ops) \/ (Says(e) \in ops /\ x = e.n)
  <2>1. x \in NumbersIn(a, ops) <=> \E i \in 1 .. l + 1 : Says(a[i]) \in ops /\ a[i].n = x
    BY <1>1, InNumbersIn
  <2>2. x \in NumbersIn(s, ops) <=> \E i \in 1 .. l : Says(s[i]) \in ops /\ s[i].n = x
    BY <1>1, InNumbersIn
  <2>3. x \in NumbersIn(s, ops) <=> \E i \in 1 .. l : Says(a[i]) \in ops /\ a[i].n = x
    BY <1>1, <2>2
  <2> QED
    BY <1>1, <1>2, <2>1, <2>3, Zenon
<1>4. NumbersIn(a, ops) =
        IF Says(e) \in ops THEN NumbersIn(s, ops) \union {e.n} ELSE NumbersIn(s, ops)
  BY <1>3
<1>5. ASSUME OnceIn(s, ops), Says(e) \in ops => e.n \notin NumbersIn(s, ops),
             NEW i \in DOMAIN a, NEW j \in DOMAIN a,
             Says(a[i]) \in ops, Says(a[j]) \in ops, a[i].n = a[j].n
      PROVE  i = j
  <2>1. Says(e) \in ops => \A k \in 1 .. l : Says(a[k]) \in ops => a[k].n # e.n
    BY <1>1, <1>5, InNumbersIn
  <2>2. CASE i \in 1 .. l /\ j \in 1 .. l
    <3>1. s[i] = a[i] /\ s[j] = a[j]
      BY <1>1, <2>2
    <3> QED
      BY <1>1, <1>5, <2>2, <3>1 DEF OnceIn
  <2> QED
    BY <1>1, <1>2, <1>5, <2>1, <2>2
<1> QED
  BY <1>4, <1>5, Zenon DEF OnceIn, a

LEMMA InTailed ==
  ASSUME NEW S, NEW s \in Seq(S), s # << >>, NEW m, m = Head(s), NEW ops, OnceIn(s, ops)
  PROVE  /\ NumbersIn(Tail(s), ops) =
              IF Says(m) \in ops THEN NumbersIn(s, ops) \ {m.n} ELSE NumbersIn(s, ops)
         /\ Says(m) \in ops => m.n \in NumbersIn(s, ops)
         /\ OnceIn(Tail(s), ops)
<1> DEFINE t == Tail(s)
           l == Len(s)
<1>1. /\ l \in Nat \ {0} /\ DOMAIN s = 1 .. l /\ DOMAIN t = 1 .. l - 1
      /\ m = s[1] /\ \A i \in 1 .. l - 1 : t[i] = s[i + 1]
  <2>1. t \in Seq(S) /\ Len(t) = l - 1 /\ \A i \in 1 .. l - 1 : t[i] = s[i + 1]
    BY HeadTailProperties
  <2> QED
    BY <2>1, HeadTailProperties, LenProperties, EmptySeq
<1> HIDE DEF t, l
<1>2. /\ 1 \in 1 .. l
      /\ \A i : i \in 1 .. l /\ i # 1 => i - 1 \in 1 .. l - 1 /\ (i - 1) + 1 = i
      /\ \A i \in 1 .. l - 1 : i + 1 \in 1 .. l /\ i + 1 # 1
      /\ \A i, j \in 1 .. l - 1 : i + 1 = j + 1 => i = j
  BY <1>1
<1>3. Says(m) \in ops => m.n \in NumbersIn(s, ops)
  BY <1>1, <1>2, InNumbersIn
<1>4. ASSUME NEW x \in NumbersIn(t, ops)
      PROVE  x \in NumbersIn(s, ops) /\ (Says(m) \in ops => x # m.n)
  <2>1. PICK i \in 1 .. l - 1 : Says(t[i]) \in ops /\ t[i].n = x
    BY <1>1, InNumbersIn
  <2>2. i + 1 \in 1 .. l /\ i + 1 # 1 /\ Says(s[i + 1]) \in ops /\ s[i + 1].n = x
    BY <1>1, <1>2, <2>1
  <2>3. x \in NumbersIn(s, ops)
    BY <1>1, <2>2, InNumbersIn
  <2>4. Says(m) \in ops => x # m.n
    BY <1>1, <1>2, <2>2 DEF OnceIn
  <2> QED
    BY <2>3, <2>4
<1>5. ASSUME NEW x \in NumbersIn(s, ops), ~(Says(m) \in ops /\ x = m.n) PROVE x \in NumbersIn(t, ops)
  <2>1. PICK i \in 1 .. l : Says(s[i]) \in ops /\ s[i].n = x
    BY <1>1, InNumbersIn
  <2>2. i # 1
    BY <1>1, <1>5, <2>1
  <2>3. i - 1 \in 1 .. l - 1 /\ (i - 1) + 1 = i
    BY <1>2, <2>2
  <2>4. Says(t[i - 1]) \in ops /\ t[i - 1].n = x
    BY <1>1, <2>1, <2>3
  <2> QED
    BY <1>1, <2>3, <2>4, InNumbersIn
<1>6. OnceIn(t, ops)
  <2> SUFFICES ASSUME NEW i \in 1 .. l - 1, NEW j \in 1 .. l - 1,
                      Says(t[i]) \in ops, Says(t[j]) \in ops, t[i].n = t[j].n
               PROVE  i = j
    BY <1>1 DEF OnceIn
  <2>1. /\ i + 1 \in 1 .. l /\ j + 1 \in 1 .. l
        /\ Says(s[i + 1]) \in ops /\ Says(s[j + 1]) \in ops /\ s[i + 1].n = s[j + 1].n
    BY <1>1, <1>2
  <2>2. i + 1 = j + 1
    BY <1>1, <2>1 DEF OnceIn
  <2> QED
    BY <1>2, <2>2
<1>7. NumbersIn(t, ops) =
        IF Says(m) \in ops THEN NumbersIn(s, ops) \ {m.n} ELSE NumbersIn(s, ops)
  BY <1>4, <1>5
<1> QED
  BY <1>3, <1>6, <1>7, Zenon DEF t

\* A queue has a request once, and it is not posted yet; a client handles it in one
\* frame.
QueuesInv ==
  \A c \in Client :
    /\ OnceIn(toClient[c], Requests) /\ OnceIn(toClient[c], Answers)
    /\ Once(messages[c]) /\ OnceAt(stack[c], "handler")
    /\ \A n \in ToSet(messages[c]) : n \notin NumbersIn(toClient[c], Requests)

\* A request is with its callee, sent or handled, or its answer is with its caller; a
\* dead client has none.
PlacesInv ==
  \A c \in Client :
    /\ c \in dead => RequestsSent[c] = {}
    /\ \A n \in RequestsSent[c] : calls[n].callee = c /\ n \notin RequestsHandled[c]
    /\ \A n \in RequestsHandled[c] : calls[n].callee = c
    /\ \A n \in RequestsAnswered[c] : calls[n].caller = c
    /\ \A n \in RequestsSent[c] \union RequestsHandled[c] : \A d \in Client :
         n \notin RequestsAnswered[d]

RequestInv == QueuesInv /\ PlacesInv

\* Functions on clients, and in what they may differ: c has n in addition, or no more, or
\* nothing changes.
OnClients(F) == F = [e \in Client |-> F[e]]
Adds(F, G, c, n) == \A e \in Client : G[e] = IF e = c THEN F[e] \union {n} ELSE F[e]
Drops(F, G, c, n) == \A e \in Client : G[e] = IF e = c THEN F[e] \ {n} ELSE F[e]
Keeps(F, G) == \A e \in Client : G[e] = F[e]

LEMMA Mapped ==
  /\ OnClients(RequestsSent) /\ OnClients(RequestsHandled) /\ OnClients(RequestsAnswered)
  /\ OnClients(RequestsSent') /\ OnClients(RequestsHandled') /\ OnClients(RequestsAnswered')
BY DEF OnClients, RequestsSent, RequestsHandled, RequestsAnswered

LEMMA Mapping ==
  ASSUME NEW c \in Client
  PROVE  /\ RequestsSent[c] = NumbersIn(toClient[c], Requests) \union ToSet(messages[c])
         /\ RequestsHandled[c] = Handled(c)
         /\ RequestsAnswered[c] = NumbersIn(toClient[c], Answers)
         /\ RequestsSent'[c] = NumbersIn(toClient'[c], Requests) \union ToSet(messages'[c])
         /\ RequestsHandled'[c] = Numbers(stack'[c], "handler")
         /\ RequestsAnswered'[c] = NumbersIn(toClient'[c], Answers)
<1>1. ASSUME NEW q, NEW ops
      PROVE  {m.n : m \in {x \in ToSet(q) : Says(x) \in ops}} = NumbersIn(q, ops)
  BY NumbersOf
<1>2. /\ RequestsSent[c] = NumbersIn(toClient[c], Requests) \union ToSet(messages[c])
      /\ RequestsSent'[c] = NumbersIn(toClient'[c], Requests) \union ToSet(messages'[c])
  <2>1. Requests = {"DCOPCall", "DCOPSend"}
    BY DEF Requests
  <2>2. ASSUME NEW q
        PROVE  {x \in ToSet(q) : x.op \in {"DCOPCall", "DCOPSend"}} =
                 {x \in ToSet(q) : Says(x) \in Requests}
    BY <2>1, WhatIsSaid
  <2>3. ASSUME NEW q
        PROVE  {m.n : m \in {x \in ToSet(q) : x.op \in {"DCOPCall", "DCOPSend"}}} =
                 NumbersIn(q, Requests)
    BY <1>1, <2>2, Zenon
  <2>4. /\ RequestsSent[c] = {m.n : m \in {x \in ToSet(toClient[c]) :
                                           x.op \in {"DCOPCall", "DCOPSend"}}}
                            \union ToSet(messages[c])
        /\ RequestsSent'[c] = {m.n : m \in {x \in ToSet(toClient'[c]) :
                                            x.op \in {"DCOPCall", "DCOPSend"}}}
                             \union ToSet(messages'[c])
    BY DEF RequestsSent, Queued
  <2> QED
    BY <2>3, <2>4, Zenon
<1>3. /\ RequestsAnswered[c] = NumbersIn(toClient[c], Answers)
      /\ RequestsAnswered'[c] = NumbersIn(toClient'[c], Answers)
  <2>1. ASSUME NEW q
        PROVE  {x \in ToSet(q) : FirstAnswer(x)} = {x \in ToSet(q) : Says(x) \in Answers}
    BY WhatIsSaid
  <2>2. ASSUME NEW q
        PROVE  {m.n : m \in {x \in ToSet(q) : FirstAnswer(x)}} = NumbersIn(q, Answers)
    BY <1>1, <2>1, Zenon
  <2>3. /\ RequestsAnswered[c] = {m.n : m \in {x \in ToSet(toClient[c]) : FirstAnswer(x)}}
        /\ RequestsAnswered'[c] = {m.n : m \in {x \in ToSet(toClient'[c]) : FirstAnswer(x)}}
    BY DEF RequestsAnswered, FirstAnswer
  <2> QED
    BY <2>2, <2>3, Zenon
<1>4. /\ RequestsHandled[c] = Handled(c)
      /\ RequestsHandled'[c] = Numbers(stack'[c], "handler")
  BY DEF RequestsHandled, HandledBy, Handled, Numbers
<1> QED
  BY <1>2, <1>3, <1>4

LEMMA NumbersAreCalls ==
  ASSUME TypeOK, Known, NEW c \in Client
  PROVE  /\ RequestsSent[c] \subseteq DOMAIN calls /\ RequestsHandled[c] \subseteq DOMAIN calls
         /\ RequestsAnswered[c] \subseteq DOMAIN calls
<1>1. /\ ToSet(messages[c]) \subseteq DOMAIN calls /\ Handled(c) \subseteq DOMAIN calls
  BY Elements
<1>2. ASSUME NEW ops, NEW n \in NumbersIn(toClient[c], ops) PROVE n \in DOMAIN calls
  BY <1>2 DEF NumbersIn, Known
<1> QED
  BY <1>1, <1>2, Mapping

-----------------------------------------------------------------------------
(* Steps of the service.                                                   *)

LEMMA ChangedFunction ==
  ASSUME NEW F, NEW G, OnClients(F), OnClients(G), NEW c \in Client, NEW n
  PROVE  /\ Adds(F, G, c, n) => G = [F EXCEPT ![c] = @ \union {n}]
         /\ Drops(F, G, c, n) => G = [F EXCEPT ![c] = @ \ {n}]
<1>0. F = [e \in Client |-> F[e]] /\ G = [e \in Client |-> G[e]]
  BY DEF OnClients
<1>1. ASSUME Adds(F, G, c, n) PROVE G = [F EXCEPT ![c] = @ \union {n}]
  <2>1. [F EXCEPT ![c] = @ \union {n}] =
          [e \in Client |-> IF e = c THEN F[e] \union {n} ELSE F[e]]
    BY <1>0
  <2>2. [e \in Client |-> G[e]] = [e \in Client |-> IF e = c THEN F[e] \union {n} ELSE F[e]]
    BY <1>1 DEF Adds
  <2> QED
    BY <1>0, <2>1, <2>2, Zenon
<1>2. ASSUME Drops(F, G, c, n) PROVE G = [F EXCEPT ![c] = @ \ {n}]
  <2>1. [F EXCEPT ![c] = @ \ {n}] = [e \in Client |-> IF e = c THEN F[e] \ {n} ELSE F[e]]
    BY <1>0
  <2>2. [e \in Client |-> G[e]] = [e \in Client |-> IF e = c THEN F[e] \ {n} ELSE F[e]]
    BY <1>2 DEF Drops
  <2> QED
    BY <1>0, <2>1, <2>2, Zenon
<1> QED
  BY <1>1, <1>2

LEMMA KeptFunction ==
  ASSUME NEW F, NEW G, OnClients(F), OnClients(G), Keeps(F, G)
  PROVE  G = F
<1>1. [e \in Client |-> G[e]] = [e \in Client |-> F[e]]
  BY DEF Keeps
<1> QED
  BY <1>1, Zenon DEF OnClients

LEMMA AskMade ==
  ASSUME TypeOK, NEW info \in CallInfo, calls' = Append(calls, info)
  PROVE  /\ Len(RequestsMade) = Len(calls)
         /\ RequestsMade' = Append(RequestsMade, [from |-> info.caller, to |-> info.callee,
                                                  answer |-> info.kind # "send"])
<1> DEFINE made(i) == [from |-> i.caller, to |-> i.callee, answer |-> i.kind # "send"]
           l == Len(calls)
           R == Service!Request
<1>1. /\ l \in Nat /\ DOMAIN calls = 1 .. l /\ DOMAIN calls' = 1 .. l + 1
      /\ calls'[l + 1] = info /\ \A k \in 1 .. l : calls'[k] = calls[k]
      /\ \A k \in 1 .. l : calls[k] \in CallInfo
  <2>1. calls \in Seq(CallInfo)
    BY DEF TypeOK
  <2> QED
    BY <2>1, AppendToSeq, LenProperties
<1> HIDE DEF l
<1>2. ASSUME NEW i \in CallInfo PROVE made(i) \in R
  BY DEF CallInfo, Service!Request
<1>3. /\ RequestsMade = [k \in 1 .. l |-> made(calls[k])]
      /\ RequestsMade' = [k \in 1 .. l + 1 |-> made(calls'[k])]
  BY <1>1 DEF RequestsMade
<1>4. RequestsMade \in Seq(R) /\ RequestsMade' \in Seq(R)
  <2>1. RequestsMade \in [1 .. l -> R]
    BY <1>1, <1>2, <1>3
  <2>2. \A k \in 1 .. l + 1 : k \in 1 .. l \/ k = l + 1
    BY <1>1
  <2>3. RequestsMade' \in [1 .. l + 1 -> R]
    BY <1>1, <1>2, <1>3, <2>2
  <2>4. l + 1 \in Nat
    BY <1>1
  <2> QED
    BY <1>1, <2>1, <2>3, <2>4, SeqDef
<1>5. /\ Len(RequestsMade) = l /\ Len(RequestsMade') = l + 1
  <2>1. /\ DOMAIN RequestsMade = 1 .. Len(RequestsMade) /\ Len(RequestsMade) \in Nat
        /\ DOMAIN RequestsMade' = 1 .. Len(RequestsMade') /\ Len(RequestsMade') \in Nat
    BY <1>4, LenProperties
  <2>2. DOMAIN RequestsMade = 1 .. l /\ DOMAIN RequestsMade' = 1 .. l + 1
    BY <1>3
  <2> HIDE DEF R, made
  <2>3. \A i, j \in Nat : 1 .. i = 1 .. j => i = j
    OBVIOUS
  <2>4. l + 1 \in Nat
    BY <1>1
  <2>5. 1 .. Len(RequestsMade) = 1 .. l /\ 1 .. Len(RequestsMade') = 1 .. l + 1
    BY <2>1, <2>2, Zenon
  <2> QED
    BY <1>1, <2>1, <2>3, <2>4, <2>5, Zenon
<1>6. made(info) \in R
  BY <1>2
<1>7. /\ Append(RequestsMade, made(info)) \in Seq(R)
      /\ Len(Append(RequestsMade, made(info))) = l + 1
      /\ \A k \in 1 .. l : Append(RequestsMade, made(info))[k] = RequestsMade[k]
      /\ Append(RequestsMade, made(info))[l + 1] = made(info)
  BY <1>4, <1>5, <1>6, AppendToSeq
<1>8. ASSUME NEW k \in 1 .. l + 1
      PROVE  RequestsMade'[k] = Append(RequestsMade, made(info))[k]
  <2>1. CASE k \in 1 .. l
    BY <1>1, <1>3, <1>7, <2>1
  <2>2. CASE k = l + 1
    <3>1. RequestsMade'[l + 1] = made(calls'[l + 1])
      BY <1>3, <2>2
    <3> QED
      BY <1>1, <1>7, <2>2, <3>1
  <2>3. k \in 1 .. l \/ k = l + 1
    BY <1>1
  <2> QED
    BY <2>1, <2>2, <2>3, Zenon
<1>9. RequestsMade' = Append(RequestsMade, made(info))
  <2> HIDE DEF made, R
  <2> QED
    BY <1>4, <1>5, <1>7, <1>8, SeqEqual
<1> QED
  BY <1>5, <1>9 DEF l

LEMMA PlacesApart ==
  ASSUME PlacesInv, NEW c \in Client, NEW k
  PROVE  /\ k \in RequestsSent[c] => /\ calls[k].callee = c /\ k \notin RequestsHandled[c]
                                    /\ c \notin dead
                                    /\ \A d \in Client : k \notin RequestsAnswered[d]
         /\ k \in RequestsHandled[c] => /\ calls[k].callee = c
                                       /\ \A d \in Client : k \notin RequestsAnswered[d]
         /\ k \in RequestsAnswered[c] => calls[k].caller = c
<1>1. k \in RequestsSent[c] => calls[k].callee = c /\ k \notin RequestsHandled[c] /\ c \notin dead
  BY DEF PlacesInv
<1>2. k \in RequestsHandled[c] => calls[k].callee = c
  BY DEF PlacesInv
<1>3. k \in RequestsSent[c] \union RequestsHandled[c] =>
        \A d \in Client : k \notin RequestsAnswered[d]
  BY Zenon DEF PlacesInv
<1>4. k \in RequestsAnswered[c] => calls[k].caller = c
  BY DEF PlacesInv
<1> QED
  BY <1>1, <1>2, <1>3, <1>4

LEMMA AskStep ==
  ASSUME TypeOK, Known, PlacesInv, NEW info \in CallInfo, info.caller \notin dead,
         calls' = Append(calls, info), deaths' = deaths, NEW n, n = Len(calls) + 1,
         IF info.callee \in dead THEN Keeps(RequestsSent, RequestsSent')
           ELSE Adds(RequestsSent, RequestsSent', info.callee, n),
         Keeps(RequestsHandled, RequestsHandled'),
         IF info.callee \in dead /\ info.kind # "send"
           THEN Adds(RequestsAnswered, RequestsAnswered', info.caller, n)
           ELSE Keeps(RequestsAnswered, RequestsAnswered')
  PROVE  PlacesInv' /\ Service!Next
<1>1. /\ Len(calls) \in Nat /\ DOMAIN calls = 1 .. Len(calls) /\ calls'[n] = info
      /\ \A k \in DOMAIN calls : calls'[k] = calls[k]
  BY AppendToSeq DEF TypeOK
<1>2. n \notin DOMAIN calls
  BY <1>1
<1>3. info.callee \in Client /\ info.caller \in Client /\ dead' = dead
  BY DEF CallInfo, deaths
<1>4. PlacesInv'
  <2> SUFFICES ASSUME NEW c \in Client
               PROVE  /\ c \in dead' => RequestsSent'[c] = {}
                      /\ \A k \in RequestsSent'[c] : calls'[k].callee = c /\ k \notin RequestsHandled'[c]
                      /\ \A k \in RequestsHandled'[c] : calls'[k].callee = c
                      /\ \A k \in RequestsAnswered'[c] : calls'[k].caller = c
                      /\ \A k \in RequestsSent'[c] \union RequestsHandled'[c] : \A d \in Client :
                           k \notin RequestsAnswered'[d]
    BY Zenon DEF PlacesInv
  <2>1. \A d \in Client :
          /\ RequestsHandled'[d] = RequestsHandled[d]
          /\ \A k \in RequestsAnswered'[d] :
               k \in RequestsAnswered[d] \/ (k = n /\ d = info.caller /\ info.callee \in dead)
    <3> SUFFICES ASSUME NEW d \in Client
                 PROVE  /\ RequestsHandled'[d] = RequestsHandled[d]
                        /\ \A k \in RequestsAnswered'[d] :
                             \/ k \in RequestsAnswered[d]
                             \/ k = n /\ d = info.caller /\ info.callee \in dead
      OBVIOUS
    <3>1. RequestsHandled'[d] = RequestsHandled[d]
      BY DEF Keeps
    <3>2. CASE info.callee \in dead /\ info.kind # "send"
      <4>1. RequestsAnswered'[d] =
              IF d = info.caller THEN RequestsAnswered[d] \union {n} ELSE RequestsAnswered[d]
        BY <3>2, Zenon DEF Adds
      <4> QED
        BY <3>1, <3>2, <4>1
    <3>3. CASE ~(info.callee \in dead /\ info.kind # "send")
      <4>1. RequestsAnswered'[d] = RequestsAnswered[d]
        BY <3>3, Zenon DEF Keeps
      <4> QED
        BY <3>1, <4>1
    <3> QED
      BY <3>2, <3>3
  <2>2. \A k \in RequestsSent'[c] :
          k \in RequestsSent[c] \/ (k = n /\ c = info.callee /\ info.callee \notin dead)
    BY DEF Adds, Keeps
  <2>3. \A d \in Client : /\ RequestsSent[d] \subseteq DOMAIN calls
                          /\ RequestsHandled[d] \subseteq DOMAIN calls
                          /\ RequestsAnswered[d] \subseteq DOMAIN calls
    BY NumbersAreCalls
  <2>4. \A d \in Client : n \notin RequestsHandled[d] /\ n \notin RequestsAnswered[d]
    BY <1>2, <2>3
  <2>5. \A k \in RequestsSent'[c] : /\ calls'[k].callee = c /\ k \notin RequestsHandled'[c]
                                   /\ c \notin dead'
    BY <1>1, <1>3, <2>1, <2>2, <2>3, <2>4, PlacesApart
  <2>6. /\ \A k \in RequestsHandled'[c] : calls'[k].callee = c
        /\ \A k \in RequestsAnswered'[c] : calls'[k].caller = c
    BY <1>1, <2>1, <2>3, PlacesApart
  <2>7. ASSUME NEW k \in RequestsSent'[c] \union RequestsHandled'[c], NEW d \in Client
        PROVE  k \notin RequestsAnswered'[d]
    <3>1. CASE k = n
      <4>1. k \notin RequestsHandled'[c]
        BY <2>1, <2>4, <3>1
      <4>2. k \notin RequestsSent[c]
        BY <1>2, <2>3, <3>1
      <4>3. info.callee \notin dead
        BY <2>2, <4>1, <4>2
      <4>4. k \notin RequestsAnswered[d]
        BY <2>4, <3>1
      <4> QED
        BY <2>1, <4>3, <4>4
    <3>2. CASE k # n
      <4>1. k \in RequestsSent[c] \/ k \in RequestsHandled[c]
        BY <2>1, <2>2, <3>2
      <4>2. k \notin RequestsAnswered[d]
        BY <4>1, PlacesApart
      <4> QED
        BY <2>1, <3>2, <4>2
    <3> QED
      BY <3>1, <3>2
  <2> QED
    BY <2>5, <2>6, <2>7
<1>5. Service!Next
  <2> DEFINE r == [from |-> info.caller, to |-> info.callee, answer |-> info.kind # "send"]
  <2>1. /\ r \in Service!Request /\ r.to = info.callee /\ r.from = info.caller
        /\ r.answer <=> info.kind # "send"
    BY DEF CallInfo, Service!Request
  <2>2. Len(RequestsMade) + 1 = n /\ RequestsMade' = Append(RequestsMade, r)
    BY AskMade
  <2>3. /\ RequestsSent' = IF info.callee \in dead THEN RequestsSent
                           ELSE [RequestsSent EXCEPT ![info.callee] = @ \union {n}]
        /\ RequestsHandled' = RequestsHandled
        /\ RequestsAnswered' = IF info.callee \in dead /\ info.kind # "send"
             THEN [RequestsAnswered EXCEPT ![info.caller] = @ \union {n}] ELSE RequestsAnswered
    BY <1>3, Mapped, ChangedFunction, KeptFunction
  <2> HIDE DEF r
  <2>4. Service!Ask(r)
    BY <1>3, <2>1, <2>2, <2>3 DEF Service!Ask, Service!Given
  <2> QED
    BY <2>1, <2>4 DEF Service!Next
<1> QED
  BY <1>4, <1>5

LEMMA BeginStep ==
  ASSUME PlacesInv, calls' = calls, deaths' = deaths, NEW c \in Client, NEW n \in RequestsSent[c],
         Drops(RequestsSent, RequestsSent', c, n), Adds(RequestsHandled, RequestsHandled', c, n),
         Keeps(RequestsAnswered, RequestsAnswered')
  PROVE  PlacesInv' /\ Service!Next
<1>1. PlacesInv'
  <2>1. ASSUME NEW d \in Client
        PROVE  /\ RequestsSent'[d] = IF d = c THEN RequestsSent[d] \ {n} ELSE RequestsSent[d]
               /\ RequestsHandled'[d] =
                    IF d = c THEN RequestsHandled[d] \union {n} ELSE RequestsHandled[d]
               /\ RequestsAnswered'[d] = RequestsAnswered[d]
    BY DEF Drops, Adds, Keeps
  <2> SUFFICES ASSUME NEW d \in Client
               PROVE  /\ d \in dead' => RequestsSent'[d] = {}
                      /\ \A k \in RequestsSent'[d] : calls'[k].callee = d /\ k \notin RequestsHandled'[d]
                      /\ \A k \in RequestsHandled'[d] : calls'[k].callee = d
                      /\ \A k \in RequestsAnswered'[d] : calls'[k].caller = d
                      /\ \A k \in RequestsSent'[d] \union RequestsHandled'[d] : \A e \in Client :
                           k \notin RequestsAnswered'[e]
    BY Zenon DEF PlacesInv
  <2>2. \A k \in RequestsSent'[d] : /\ calls'[k].callee = d /\ k \notin RequestsHandled'[d]
                                   /\ d \notin dead'
    BY <2>1, PlacesApart DEF deaths
  <2>3. \A k \in RequestsHandled'[d] : calls'[k].callee = d
    <3>1. \A k \in RequestsHandled'[d] : k \in RequestsHandled[d] \/ (k = n /\ d = c)
      BY <2>1
    <3>2. calls[n].callee = c
      BY PlacesApart
    <3> QED
      BY <3>1, <3>2, PlacesApart
  <2>4. \A k \in RequestsAnswered'[d] : calls'[k].caller = d
    BY <2>1, PlacesApart
  <2>5. \A k \in RequestsSent'[d] \union RequestsHandled'[d] :
          k \in RequestsSent[d] \union RequestsHandled[d]
    BY <2>1
  <2>6. \A k \in RequestsSent'[d] \union RequestsHandled'[d] : \A e \in Client :
          k \notin RequestsAnswered'[e]
    BY <2>1, <2>5, PlacesApart
  <2> QED
    BY <2>2, <2>3, <2>4, <2>6
<1>2. Service!Next
  <2>1. /\ RequestsSent' = [RequestsSent EXCEPT ![c] = @ \ {n}]
        /\ RequestsHandled' = [RequestsHandled EXCEPT ![c] = @ \union {n}]
        /\ RequestsAnswered' = RequestsAnswered
    BY Mapped, ChangedFunction, KeptFunction
  <2>2. RequestsMade' = RequestsMade
    BY DEF RequestsMade
  <2>3. Service!Begin(c, n)
    BY <2>1, <2>2 DEF Service!Begin, deaths
  <2> QED
    BY <2>3 DEF Service!Next
<1> QED
  BY <1>1, <1>2

LEMMA ReturnStep ==
  ASSUME PlacesInv, TypeOK, Known, calls' = calls, deaths' = deaths, NEW c \in Client, NEW n \in RequestsHandled[c],
         Keeps(RequestsSent, RequestsSent'), Drops(RequestsHandled, RequestsHandled', c, n),
         IF calls[n].kind # "send" /\ calls[n].caller \notin dead
           THEN Adds(RequestsAnswered, RequestsAnswered', calls[n].caller, n)
           ELSE Keeps(RequestsAnswered, RequestsAnswered')
  PROVE  PlacesInv' /\ Service!Next
<1>1. PlacesInv'
  <2>1. ASSUME NEW d \in Client
        PROVE  /\ RequestsSent'[d] = RequestsSent[d]
               /\ RequestsHandled'[d] =
                    IF d = c THEN RequestsHandled[d] \ {n} ELSE RequestsHandled[d]
               /\ \A k \in RequestsAnswered'[d] :
                    k \in RequestsAnswered[d] \/ (k = n /\ calls[n].caller = d)
    BY DEF Drops, Adds, Keeps
  <2> SUFFICES ASSUME NEW d \in Client
               PROVE  /\ d \in dead' => RequestsSent'[d] = {}
                      /\ \A k \in RequestsSent'[d] : calls'[k].callee = d /\ k \notin RequestsHandled'[d]
                      /\ \A k \in RequestsHandled'[d] : calls'[k].callee = d
                      /\ \A k \in RequestsAnswered'[d] : calls'[k].caller = d
                      /\ \A k \in RequestsSent'[d] \union RequestsHandled'[d] : \A e \in Client :
                           k \notin RequestsAnswered'[e]
    BY Zenon DEF PlacesInv
  <2>0. /\ RequestsSent'[d] = RequestsSent[d]
        /\ \A k \in RequestsHandled'[d] : k \in RequestsHandled[d] /\ ~(d = c /\ k = n)
    <3>1. RequestsSent'[d] = RequestsSent[d]
      BY <2>1
    <3>2. RequestsHandled'[d] =
            IF d = c THEN RequestsHandled[d] \ {n} ELSE RequestsHandled[d]
      BY <2>1, Zenon
    <3>3. \A k \in RequestsHandled'[d] : k \in RequestsHandled[d] /\ ~(d = c /\ k = n)
      BY <3>2
    <3> QED
      BY <3>1, <3>3
  <2>2. \A k \in RequestsSent'[d] : /\ calls'[k].callee = d /\ k \notin RequestsHandled'[d]
                                   /\ d \notin dead'
    BY <2>0, PlacesApart DEF deaths
  <2>3. \A k \in RequestsHandled'[d] : calls'[k].callee = d
    BY <2>0, PlacesApart
  <2>4. \A k \in RequestsAnswered'[d] : calls'[k].caller = d
    <3>1. \A k \in RequestsAnswered[d] : calls[k].caller = d
      BY PlacesApart
    <3>2. \A k \in RequestsAnswered'[d] : k \in RequestsAnswered[d] \/ (k = n /\ calls[n].caller = d)
      BY <2>1, Zenon
    <3> QED
      BY <3>1, <3>2, Zenon
  <2>5. \A k \in RequestsSent'[d] \union RequestsHandled'[d] :
          k \in RequestsSent[d] \union RequestsHandled[d]
    BY <2>1
  <2>6. calls[n].callee = c /\ n \notin RequestsSent[c]
    BY PlacesApart
  <2>7. \A k \in RequestsSent'[d] \union RequestsHandled'[d] : k # n
    BY <2>0, <2>6, PlacesApart
  <2>8. \A k \in RequestsSent'[d] \union RequestsHandled'[d] : \A e \in Client :
          k \notin RequestsAnswered'[e]
    <3> SUFFICES ASSUME NEW k \in RequestsSent'[d] \union RequestsHandled'[d], NEW e \in Client
                 PROVE  k \notin RequestsAnswered'[e]
      OBVIOUS
    <3>1. k \notin RequestsAnswered[e]
      BY <2>5, PlacesApart
    <3>2. k # n
      BY <2>7
    <3> QED
      BY <2>1, <3>1, <3>2
  <2> QED
    BY <2>2, <2>3, <2>4, <2>8
<1>2. Service!Next
  <2>1. n \in DOMAIN calls /\ calls[n].caller \in Client
    BY NumbersAreCalls, Parties
  <2>2. /\ RequestsHandled' = [RequestsHandled EXCEPT ![c] = @ \ {n}]
        /\ RequestsSent' = RequestsSent
    BY Mapped, ChangedFunction, KeptFunction
  <2>3. RequestsAnswered' = IF calls[n].kind # "send" /\ calls[n].caller \notin dead
          THEN [RequestsAnswered EXCEPT ![calls[n].caller] = @ \union {n}] ELSE RequestsAnswered
    BY <2>1, Mapped, ChangedFunction, KeptFunction
  <2>4. /\ RequestsMade' = RequestsMade /\ RequestsMade[n].from = calls[n].caller
        /\ RequestsMade[n].answer = (calls[n].kind # "send")
    BY <2>1 DEF RequestsMade
  <2>5. Service!Return(c, n)
    BY <2>2, <2>3, <2>4 DEF Service!Return, Service!Given, deaths
  <2> QED
    BY <2>5 DEF Service!Next
<1> QED
  BY <1>1, <1>2

LEMMA LearnStep ==
  ASSUME PlacesInv, calls' = calls, deaths' = deaths, NEW c \in Client, NEW n \in RequestsAnswered[c],
         Keeps(RequestsSent, RequestsSent'), Keeps(RequestsHandled, RequestsHandled'),
         Drops(RequestsAnswered, RequestsAnswered', c, n)
  PROVE  PlacesInv' /\ Service!Next
<1>1. PlacesInv'
  <2>1. \A d \in Client : /\ RequestsSent'[d] = RequestsSent[d]
                          /\ RequestsHandled'[d] = RequestsHandled[d]
                          /\ RequestsAnswered'[d] \subseteq RequestsAnswered[d]
    BY DEF Drops, Keeps
  <2> QED
    BY <2>1 DEF PlacesInv, deaths
<1>2. Service!Next
  <2>1. /\ RequestsAnswered' = [RequestsAnswered EXCEPT ![c] = @ \ {n}]
        /\ RequestsHandled' = RequestsHandled /\ RequestsSent' = RequestsSent
    BY Mapped, ChangedFunction, KeptFunction
  <2>2. RequestsMade' = RequestsMade
    BY DEF RequestsMade
  <2>3. Service!Learn(c, n)
    BY <2>1, <2>2 DEF Service!Learn, deaths
  <2> QED
    BY <2>3 DEF Service!Next
<1> QED
  BY <1>1, <1>2

LEMMA QuietStep ==
  ASSUME PlacesInv, calls' = calls, deaths' = deaths, Keeps(RequestsSent, RequestsSent'),
         Keeps(RequestsHandled, RequestsHandled'), Keeps(RequestsAnswered, RequestsAnswered')
  PROVE  PlacesInv' /\ UNCHANGED Service!vars
<1>1. PlacesInv'
  <2>1. \A d \in Client : /\ RequestsSent'[d] = RequestsSent[d]
                          /\ RequestsHandled'[d] = RequestsHandled[d]
                          /\ RequestsAnswered'[d] = RequestsAnswered[d]
    BY DEF Keeps
  <2> QED
    BY <2>1 DEF PlacesInv, deaths
<1>2. /\ RequestsAnswered' = RequestsAnswered
      /\ RequestsHandled' = RequestsHandled /\ RequestsSent' = RequestsSent
  BY Mapped, KeptFunction
<1>3. RequestsMade' = RequestsMade
  BY DEF RequestsMade
<1> QED
  BY <1>1, <1>2, <1>3 DEF Service!vars, deaths

\* The calls that c leaves unanswered are answered in its stead.
LEMMA DieStep ==
  ASSUME TypeOK, Known, PlacesInv, calls' = calls, NEW c \in Client, dead' = dead \union {c},
         \A e \in Client :
           /\ RequestsSent'[e] = IF e = c THEN {} ELSE RequestsSent[e]
           /\ RequestsHandled'[e] = IF e = c THEN {} ELSE RequestsHandled[e]
           /\ RequestsAnswered'[e] =
                IF e \in dead' THEN {} ELSE RequestsAnswered[e] \union Unanswered(c, e)
           /\ Unanswered(c, e) = {n \in RequestsSent[c] \union RequestsHandled[c] :
                                   calls[n].kind # "send" /\ calls[n].caller = e}
  PROVE  PlacesInv' /\ Service!Next
<1>1. PlacesInv'
  <2> SUFFICES ASSUME NEW d \in Client
               PROVE  /\ d \in dead' => RequestsSent'[d] = {}
                      /\ \A k \in RequestsSent'[d] : calls'[k].callee = d /\ k \notin RequestsHandled'[d]
                      /\ \A k \in RequestsHandled'[d] : calls'[k].callee = d
                      /\ \A k \in RequestsAnswered'[d] : calls'[k].caller = d
                      /\ \A k \in RequestsSent'[d] \union RequestsHandled'[d] : \A e \in Client :
                           k \notin RequestsAnswered'[e]
    BY Zenon DEF PlacesInv
  <2>1. \A k \in RequestsSent'[d] : k \in RequestsSent[d] /\ d # c
    OBVIOUS
  <2>2. \A k \in RequestsHandled'[d] : k \in RequestsHandled[d] /\ d # c
    OBVIOUS
  <2>3. \A k \in RequestsSent'[d] : /\ calls'[k].callee = d /\ k \notin RequestsHandled'[d]
                                   /\ d \notin dead'
    BY <2>1, <2>2, PlacesApart
  <2>4. \A k \in RequestsHandled'[d] : calls'[k].callee = d
    BY <2>2, PlacesApart
  <2>5. ASSUME NEW e \in Client, NEW k \in RequestsAnswered'[e]
        PROVE  /\ k \in RequestsAnswered[e] \/ (calls[k].callee = c /\ calls[k].caller = e)
               /\ calls[k].caller = e
    <3>1. k \in RequestsAnswered[e] \/ k \in Unanswered(c, e)
      BY <2>5
    <3>2. CASE k \in RequestsAnswered[e]
      BY <3>2, PlacesApart
    <3>3. CASE k \in Unanswered(c, e)
      <4>1. Unanswered(c, e) = {n \in RequestsSent[c] \union RequestsHandled[c] :
                                calls[n].kind # "send" /\ calls[n].caller = e}
        BY Zenon
      <4>2. (k \in RequestsSent[c] \/ k \in RequestsHandled[c]) /\ calls[k].caller = e
        BY <3>3, <4>1, Zenon
      <4> QED
        BY <4>2, PlacesApart
    <3> QED
      BY <3>1, <3>2, <3>3
  <2>6. \A k \in RequestsAnswered'[d] : calls'[k].caller = d
    BY <2>5
  <2>7. ASSUME NEW k \in RequestsSent'[d] \union RequestsHandled'[d], NEW e \in Client
        PROVE  k \notin RequestsAnswered'[e]
    <3>1. (k \in RequestsSent[d] \/ k \in RequestsHandled[d]) /\ d # c
      BY <2>1, <2>2
    <3>2. calls[k].callee = d /\ k \notin RequestsAnswered[e]
      BY <3>1, PlacesApart
    <3> QED
      BY <2>5, <3>1, <3>2
  <2> QED
    BY <2>3, <2>4, <2>6, <2>7
<1>2. Service!Next
  <2>1. \A k \in RequestsSent[c] \union RequestsHandled[c] :
          /\ RequestsMade[k].from = calls[k].caller
          /\ RequestsMade[k].answer = (calls[k].kind # "send")
    BY NumbersAreCalls DEF RequestsMade
  <2>2. ASSUME NEW e \in Client PROVE Service!Left(c, e) = Unanswered(c, e)
    <3>1. Service!Left(c, e) = {n \in RequestsSent[c] \union RequestsHandled[c] :
                                RequestsMade[n].answer /\ RequestsMade[n].from = e}
      BY DEF Service!Left
    <3>2. Unanswered(c, e) = {n \in RequestsSent[c] \union RequestsHandled[c] :
                              calls[n].kind # "send" /\ calls[n].caller = e}
      BY Zenon
    <3>3. ASSUME NEW n \in RequestsSent[c] \union RequestsHandled[c]
          PROVE  /\ RequestsMade[n].answer <=> calls[n].kind # "send"
                 /\ RequestsMade[n].from = calls[n].caller
      BY <2>1
    <3>4. ASSUME NEW n \in Service!Left(c, e) PROVE n \in Unanswered(c, e)
      <4>1. /\ n \in RequestsSent[c] \union RequestsHandled[c]
            /\ RequestsMade[n].answer /\ RequestsMade[n].from = e
        BY <3>1, <3>4, Zenon
      <4>2. calls[n].kind # "send" /\ calls[n].caller = e
        BY <3>3, <4>1, Zenon
      <4> QED
        BY <3>2, <4>1, <4>2, Zenon
    <3>5. ASSUME NEW n \in Unanswered(c, e) PROVE n \in Service!Left(c, e)
      <4>1. /\ n \in RequestsSent[c] \union RequestsHandled[c]
            /\ calls[n].kind # "send" /\ calls[n].caller = e
        BY <3>2, <3>5, Zenon
      <4>2. RequestsMade[n].answer /\ RequestsMade[n].from = e
        BY <3>3, <4>1, Zenon
      <4> QED
        BY <3>1, <4>1, <4>2, Zenon
    <3> QED
      BY <3>4, <3>5, Zenon
  <2>3. RequestsSent' = [RequestsSent EXCEPT ![c] = {}]
    <3>1. [e \in Client |-> RequestsSent'[e]] =
            [e \in Client |-> IF e = c THEN {} ELSE RequestsSent[e]]
      OBVIOUS
    <3>2. /\ RequestsSent = [e \in Client |-> RequestsSent[e]]
          /\ RequestsSent' = [e \in Client |-> RequestsSent'[e]]
      BY Mapped, Zenon DEF OnClients
    <3>3. [RequestsSent EXCEPT ![c] = {}] =
            [e \in Client |-> IF e = c THEN {} ELSE RequestsSent[e]]
      BY <3>2
    <3> QED
      BY <3>1, <3>2, <3>3, Zenon
  <2>4. RequestsHandled' = [RequestsHandled EXCEPT ![c] = {}]
    <3>1. [e \in Client |-> RequestsHandled'[e]] =
            [e \in Client |-> IF e = c THEN {} ELSE RequestsHandled[e]]
      OBVIOUS
    <3>2. /\ RequestsHandled = [e \in Client |-> RequestsHandled[e]]
          /\ RequestsHandled' = [e \in Client |-> RequestsHandled'[e]]
      BY Mapped, Zenon DEF OnClients
    <3>3. [RequestsHandled EXCEPT ![c] = {}] =
            [e \in Client |-> IF e = c THEN {} ELSE RequestsHandled[e]]
      BY <3>2
    <3> QED
      BY <3>1, <3>2, <3>3, Zenon
  <2>5. RequestsAnswered' = [e \in Client |-> IF e \in dead' THEN {}
                                             ELSE RequestsAnswered[e] \union Service!Left(c, e)]
    <3>1. RequestsAnswered' = [e \in Client |-> RequestsAnswered'[e]]
      BY Mapped, Zenon DEF OnClients
    <3>2. [e \in Client |-> RequestsAnswered'[e]] =
            [e \in Client |-> IF e \in dead' THEN {}
                             ELSE RequestsAnswered[e] \union Service!Left(c, e)]
      BY <2>2
    <3> QED
      BY <3>1, <3>2, Zenon
  <2>6. RequestsMade' = RequestsMade
    BY DEF RequestsMade
  <2>7. Service!Die(c)
    BY <2>3, <2>4, <2>5, <2>6, Zenon DEF Service!Die
  <2> QED
    BY <2>7 DEF Service!Next
<1> QED
  BY <1>1, <1>2

-----------------------------------------------------------------------------
(* What the client's steps do to its queues and its stack.                 *)

\* The queue of d has one more message in r than in q, m; that of c has no more m.
Enqueued(q, r, d, m, ops) ==
  \A e \in Client :
    /\ NumbersIn(r[e], ops) =
         IF e = d /\ Says(m) \in ops THEN NumbersIn(q[e], ops) \union {m.n}
         ELSE NumbersIn(q[e], ops)
    /\ OnceIn(q[e], ops) /\ (e = d /\ Says(m) \in ops => m.n \notin NumbersIn(q[e], ops)) =>
         OnceIn(r[e], ops)
Dequeued(q, r, c, m, ops) ==
  /\ Says(m) \in ops => m.n \in NumbersIn(q[c], ops)
  /\ \A e \in Client :
       /\ NumbersIn(r[e], ops) =
            IF e = c /\ Says(m) \in ops THEN NumbersIn(q[e], ops) \ {m.n}
            ELSE NumbersIn(q[e], ops)
       /\ OnceIn(q[e], ops) => OnceIn(r[e], ops)

LEMMA QueueAppended ==
  ASSUME TypeOK, NEW d, NEW m \in Message, Appends(toClient, toClient', d, m), NEW ops
  PROVE  Enqueued(toClient, toClient', d, m, ops)
<1> SUFFICES ASSUME NEW e \in Client
             PROVE  /\ NumbersIn(toClient'[e], ops) =
                         IF e = d /\ Says(m) \in ops THEN NumbersIn(toClient[e], ops) \union {m.n}
                         ELSE NumbersIn(toClient[e], ops)
                    /\ OnceIn(toClient[e], ops)
                       /\ (e = d /\ Says(m) \in ops => m.n \notin NumbersIn(toClient[e], ops)) =>
                         OnceIn(toClient'[e], ops)
  BY DEF Enqueued
<1>1. toClient \in [Client -> Seq(Message)] /\ toClient' = [toClient EXCEPT ![d] = Append(@, m)]
  BY DEF Appends, TypeOK
<1>2. CASE e = d
  <2>1. toClient'[e] = Append(toClient[e], m) /\ toClient[e] \in Seq(Message)
    BY <1>1, <1>2
  <2>2. /\ NumbersIn(Append(toClient[e], m), ops) =
             IF Says(m) \in ops THEN NumbersIn(toClient[e], ops) \union {m.n}
             ELSE NumbersIn(toClient[e], ops)
        /\ OnceIn(toClient[e], ops)
           /\ (Says(m) \in ops => m.n \notin NumbersIn(toClient[e], ops)) =>
             OnceIn(Append(toClient[e], m), ops)
    BY <2>1, InAppended
  <2> QED
    BY <1>2, <2>1, <2>2
<1>3. CASE e # d
  BY <1>1, <1>3
<1> QED
  BY <1>2, <1>3

LEMMA QueueRead ==
  ASSUME TypeOK, NEW c \in Client, toClient[c] # << >>,
         toClient' = [toClient EXCEPT ![c] = Tail(toClient[c])],
         NEW m, m = Head(toClient[c]), NEW ops, OnceIn(toClient[c], ops)
  PROVE  Dequeued(toClient, toClient', c, m, ops)
<1> SUFFICES ASSUME NEW e \in Client
             PROVE  /\ NumbersIn(toClient'[e], ops) =
                         IF e = c /\ Says(m) \in ops THEN NumbersIn(toClient[e], ops) \ {m.n}
                         ELSE NumbersIn(toClient[e], ops)
                    /\ OnceIn(toClient[e], ops) => OnceIn(toClient'[e], ops)
                    /\ Says(m) \in ops => m.n \in NumbersIn(toClient[c], ops)
  BY DEF Dequeued
<1>1. toClient \in [Client -> Seq(Message)]
  BY DEF TypeOK
<1>2. /\ NumbersIn(Tail(toClient[c]), ops) =
           IF Says(m) \in ops THEN NumbersIn(toClient[c], ops) \ {m.n}
           ELSE NumbersIn(toClient[c], ops)
      /\ Says(m) \in ops => m.n \in NumbersIn(toClient[c], ops)
      /\ OnceIn(Tail(toClient[c]), ops)
  <2>1. toClient[c] \in Seq(Message)
    BY <1>1
  <2> QED
    BY <2>1, InTailed
<1>3. CASE e = c
  <2>1. toClient'[e] = Tail(toClient[c])
    BY <1>1, <1>3
  <2> QED
    BY <1>2, <1>3, <2>1
<1>4. CASE e # c
  <2>1. toClient'[e] = toClient[e]
    BY <1>1, <1>4
  <2> QED
    BY <1>2, <1>4, <2>1
<1> QED
  BY <1>3, <1>4

\* A client handles each request in one frame.
HandlersOnce(st) == \A e \in Client : OnceAt(st[e], "handler")

LEMMA HandlersAlike ==
  ASSUME HandlersOnce(stack), \A e \in Client : Alike(stack[e], stack'[e])
  PROVE  Keeps(RequestsHandled, RequestsHandled') /\ HandlersOnce(stack')
<1>1. ASSUME NEW e \in Client
      PROVE  /\ RequestsHandled'[e] = RequestsHandled[e]
             /\ OnceAt(stack'[e], "handler")
  <2>1. /\ Numbers(stack'[e], "handler") = Numbers(stack[e], "handler")
        /\ OnceAt(stack[e], "handler") => OnceAt(stack'[e], "handler")
    BY NumbersAlike
  <2> QED
    BY <2>1, Mapping DEF Handled, HandlersOnce
<1> QED
  BY <1>1 DEF Keeps, HandlersOnce

LEMMA HandlersStay ==
  ASSUME HandlersOnce(stack), stack' = stack
  PROVE  Keeps(RequestsHandled, RequestsHandled') /\ HandlersOnce(stack')
BY HandlersAlike DEF Alike

LEMMA HandlersPushed ==
  ASSUME TypeOK, NEW c \in Client, NEW F \in Seq(Frame), Alike(stack[c], F), NEW f \in Frame,
         stack' = [stack EXCEPT ![c] = Append(F, f)], HandlersOnce(stack),
         f.at = "handler" => f.n \notin RequestsHandled[c]
  PROVE  /\ f.at = "handler" => Adds(RequestsHandled, RequestsHandled', c, f.n)
         /\ f.at # "handler" => Keeps(RequestsHandled, RequestsHandled')
         /\ HandlersOnce(stack')
<1>1. stack \in [Client -> Seq(Frame)]
  BY DEF TypeOK
<1>2. /\ Numbers(Append(F, f), "handler") =
           IF f.at = "handler" THEN Numbers(stack[c], "handler") \union {f.n}
           ELSE Numbers(stack[c], "handler")
      /\ OnceAt(Append(F, f), "handler")
  <2>1. stack[c] \in Seq(Frame) /\ OnceAt(stack[c], "handler")
    BY <1>1 DEF HandlersOnce
  <2>2. f.at = "handler" => f.n \notin Numbers(stack[c], "handler")
    BY Mapping DEF Handled
  <2> QED
    BY <2>1, <2>2, NumbersAdded
<1>3. ASSUME NEW e \in Client
      PROVE  /\ stack'[e] = IF e = c THEN Append(F, f) ELSE stack[e]
             /\ RequestsHandled'[e] = Numbers(stack'[e], "handler")
             /\ RequestsHandled[e] = Numbers(stack[e], "handler")
  BY <1>1, Mapping DEF Handled
<1>4. ASSUME NEW e \in Client
      PROVE  RequestsHandled'[e] = IF e = c /\ f.at = "handler" THEN RequestsHandled[e] \union {f.n}
                                   ELSE RequestsHandled[e]
  BY <1>2, <1>3
<1>5. HandlersOnce(stack')
  BY <1>2, <1>3 DEF HandlersOnce
<1> QED
  BY <1>4, <1>5 DEF Adds, Keeps

LEMMA HandlersPopped ==
  ASSUME TypeOK, Known, NEW c \in Client, ~Idle(c), stack' = Pop(c), HandlersOnce(stack),
         NEW f, f = Top(c)
  PROVE  /\ f.at = "handler" =>
              f.n \in RequestsHandled[c] /\ Drops(RequestsHandled, RequestsHandled', c, f.n)
         /\ f.at # "handler" => Keeps(RequestsHandled, RequestsHandled')
         /\ HandlersOnce(stack')
<1>1. stack \in [Client -> Seq(Frame)] /\ stack[c] \in Seq(Frame) /\ stack[c] # << >>
  BY TopTyped DEF TypeOK
<1>2. /\ Numbers(Front(stack[c]), "handler") =
           IF f.at = "handler" THEN Numbers(stack[c], "handler") \ {f.n}
           ELSE Numbers(stack[c], "handler")
      /\ f.at = "handler" => f.n \in Numbers(stack[c], "handler")
      /\ OnceAt(Front(stack[c]), "handler")
  <2>1. OnceAt(stack[c], "handler") /\ f = stack[c][Len(stack[c])]
    BY DEF HandlersOnce, Top
  <2> QED
    BY <1>1, <2>1, NumbersTaken
<1>3. ASSUME NEW e \in Client
      PROVE  /\ stack'[e] = IF e = c THEN Front(stack[c]) ELSE stack[e]
             /\ RequestsHandled'[e] = Numbers(stack'[e], "handler")
             /\ RequestsHandled[e] = Numbers(stack[e], "handler")
  <2>1. stack' = [stack EXCEPT ![c] = Front(stack[c])]
    BY DEF Pop
  <2> QED
    BY <1>1, <2>1, Mapping DEF Handled
<1>4. ASSUME NEW e \in Client
      PROVE  RequestsHandled'[e] = IF e = c /\ f.at = "handler" THEN RequestsHandled[e] \ {f.n}
                                   ELSE RequestsHandled[e]
  BY <1>2, <1>3
<1>5. HandlersOnce(stack')
  BY <1>2, <1>3 DEF HandlersOnce
<1> QED
  BY <1>2, <1>3, <1>4, <1>5 DEF Drops, Keeps

-----------------------------------------------------------------------------
(* Each action of the client is a step of the service.                     *)

\* The parts of the invariant about queues, one by one.
PostedOnce(ms) == \A e \in Client : Once(ms[e])
QueuesOnce(q) == \A e \in Client : OnceIn(q[e], Requests) /\ OnceIn(q[e], Answers)
PostedApart(q, ms) ==
  \A e \in Client : \A n \in ToSet(ms[e]) : n \notin NumbersIn(q[e], Requests)

LEMMA QueuesParts ==
  /\ QueuesInv <=> /\ HandlersOnce(stack) /\ PostedOnce(messages) /\ QueuesOnce(toClient)
                   /\ PostedApart(toClient, messages)
  /\ QueuesInv' <=> /\ HandlersOnce(stack') /\ PostedOnce(messages') /\ QueuesOnce(toClient')
                    /\ PostedApart(toClient', messages')
BY Zenon DEF QueuesInv, HandlersOnce, PostedOnce, QueuesOnce, PostedApart

\* A new request.
LEMMA AskRequests ==
  ASSUME TypeOK, Known, RequestInv, NEW c \in Client \ dead, NEW d \in Client,
         NEW info \in CallInfo, info.caller = c, info.callee = d,
         Len(calls) < MaxCalls, calls' = Append(calls, info), deaths' = deaths,
         NEW n, n = Len(calls) + 1, NEW op \in Requests, Send(c, d, op, n, 0),
         op = "DCOPCall" <=> info.kind # "send",
         messages' = messages, Keeps(RequestsHandled, RequestsHandled'), HandlersOnce(stack')
  PROVE  RequestInv' /\ Service!Next
<1>1. n \in CallNo /\ n \notin DOMAIN calls
  BY CallBegins DEF Begins
<1>2. QueuesInv /\ PlacesInv
  BY DEF RequestInv
<1>3. /\ HandlersOnce(stack) /\ PostedOnce(messages) /\ QueuesOnce(toClient)
      /\ PostedApart(toClient, messages)
  BY <1>2, QueuesParts, Zenon
<1>4. ASSUME NEW e \in Client
      PROVE  /\ NumbersIn(toClient'[e], Requests) =
                  IF e = d /\ d \notin dead THEN NumbersIn(toClient[e], Requests) \union {n}
                  ELSE NumbersIn(toClient[e], Requests)
             /\ NumbersIn(toClient'[e], Answers) =
                  IF e = c /\ d \in dead /\ op = "DCOPCall"
                    THEN NumbersIn(toClient[e], Answers) \union {n}
                    ELSE NumbersIn(toClient[e], Answers)
             /\ OnceIn(toClient'[e], Requests) /\ OnceIn(toClient'[e], Answers)
  <2>1. OnceIn(toClient[e], Requests) /\ OnceIn(toClient[e], Answers)
    BY <1>3 DEF QueuesOnce
  <2>2. n \notin NumbersIn(toClient[e], Requests) /\ n \notin NumbersIn(toClient[e], Answers)
    BY <1>1, NumbersAreCalls, Mapping
  <2>3. ASSUME d \notin dead,
               Appends(toClient, toClient', d, [op |-> op, n |-> n, from |-> c, tid |-> 0])
        PROVE  /\ NumbersIn(toClient'[e], Requests) =
                    IF e = d THEN NumbersIn(toClient[e], Requests) \union {n}
                    ELSE NumbersIn(toClient[e], Requests)
               /\ NumbersIn(toClient'[e], Answers) = NumbersIn(toClient[e], Answers)
               /\ OnceIn(toClient'[e], Requests) /\ OnceIn(toClient'[e], Answers)
    <3>1. PICK m : m = [op |-> op, n |-> n, from |-> c, tid |-> 0]
      OBVIOUS
    <3>2. m \in Message /\ m.op = op /\ m.n = n
      BY <1>1, <3>1 DEF Message, Opcode, Requests
    <3>3. Says(m) \in Requests /\ Says(m) \notin Answers
      BY <3>2, WhatIsSaid
    <3>4. /\ Enqueued(toClient, toClient', d, m, Requests)
          /\ Enqueued(toClient, toClient', d, m, Answers)
      BY <2>3, <3>1, <3>2, QueueAppended
    <3>5. /\ NumbersIn(toClient'[e], Requests) =
               IF e = d THEN NumbersIn(toClient[e], Requests) \union {n}
               ELSE NumbersIn(toClient[e], Requests)
          /\ OnceIn(toClient'[e], Requests)
      BY <2>1, <2>2, <3>2, <3>3, <3>4 DEF Enqueued
    <3>6. /\ NumbersIn(toClient'[e], Answers) = NumbersIn(toClient[e], Answers)
          /\ OnceIn(toClient'[e], Answers)
      BY <2>1, <3>3, <3>4 DEF Enqueued
    <3> QED
      BY <3>5, <3>6
  <2>4. ASSUME Appends(toClient, toClient', c, Failure(d, n, 0))
        PROVE  /\ NumbersIn(toClient'[e], Requests) = NumbersIn(toClient[e], Requests)
               /\ NumbersIn(toClient'[e], Answers) =
                    IF e = c THEN NumbersIn(toClient[e], Answers) \union {n}
                    ELSE NumbersIn(toClient[e], Answers)
               /\ OnceIn(toClient'[e], Requests) /\ OnceIn(toClient'[e], Answers)
    <3>1. PICK m : m = Failure(d, n, 0)
      OBVIOUS
    <3>2. m \in Message /\ m.op = "DCOPReplyFailed" /\ m.n = n /\ m.tid = 0
      BY <1>1, <3>1, FailureIs
    <3>3. Says(m) = "DCOPReply"
      BY <3>2, WhatIsSaid
    <3>4. Says(m) \notin Requests /\ Says(m) \in Answers
      BY <3>3 DEF Requests, Answers
    <3>5. /\ Enqueued(toClient, toClient', c, m, Requests)
          /\ Enqueued(toClient, toClient', c, m, Answers)
      BY <2>4, <3>1, <3>2, QueueAppended
    <3>6. /\ NumbersIn(toClient'[e], Answers) =
               IF e = c THEN NumbersIn(toClient[e], Answers) \union {n}
               ELSE NumbersIn(toClient[e], Answers)
          /\ OnceIn(toClient'[e], Answers)
      BY <2>1, <2>2, <3>2, <3>4, <3>5 DEF Enqueued
    <3>7. /\ NumbersIn(toClient'[e], Requests) = NumbersIn(toClient[e], Requests)
          /\ OnceIn(toClient'[e], Requests)
      BY <2>1, <3>4, <3>5 DEF Enqueued
    <3> QED
      BY <3>6, <3>7
  <2>5. \/ /\ d \notin dead
           /\ Appends(toClient, toClient', d, [op |-> op, n |-> n, from |-> c, tid |-> 0])
        \/ /\ d \in dead /\ op = "DCOPCall" /\ Appends(toClient, toClient', c, Failure(d, n, 0))
        \/ d \in dead /\ op # "DCOPCall" /\ toClient' = toClient
    BY SendCases
  <2>6. CASE d \in dead /\ op # "DCOPCall" /\ toClient' = toClient
    BY <2>1, <2>6
  <2>7. CASE /\ d \in dead /\ op = "DCOPCall" /\ Appends(toClient, toClient', c, Failure(d, n, 0))
    BY <2>4, <2>7
  <2>8. CASE /\ d \notin dead
             /\ Appends(toClient, toClient', d, [op |-> op, n |-> n, from |-> c, tid |-> 0])
    BY <2>3, <2>8
  <2> QED
    BY <2>5, <2>6, <2>7, <2>8
<1>5. QueuesInv'
  <2>1. QueuesOnce(toClient')
    BY <1>4 DEF QueuesOnce
  <2>2. PostedApart(toClient', messages')
    <3> SUFFICES ASSUME NEW e \in Client, NEW k \in ToSet(messages[e])
                 PROVE  k \notin NumbersIn(toClient'[e], Requests)
      BY DEF PostedApart
    <3>1. k \notin NumbersIn(toClient[e], Requests)
      BY <1>3 DEF PostedApart
    <3>2. k # n
      BY <1>1, NumbersAreCalls, Mapping
    <3> QED
      <4>1. NumbersIn(toClient'[e], Requests) =
              IF e = d /\ d \notin dead THEN NumbersIn(toClient[e], Requests) \union {n}
              ELSE NumbersIn(toClient[e], Requests)
        BY <1>4, Zenon
      <4> QED
        BY <3>1, <3>2, <4>1
  <2> QED
    BY <1>3, <2>1, <2>2, QueuesParts
<1>6. IF info.callee \in dead THEN Keeps(RequestsSent, RequestsSent')
        ELSE Adds(RequestsSent, RequestsSent', info.callee, n)
  <2>1. ASSUME NEW e \in Client
        PROVE  RequestsSent'[e] =
                 IF e = d /\ d \notin dead THEN RequestsSent[e] \union {n} ELSE RequestsSent[e]
    <3>1. /\ RequestsSent[e] = NumbersIn(toClient[e], Requests) \union ToSet(messages[e])
          /\ RequestsSent'[e] = NumbersIn(toClient'[e], Requests) \union ToSet(messages[e])
      BY Mapping
    <3> QED
      BY <1>4, <3>1
  <2> QED
    BY <2>1 DEF Adds, Keeps
<1>7. IF info.callee \in dead /\ info.kind # "send"
        THEN Adds(RequestsAnswered, RequestsAnswered', info.caller, n)
        ELSE Keeps(RequestsAnswered, RequestsAnswered')
  <2>1. ASSUME NEW e \in Client
        PROVE  RequestsAnswered'[e] = IF e = c /\ d \in dead /\ op = "DCOPCall"
                                        THEN RequestsAnswered[e] \union {n}
                                        ELSE RequestsAnswered[e]
    <3>1. /\ RequestsAnswered[e] = NumbersIn(toClient[e], Answers)
          /\ RequestsAnswered'[e] = NumbersIn(toClient'[e], Answers)
      BY Mapping
    <3> QED
      BY <1>4, <3>1
  <2> QED
    BY <2>1 DEF Adds, Keeps
<1>8. PlacesInv' /\ Service!Next
  <2>1. info.caller \notin dead
    OBVIOUS
  <2> QED
    BY <1>2, <1>6, <1>7, <2>1, AskStep
<1> QED
  BY <1>5, <1>8 DEF RequestInv

\* Nothing happens to requests and their first answers.
AlikeQueues(q, r) ==
  \A e \in Client : /\ NumbersIn(r[e], Requests) = NumbersIn(q[e], Requests)
                     /\ NumbersIn(r[e], Answers) = NumbersIn(q[e], Answers)

LEMMA QuietRequests ==
  ASSUME RequestInv, calls' = calls, deaths' = deaths, messages' = messages,
         toClient' = toClient \/ (AlikeQueues(toClient, toClient') /\ QueuesOnce(toClient')),
         Keeps(RequestsHandled, RequestsHandled'), HandlersOnce(stack')
  PROVE  RequestInv' /\ UNCHANGED Service!vars
<1>1. QueuesInv /\ PlacesInv
  BY DEF RequestInv
<1>2. /\ PostedOnce(messages) /\ QueuesOnce(toClient) /\ PostedApart(toClient, messages)
  BY <1>1, QueuesParts
<1>3. AlikeQueues(toClient, toClient') /\ QueuesOnce(toClient')
  BY <1>2 DEF AlikeQueues
<1>4. PostedApart(toClient', messages')
  BY <1>2, <1>3 DEF PostedApart, AlikeQueues
<1>5. QueuesInv'
  BY <1>2, <1>3, <1>4, QueuesParts
<1>6. ASSUME NEW e \in Client
      PROVE  /\ RequestsSent'[e] = RequestsSent[e]
             /\ RequestsAnswered'[e] = RequestsAnswered[e]
  <2>1. /\ RequestsSent[e] = NumbersIn(toClient[e], Requests) \union ToSet(messages[e])
        /\ RequestsSent'[e] = NumbersIn(toClient'[e], Requests) \union ToSet(messages[e])
        /\ RequestsAnswered[e] = NumbersIn(toClient[e], Answers)
        /\ RequestsAnswered'[e] = NumbersIn(toClient'[e], Answers)
    BY Mapping
  <2> QED
    BY <1>3, <2>1 DEF AlikeQueues
<1>7. Keeps(RequestsSent, RequestsSent') /\ Keeps(RequestsAnswered, RequestsAnswered')
  BY <1>6 DEF Keeps
<1>8. PlacesInv' /\ UNCHANGED Service!vars
  BY <1>1, <1>7, QuietStep
<1> QED
  BY <1>5, <1>8 DEF RequestInv

LEMMA CallRequests ==
  ASSUME TypeOK, Known, RequestInv, NEW c \in Client \ dead, NEW d \in Client, NEW kind \in Kinds,
         call(c, d, kind)
  PROVE  RequestInv' /\ Service!Next
<1>1. PICK n : n = Len(calls) + 1
  OBVIOUS
<1>2. PICK key : key = IF currentKey[c] = None THEN c ELSE currentKey[c]
  OBVIOUS
<1>3. PICK info : info = [caller |-> c, callee |-> d, kind |-> kind, key |-> key]
  OBVIOUS
<1>4. PICK f : f = [at |-> "call", n |-> n, oldKey |-> currentKey[c], did |-> "nothing", seen |-> {}]
  OBVIOUS
<1>5. key \in Keys /\ currentKey[c] \in Keys
  BY <1>2 DEF TypeOK, Keys
<1>6. info \in CallInfo /\ info.caller = c /\ info.callee = d /\ info.kind # "send"
  <2>1. kind \in {"call", "callAsync"}
    BY KindAssumption DEF call
  <2> QED
    BY <1>3, <1>5, <2>1 DEF CallInfo
<1>7. /\ Len(calls) < MaxCalls /\ calls' = Append(calls, info)
      /\ stack' = [stack EXCEPT ![c] = Append(Calling(c), f)]
      /\ Send(c, d, "DCOPCall", n, 0) /\ messages' = messages /\ deaths' = deaths
  BY <1>1, <1>2, <1>3, <1>4 DEF call, MayCall, posted
<1>8. f \in Frame /\ f.at # "handler"
  <2>1. n \in CallNo
    BY <1>1, <1>6, <1>7, CallBegins DEF Begins
  <2> QED
    BY <1>4, <1>5, <2>1 DEF Frame
<1>9. HandlersOnce(stack)
  BY QueuesParts DEF RequestInv
<1>10. Keeps(RequestsHandled, RequestsHandled') /\ HandlersOnce(stack')
  BY <1>7, <1>8, <1>9, CallingAlike, HandlersPushed
<1>11. "DCOPCall" \in Requests
  BY DEF Requests
<1>12. PICK op : op = "DCOPCall"
  OBVIOUS
<1> QED
  BY <1>1, <1>6, <1>7, <1>10, <1>11, <1>12, AskRequests

LEMMA SendRequests ==
  ASSUME TypeOK, Known, RequestInv, NEW c \in Client \ dead, NEW d \in Client, send(c, d)
  PROVE  RequestInv' /\ Service!Next
<1>1. PICK n : n = Len(calls) + 1
  OBVIOUS
<1>2. PICK info : info = [caller |-> c, callee |-> d, kind |-> "send", key |-> "send"]
  OBVIOUS
<1>3. info \in CallInfo /\ info.caller = c /\ info.callee = d /\ info.kind = "send"
  BY <1>2 DEF CallInfo, Keys
<1>4. /\ Len(calls) < MaxCalls /\ calls' = Append(calls, info)
      /\ stack' = [stack EXCEPT ![c] = Calling(c)]
      /\ Send(c, d, "DCOPSend", n, 0) /\ messages' = messages /\ deaths' = deaths
  BY <1>1, <1>2 DEF send, MayCall, posted
<1>5. HandlersOnce(stack)
  BY QueuesParts DEF RequestInv
<1>6. \A e \in Client : Alike(stack[e], stack'[e])
  BY <1>4, CallingAlike DEF Alike, TypeOK
<1>7. Keeps(RequestsHandled, RequestsHandled') /\ HandlersOnce(stack')
  BY <1>5, <1>6, HandlersAlike
<1>8. "DCOPSend" \in Requests
  BY DEF Requests
<1>9. PICK op : op = "DCOPSend"
  OBVIOUS
<1>10. op # "DCOPCall"
  BY <1>9
<1> QED
  BY <1>1, <1>3, <1>4, <1>7, <1>8, <1>9, <1>10, AskRequests

LEMMA LeaveRequests ==
  ASSUME TypeOK, Known, RequestInv, NEW c \in Client, Return(c) \/ TimeOut(c)
  PROVE  RequestInv' /\ UNCHANGED Service!vars
<1>1. /\ ~Idle(c) /\ Top(c).at = "call" /\ stack' = Pop(c)
      /\ calls' = calls /\ toClient' = toClient /\ messages' = messages /\ deaths' = deaths
  BY DEF Return, TimeOut, In, Idle, asked, posted
<1>2. HandlersOnce(stack)
  BY QueuesParts DEF RequestInv
<1>3. "call" # "handler"
  OBVIOUS
<1>4. Keeps(RequestsHandled, RequestsHandled') /\ HandlersOnce(stack')
  BY <1>1, <1>2, <1>3, HandlersPopped
<1> QED
  BY <1>1, <1>4, QuietRequests

LEMMA TimerRequests ==
  ASSUME TypeOK, Known, RequestInv, NEW c \in Client, processPostedMessages(c)
  PROVE  RequestInv' /\ UNCHANGED Service!vars
<1>1. PICK f : f = [at |-> "posted", n |-> 0, oldKey |-> None, did |-> "nothing", seen |-> {}]
  OBVIOUS
<1>2. f \in Frame /\ f.at # "handler"
  BY <1>1 DEF Frame, Keys
<1>3. /\ calls' = calls /\ toClient' = toClient /\ messages' = messages /\ deaths' = deaths
      /\ stack' = IF messages[c] = << >> THEN stack ELSE [stack EXCEPT ![c] = Append(stack[c], f)]
  BY <1>1 DEF processPostedMessages, asked, Push
<1>4. HandlersOnce(stack)
  BY QueuesParts DEF RequestInv
<1>5. stack[c] \in Seq(Frame) /\ Alike(stack[c], stack[c])
  BY DEF TypeOK, Alike
<1>6. Keeps(RequestsHandled, RequestsHandled') /\ HandlersOnce(stack')
  <2>1. CASE messages[c] = << >>
    BY <1>3, <1>4, <2>1, HandlersStay
  <2>2. CASE messages[c] # << >>
    BY <1>2, <1>3, <1>4, <1>5, <2>2, HandlersPushed
  <2> QED
    BY <2>1, <2>2
<1> QED
  BY <1>3, <1>6, QuietRequests

LEMMA BeginRequests ==
  ASSUME TypeOK, Known, RequestInv, NEW c \in Client, beginTransaction(c)
  PROVE  RequestInv' /\ UNCHANGED Service!vars
<1>1. PICK g : g = [Top(c) EXCEPT !.did = "delayed"]
  OBVIOUS
<1>2. /\ ~Idle(c) /\ stack' = [stack EXCEPT ![c] = ReplaceTop(c, g)]
      /\ calls' = calls /\ toClient' = toClient /\ messages' = messages /\ deaths' = deaths
  BY <1>1 DEF beginTransaction, In, Idle, asked, posted
<1>3. g \in Frame /\ g.at = Top(c).at /\ g.n = Top(c).n
  <2>1. Top(c) \in Frame
    BY <1>2, TopTyped
  <2> QED
    BY <1>1, <2>1 DEF Frame
<1>4. Alike(stack[c], ReplaceTop(c, g))
  BY <1>2, <1>3, ReplaceTopTyped DEF Alike
<1>5. \A e \in Client : Alike(stack[e], stack'[e])
  BY <1>2, <1>4 DEF Alike, TypeOK
<1>6. HandlersOnce(stack)
  BY QueuesParts DEF RequestInv
<1> QED
  BY <1>2, <1>5, <1>6, HandlersAlike, QuietRequests

\* A message with another opcode comes or goes.
LEMMA OtherQueued ==
  ASSUME NEW q, NEW r, QueuesOnce(q), NEW d, NEW m,
         Says(m) \notin Requests, Says(m) \notin Answers,
         Enqueued(q, r, d, m, Requests), Enqueued(q, r, d, m, Answers)
  PROVE  AlikeQueues(q, r) /\ QueuesOnce(r)
BY DEF QueuesOnce, Enqueued, AlikeQueues

LEMMA OtherRead ==
  ASSUME NEW q, NEW r, QueuesOnce(q), NEW c, NEW m,
         Says(m) \notin Requests, Says(m) \notin Answers,
         Dequeued(q, r, c, m, Requests), Dequeued(q, r, c, m, Answers)
  PROVE  AlikeQueues(q, r) /\ QueuesOnce(r)
BY DEF QueuesOnce, Dequeued, AlikeQueues

LEMMA EndRequests ==
  ASSUME TypeOK, Known, RequestInv, NEW c \in Client, NEW t \in transactionList[c],
         endTransaction(c, t)
  PROVE  RequestInv' /\ UNCHANGED Service!vars
<1>1. /\ Send(c, t.senderId, "DCOPReplyDelayed", t.n, t.id)
      /\ calls' = calls /\ stack' = stack /\ messages' = messages /\ deaths' = deaths
  BY DEF endTransaction, asked, posted
<1>2. t.n \in CallNo /\ t.id \in Nat
  BY Elements DEF Transaction
<1>3. HandlersOnce(stack) /\ QueuesOnce(toClient)
  BY QueuesParts DEF RequestInv
<1>4. PICK m : m = [op |-> "DCOPReplyDelayed", n |-> t.n, from |-> c, tid |-> t.id]
  OBVIOUS
<1>5. m \in Message /\ m.op = "DCOPReplyDelayed"
  BY <1>2, <1>4 DEF Message, Opcode
<1>6. Says(m) \notin Requests /\ Says(m) \notin Answers
  <2>1. Says(m) = "DCOPReplyDelayed"
    BY <1>5, WhatIsSaid
  <2> QED
    BY <2>1 DEF Requests, Answers
<1>7. toClient' = toClient \/ (AlikeQueues(toClient, toClient') /\ QueuesOnce(toClient'))
  <2>1. toClient' = toClient \/ Appends(toClient, toClient', t.senderId, m)
    BY <1>1, <1>4, SendCases
  <2>2. ASSUME Appends(toClient, toClient', t.senderId, m)
        PROVE  /\ Enqueued(toClient, toClient', t.senderId, m, Requests)
               /\ Enqueued(toClient, toClient', t.senderId, m, Answers)
    BY <1>5, <2>2, QueueAppended
  <2> QED
    BY <1>3, <1>6, <2>1, <2>2, OtherQueued
<1>8. Keeps(RequestsHandled, RequestsHandled') /\ HandlersOnce(stack')
  BY <1>1, <1>3, HandlersStay
<1> QED
  BY <1>1, <1>7, <1>8, QuietRequests

\* A handler begins with the request n, which was in the queue or posted.
LEMMA HandlerRequests ==
  ASSUME TypeOK, Known, RequestInv, NEW c \in Client, NEW n \in RequestsSent[c],
         calls' = calls, deaths' = deaths, NEW F \in Seq(Frame), Alike(stack[c], F), Receive(c, n, F),
         Drops(RequestsSent, RequestsSent', c, n), Keeps(RequestsAnswered, RequestsAnswered'),
         PostedOnce(messages'), QueuesOnce(toClient'), PostedApart(toClient', messages')
  PROVE  RequestInv' /\ Service!Next
<1>1. PICK f : f = [at |-> "handler", n |-> n, oldKey |-> currentKey[c], did |-> "nothing",
                    seen |-> {}]
  OBVIOUS
<1>2. n \in CallNo /\ n \notin RequestsHandled[c] /\ PlacesInv
  <2>1. PlacesInv /\ n \in DOMAIN calls
    BY NumbersAreCalls DEF RequestInv
  <2> QED
    BY <2>1, PlacesApart, Parties
<1>3. f \in Frame /\ f.at = "handler" /\ f.n = n
  <2>1. currentKey[c] \in Keys
    BY DEF TypeOK
  <2> QED
    BY <1>1, <1>2, <2>1 DEF Frame
<1>4. stack' = [stack EXCEPT ![c] = Append(F, f)]
  BY <1>1 DEF Receive
<1>5. HandlersOnce(stack)
  BY QueuesParts DEF RequestInv
<1>6. Adds(RequestsHandled, RequestsHandled', c, n) /\ HandlersOnce(stack')
  BY <1>2, <1>3, <1>4, <1>5, HandlersPushed
<1>7. QueuesInv'
  BY <1>6, QueuesParts
<1>8. PlacesInv' /\ Service!Next
  BY <1>2, <1>6, BeginStep
<1> QED
  BY <1>7, <1>8 DEF RequestInv

LEMMA ReadQueues ==
  ASSUME TypeOK, Known, RequestInv, NEW c \in Client, NEW m, Reads(c, m)
  PROVE  /\ Dequeued(toClient, toClient', c, m, Requests)
         /\ Dequeued(toClient, toClient', c, m, Answers) /\ QueuesOnce(toClient')
<1>1. QueuesOnce(toClient)
  BY QueuesParts DEF RequestInv
<1>2. OnceIn(toClient[c], Requests) /\ OnceIn(toClient[c], Answers)
  BY <1>1 DEF QueuesOnce
<1>3. /\ toClient[c] # << >> /\ m = Head(toClient[c])
      /\ toClient' = [toClient EXCEPT ![c] = Tail(toClient[c])]
  BY DEF Reads
<1>4. /\ Dequeued(toClient, toClient', c, m, Requests)
      /\ Dequeued(toClient, toClient', c, m, Answers)
  BY <1>2, <1>3, QueueRead
<1> QED
  BY <1>1, <1>4 DEF QueuesOnce, Dequeued

\* The message is a request: it is posted, ...
LEMMA PostRequests ==
  ASSUME TypeOK, Known, RequestInv, NEW c \in Client, NEW m, Reads(c, m), m.op \in Requests,
         stack' = stack, messages' = [messages EXCEPT ![c] = Append(@, m.n)]
  PROVE  RequestInv' /\ UNCHANGED Service!vars
<1>1. PICK n : n = m.n
  OBVIOUS
<1>2. calls' = calls /\ deaths' = deaths
  BY DEF Reads
<1>3. /\ HandlersOnce(stack) /\ PostedOnce(messages) /\ PostedApart(toClient, messages)
      /\ QueuesInv /\ PlacesInv
  BY QueuesParts DEF RequestInv
<1>4. /\ Dequeued(toClient, toClient', c, m, Requests)
      /\ Dequeued(toClient, toClient', c, m, Answers) /\ QueuesOnce(toClient')
  BY ReadQueues
<1>5. Says(m) \in Requests /\ Says(m) \notin Answers
  BY WhatIsSaid
<1>6. /\ n \in NumbersIn(toClient[c], Requests)
      /\ \A e \in Client :
           /\ NumbersIn(toClient'[e], Requests) =
                IF e = c THEN NumbersIn(toClient[e], Requests) \ {n}
                ELSE NumbersIn(toClient[e], Requests)
           /\ NumbersIn(toClient'[e], Answers) = NumbersIn(toClient[e], Answers)
  BY <1>1, <1>4, <1>5 DEF Dequeued
<1>7. n \in CallNo /\ n \notin ToSet(messages[c])
  <2>1. n \in DOMAIN calls
    BY <1>6, NumbersAreCalls, Mapping
  <2> QED
    BY <1>3, <1>6, <2>1, Parties DEF PostedApart
<1>8. /\ \A e \in Client : ToSet(messages'[e]) =
           IF e = c THEN ToSet(messages[e]) \union {n} ELSE ToSet(messages[e])
      /\ PostedOnce(messages')
  <2>1. messages \in [Client -> Seq(CallNo)]
    BY DEF TypeOK
  <2>2. \A e \in Client : messages'[e] = IF e = c THEN Append(messages[c], n) ELSE messages[e]
    BY <1>1, <2>1
  <2>3. /\ ToSet(Append(messages[c], n)) = ToSet(messages[c]) \union {n}
        /\ Once(Append(messages[c], n))
    BY <1>3, <1>7, <2>1, Appended DEF PostedOnce
  <2>4. ASSUME NEW e \in Client
        PROVE  /\ ToSet(messages'[e]) = IF e = c THEN ToSet(messages[e]) \union {n}
                                        ELSE ToSet(messages[e])
               /\ Once(messages'[e])
    <3>1. CASE e = c
      BY <2>2, <2>3, <3>1
    <3>2. CASE e # c
      <4>1. messages'[e] = messages[e]
        BY <2>2, <3>2
      <4> QED
        BY <1>3, <3>2, <4>1 DEF PostedOnce
    <3> QED
      BY <3>1, <3>2
  <2> QED
    BY <2>4, Zenon DEF PostedOnce
<1>9. PostedApart(toClient', messages')
  <2> SUFFICES ASSUME NEW e \in Client, NEW k \in ToSet(messages'[e])
               PROVE  k \notin NumbersIn(toClient'[e], Requests)
    BY Zenon DEF PostedApart
  <2>0. ToSet(messages'[e]) = IF e = c THEN ToSet(messages[e]) \union {n} ELSE ToSet(messages[e])
    BY <1>8, Zenon
  <2>1. k \in ToSet(messages[e]) \/ (e = c /\ k = n)
    BY <2>0
  <2>2. k \in ToSet(messages[e]) => k \notin NumbersIn(toClient[e], Requests)
    BY <1>3 DEF PostedApart
  <2>3. NumbersIn(toClient'[e], Requests) =
          IF e = c THEN NumbersIn(toClient[e], Requests) \ {n}
          ELSE NumbersIn(toClient[e], Requests)
    BY <1>6
  <2> QED
    BY <2>1, <2>2, <2>3
<1>10. Keeps(RequestsHandled, RequestsHandled') /\ HandlersOnce(stack')
  BY <1>3, HandlersStay
<1>11. QueuesInv'
  BY <1>4, <1>8, <1>9, <1>10, QueuesParts
<1>12. ASSUME NEW e \in Client
       PROVE  /\ RequestsSent'[e] = RequestsSent[e]
              /\ RequestsAnswered'[e] = RequestsAnswered[e]
  <2>1. /\ RequestsSent[e] = NumbersIn(toClient[e], Requests) \union ToSet(messages[e])
        /\ RequestsSent'[e] = NumbersIn(toClient'[e], Requests) \union ToSet(messages'[e])
        /\ RequestsAnswered[e] = NumbersIn(toClient[e], Answers)
        /\ RequestsAnswered'[e] = NumbersIn(toClient'[e], Answers)
    BY Mapping
  <2>2. /\ NumbersIn(toClient'[e], Requests) =
             IF e = c THEN NumbersIn(toClient[e], Requests) \ {n}
             ELSE NumbersIn(toClient[e], Requests)
        /\ NumbersIn(toClient'[e], Answers) = NumbersIn(toClient[e], Answers)
        /\ n \in NumbersIn(toClient[c], Requests)
    BY <1>6
  <2>3. ToSet(messages'[e]) = IF e = c THEN ToSet(messages[e]) \union {n} ELSE ToSet(messages[e])
    BY <1>8, Zenon
  <2>4. CASE e = c
    BY <2>1, <2>2, <2>3, <2>4
  <2>5. CASE e # c
    BY <2>1, <2>2, <2>3, <2>5
  <2> QED
    BY <2>4, <2>5
<1>13. Keeps(RequestsSent, RequestsSent') /\ Keeps(RequestsAnswered, RequestsAnswered')
  BY <1>12 DEF Keeps
<1>14. PlacesInv' /\ UNCHANGED Service!vars
  BY <1>2, <1>3, <1>10, <1>13, QuietStep
<1> QED
  BY <1>11, <1>14 DEF RequestInv


\* ... or handled at once; ...
LEMMA ReceiveRequests ==
  ASSUME TypeOK, Known, RequestInv, NEW c \in Client, NEW m, Reads(c, m), m.op \in Requests,
         Receive(c, m.n, stack[c]), messages' = messages
  PROVE  RequestInv' /\ Service!Next
<1>1. PICK n : n = m.n
  OBVIOUS
<1>2. calls' = calls /\ deaths' = deaths
  BY DEF Reads
<1>3. PostedOnce(messages) /\ PostedApart(toClient, messages)
  BY QueuesParts DEF RequestInv
<1>4. /\ Dequeued(toClient, toClient', c, m, Requests)
      /\ Dequeued(toClient, toClient', c, m, Answers) /\ QueuesOnce(toClient')
  BY ReadQueues
<1>5. Says(m) \in Requests /\ Says(m) \notin Answers
  BY WhatIsSaid
<1>6. /\ n \in NumbersIn(toClient[c], Requests)
      /\ \A e \in Client :
           /\ NumbersIn(toClient'[e], Requests) =
                IF e = c THEN NumbersIn(toClient[e], Requests) \ {n}
                ELSE NumbersIn(toClient[e], Requests)
           /\ NumbersIn(toClient'[e], Answers) = NumbersIn(toClient[e], Answers)
  BY <1>1, <1>4, <1>5 DEF Dequeued
<1>7. n \in RequestsSent[c] /\ n \notin ToSet(messages[c])
  BY <1>3, <1>6, Mapping DEF PostedApart
<1>8. PostedApart(toClient', messages')
  <2> SUFFICES ASSUME NEW e \in Client, NEW k \in ToSet(messages[e])
               PROVE  k \notin NumbersIn(toClient'[e], Requests)
    BY Zenon DEF PostedApart
  <2>1. k \notin NumbersIn(toClient[e], Requests)
    BY <1>3 DEF PostedApart
  <2>2. NumbersIn(toClient'[e], Requests) =
          IF e = c THEN NumbersIn(toClient[e], Requests) \ {n}
          ELSE NumbersIn(toClient[e], Requests)
    BY <1>6
  <2> QED
    BY <2>1, <2>2
<1>9. ASSUME NEW e \in Client
      PROVE  /\ RequestsSent'[e] = IF e = c THEN RequestsSent[e] \ {n} ELSE RequestsSent[e]
             /\ RequestsAnswered'[e] = RequestsAnswered[e]
  <2>1. /\ RequestsSent[e] = NumbersIn(toClient[e], Requests) \union ToSet(messages[e])
        /\ RequestsSent'[e] = NumbersIn(toClient'[e], Requests) \union ToSet(messages[e])
        /\ RequestsAnswered[e] = NumbersIn(toClient[e], Answers)
        /\ RequestsAnswered'[e] = NumbersIn(toClient'[e], Answers)
    BY Mapping
  <2>2. /\ NumbersIn(toClient'[e], Requests) =
             IF e = c THEN NumbersIn(toClient[e], Requests) \ {n}
             ELSE NumbersIn(toClient[e], Requests)
        /\ NumbersIn(toClient'[e], Answers) = NumbersIn(toClient[e], Answers)
    BY <1>6
  <2>3. CASE e = c
    BY <1>7, <2>1, <2>2, <2>3
  <2>4. CASE e # c
    BY <2>1, <2>2, <2>4
  <2> QED
    BY <2>3, <2>4
<1>10. Drops(RequestsSent, RequestsSent', c, n) /\ Keeps(RequestsAnswered, RequestsAnswered')
  BY <1>9 DEF Drops, Keeps
<1>11. stack[c] \in Seq(Frame) /\ Alike(stack[c], stack[c])
  BY DEF TypeOK, Alike
<1>12. PostedOnce(messages')
  BY <1>3
<1> QED
  BY <1>1, <1>2, <1>4, <1>7, <1>8, <1>10, <1>11, <1>12, HandlerRequests

\* ... it is the first answer to a call of the client; ...
LEMMA LearnRequests ==
  ASSUME TypeOK, Known, RequestInv, NEW c \in Client, NEW m, Reads(c, m), Says(m) \in Answers,
         stack' = stack, messages' = messages
  PROVE  RequestInv' /\ Service!Next
<1>1. PICK n : n = m.n
  OBVIOUS
<1>2. calls' = calls /\ deaths' = deaths
  BY DEF Reads
<1>3. /\ HandlersOnce(stack) /\ PostedOnce(messages) /\ PostedApart(toClient, messages)
      /\ PlacesInv
  BY QueuesParts DEF RequestInv
<1>4. /\ Dequeued(toClient, toClient', c, m, Requests)
      /\ Dequeued(toClient, toClient', c, m, Answers) /\ QueuesOnce(toClient')
  BY ReadQueues
<1>5. Says(m) \notin Requests
  BY WhatIsSaid
<1>6. /\ n \in NumbersIn(toClient[c], Answers)
      /\ \A e \in Client :
           /\ NumbersIn(toClient'[e], Requests) = NumbersIn(toClient[e], Requests)
           /\ NumbersIn(toClient'[e], Answers) =
                IF e = c THEN NumbersIn(toClient[e], Answers) \ {n}
                ELSE NumbersIn(toClient[e], Answers)
  BY <1>1, <1>4, <1>5 DEF Dequeued
<1>7. PostedOnce(messages') /\ PostedApart(toClient', messages')
  BY <1>3, <1>6 DEF PostedApart
<1>8. Keeps(RequestsHandled, RequestsHandled') /\ HandlersOnce(stack')
  BY <1>3, HandlersStay
<1>9. QueuesInv'
  BY <1>4, <1>7, <1>8, QueuesParts
<1>10. ASSUME NEW e \in Client
       PROVE  /\ RequestsSent'[e] = RequestsSent[e]
              /\ RequestsAnswered'[e] =
                   IF e = c THEN RequestsAnswered[e] \ {n} ELSE RequestsAnswered[e]
  <2>1. /\ RequestsSent[e] = NumbersIn(toClient[e], Requests) \union ToSet(messages[e])
        /\ RequestsSent'[e] = NumbersIn(toClient'[e], Requests) \union ToSet(messages[e])
        /\ RequestsAnswered[e] = NumbersIn(toClient[e], Answers)
        /\ RequestsAnswered'[e] = NumbersIn(toClient'[e], Answers)
    BY Mapping
  <2> QED
    BY <1>6, <2>1
<1>11. Keeps(RequestsSent, RequestsSent') /\ Drops(RequestsAnswered, RequestsAnswered', c, n)
  BY <1>10 DEF Drops, Keeps
<1>12. n \in RequestsAnswered[c]
  BY <1>6, Mapping
<1>13. PlacesInv' /\ Service!Next
  BY <1>2, <1>3, <1>8, <1>11, <1>12, LearnStep
<1> QED
  BY <1>9, <1>13 DEF RequestInv

\* ... or an answer that was promised.
LEMMA ReadRequests ==
  ASSUME TypeOK, Known, RequestInv, NEW c \in Client, Read(c)
  PROVE  RequestInv' /\ [Service!Next]_(Service!vars)
<1>1. PICK m : m = Head(toClient[c])
  OBVIOUS
<1>2. Reads(c, m)
  BY <1>1 DEF Read, Reads, MayRead
<1>3. m \in Message
  <2>1. toClient[c] \in Seq(Message) /\ toClient[c] # << >>
    BY <1>2 DEF TypeOK, Reads
  <2> QED
    BY <1>1, <2>1, HeadTailProperties
<1>4. CASE /\ \E n \in {ReplyWaitFor(c)} :
                Reply(c, m, n) \/ ReplyWait(c, m, n) \/ ReplyDelayed(c, m, n)
           /\ UNCHANGED <<senderId, transaction, stack, currentKey, posted>>
  <2>1. stack' = stack /\ messages' = messages
    BY <1>4 DEF posted
  <2>2. m.op \in {"DCOPReply", "DCOPReplyFailed", "DCOPReplyWait", "DCOPReplyDelayed"}
    BY <1>4 DEF Reply, ReplyWait, ReplyDelayed
  <2>3. CASE Says(m) \in Answers
    BY <1>2, <2>1, <2>3, LearnRequests
  <2>4. CASE Says(m) \notin Answers
    <3>1. QueuesOnce(toClient) /\ HandlersOnce(stack)
      BY QueuesParts DEF RequestInv
    <3>2. Says(m) \notin Requests /\ Says(m) \notin Answers
      <4>1. m.op \notin Requests
        BY <2>2 DEF Requests
      <4> QED
        BY <2>4, <4>1, WhatIsSaid
    <3>3. /\ Dequeued(toClient, toClient', c, m, Requests)
          /\ Dequeued(toClient, toClient', c, m, Answers)
      BY <1>2, ReadQueues
    <3>4. AlikeQueues(toClient, toClient') /\ QueuesOnce(toClient')
      BY <3>1, <3>2, <3>3, OtherRead
    <3>5. Keeps(RequestsHandled, RequestsHandled') /\ HandlersOnce(stack')
      BY <2>1, <3>1, HandlersStay
    <3>6. calls' = calls /\ deaths' = deaths
      BY <1>2 DEF Reads
    <3> QED
      BY <2>1, <3>4, <3>5, <3>6, QuietRequests
  <2> QED
    BY <2>3, <2>4
<1>5. CASE m.op \in {"DCOPCall", "DCOPSend"} /\ ReceiveOrPost(c, m.n)
  <2>1. m.op \in Requests
    BY <1>5 DEF Requests
  <2>2. CASE Receive(c, m.n, stack[c]) /\ UNCHANGED posted
    <3>1. messages' = messages
      BY <2>2 DEF posted
    <3> QED
      BY <1>2, <2>1, <2>2, <3>1, ReceiveRequests
  <2>3. CASE /\ messages' = [messages EXCEPT ![c] = Append(@, m.n)]
             /\ UNCHANGED <<transaction, stack, currentKey>>
    <3>1. stack' = stack
      BY <2>3
    <3> QED
      BY <1>2, <2>1, <2>3, <3>1, PostRequests
  <2> QED
    BY <1>5, <2>2, <2>3 DEF ReceiveOrPost
<1> QED
  BY <1>1, <1>4, <1>5 DEF Read

\* A posted request is handled.
LEMMA PostedRequests ==
  ASSUME TypeOK, Known, RequestInv, NEW c \in Client, ProcessPosted(c)
  PROVE  RequestInv' /\ [Service!Next]_(Service!vars)
<1>1. /\ ~Idle(c) /\ Top(c).at = "posted" /\ calls' = calls /\ toClient' = toClient
      /\ deaths' = deaths
  BY ProcessPostedCases, Zenon DEF ProcessPosted
<1>2. /\ HandlersOnce(stack) /\ PostedOnce(messages) /\ QueuesOnce(toClient)
      /\ PostedApart(toClient, messages)
  BY QueuesParts DEF RequestInv
<1>3. CASE stack' = Pop(c) /\ messages' = messages
  <2>1. "posted" # "handler"
    OBVIOUS
  <2>2. Keeps(RequestsHandled, RequestsHandled') /\ HandlersOnce(stack')
    BY <1>1, <1>2, <1>3, <2>1, HandlersPopped
  <2> QED
    BY <1>1, <1>3, <2>2, QuietRequests
<1>4. ASSUME NEW k \in DOMAIN messages[c], NEW f \in Frame, f.at = Top(c).at, f.n = Top(c).n,
             messages' = [messages EXCEPT ![c] = RemoveAt(messages[c], k)],
             Receive(c, messages[c][k], ReplaceTop(c, f))
      PROVE  RequestInv' /\ Service!Next
  <2>1. PICK n : n = messages[c][k]
    OBVIOUS
  <2>2. messages \in [Client -> Seq(CallNo)] /\ messages[c] \in Seq(CallNo)
    BY DEF TypeOK
  <2>3. ASSUME NEW e \in Client
        PROVE  /\ ToSet(messages'[e]) =
                    IF e = c THEN ToSet(messages[e]) \ {n} ELSE ToSet(messages[e])
               /\ Once(messages'[e])
    <3>1. Once(messages[e]) /\ Once(messages[c])
      BY <1>2 DEF PostedOnce
    <3>2. CASE e = c
      <4>1. messages'[e] = RemoveAt(messages[c], k)
        BY <1>4, <2>2, <3>2
      <4>2. /\ ToSet(RemoveAt(messages[c], k)) = ToSet(messages[c]) \ {messages[c][k]}
            /\ Once(RemoveAt(messages[c], k))
        BY <2>2, <3>1, Removed
      <4> QED
        BY <2>1, <3>2, <4>1, <4>2
    <3>3. CASE e # c
      <4>1. messages'[e] = messages[e]
        BY <1>4, <2>2, <3>3
      <4> QED
        BY <3>1, <3>3, <4>1
    <3> QED
      BY <3>2, <3>3
  <2>4. n \in ToSet(messages[c])
    BY <1>4, <2>1 DEF ToSet
  <2>5. n \in RequestsSent[c] /\ n \notin NumbersIn(toClient[c], Requests)
    BY <1>2, <2>4, Mapping DEF PostedApart
  <2>6. PostedOnce(messages') /\ QueuesOnce(toClient')
    BY <1>1, <1>2, <2>3 DEF PostedOnce
  <2>7. PostedApart(toClient', messages')
    <3> SUFFICES ASSUME NEW e \in Client, NEW x \in ToSet(messages'[e])
                 PROVE  x \notin NumbersIn(toClient[e], Requests)
      BY <1>1, Zenon DEF PostedApart
    <3>1. x \in ToSet(messages[e])
      BY <2>3
    <3> QED
      BY <1>2, <3>1 DEF PostedApart
  <2>8. ASSUME NEW e \in Client
        PROVE  /\ RequestsSent'[e] = IF e = c THEN RequestsSent[e] \ {n} ELSE RequestsSent[e]
               /\ RequestsAnswered'[e] = RequestsAnswered[e]
    <3>1. /\ RequestsSent[e] = NumbersIn(toClient[e], Requests) \union ToSet(messages[e])
          /\ RequestsSent'[e] = NumbersIn(toClient[e], Requests) \union ToSet(messages'[e])
          /\ RequestsAnswered[e] = NumbersIn(toClient[e], Answers)
          /\ RequestsAnswered'[e] = NumbersIn(toClient[e], Answers)
      BY <1>1, Mapping
    <3>2. ToSet(messages'[e]) = IF e = c THEN ToSet(messages[e]) \ {n} ELSE ToSet(messages[e])
      BY <2>3, Zenon
    <3>3. CASE e = c
      BY <2>5, <3>1, <3>2, <3>3
    <3>4. CASE e # c
      BY <3>1, <3>2, <3>4
    <3> QED
      BY <3>3, <3>4
  <2>9. Drops(RequestsSent, RequestsSent', c, n) /\ Keeps(RequestsAnswered, RequestsAnswered')
    BY <2>8 DEF Drops, Keeps
  <2>10. ReplaceTop(c, f) \in Seq(Frame) /\ Alike(stack[c], ReplaceTop(c, f))
    BY <1>1, <1>4, ReplaceTopTyped DEF Alike
  <2>11. Receive(c, n, ReplaceTop(c, f))
    BY <1>4, <2>1
  <2> QED
    BY <1>1, <2>5, <2>6, <2>7, <2>9, <2>10, <2>11, HandlerRequests
<1>5. \/ stack' = Pop(c) /\ messages' = messages
      \/ \E k \in DOMAIN messages[c] : \E f \in Frame :
           /\ f.at = Top(c).at /\ f.n = Top(c).n
           /\ messages' = [messages EXCEPT ![c] = RemoveAt(messages[c], k)]
           /\ Receive(c, messages[c][k], ReplaceTop(c, f))
  BY ProcessPostedCases
<1> QED
  BY <1>3, <1>4, <1>5

\* A handler is over, and answers a call.
LEMMA HandlerReturnsRequests ==
  ASSUME TypeOK, Known, RequestInv, NEW c \in Client, HandlerReturns(c)
  PROVE  RequestInv' /\ Service!Next
<1>1. PICK f : f = Top(c)
  OBVIOUS
<1>2. PICK n : n = f.n
  OBVIOUS
<1>3. PICK id : id = IF transaction[c] THEN transactionId[c] ELSE 0
  OBVIOUS
<1>4. /\ ~Idle(c) /\ f.at = "handler" /\ stack' = Pop(c) /\ calls' = calls
      /\ messages' = messages /\ deaths' = deaths
  BY <1>1 DEF HandlerReturns, In, Idle, asked, posted
<1>5. /\ HandlersOnce(stack) /\ PostedOnce(messages) /\ QueuesOnce(toClient)
      /\ PostedApart(toClient, messages) /\ PlacesInv
  BY QueuesParts DEF RequestInv
<1>6. /\ n \in RequestsHandled[c] /\ Drops(RequestsHandled, RequestsHandled', c, n)
      /\ HandlersOnce(stack')
  BY <1>1, <1>2, <1>4, <1>5, HandlersPopped
<1>7. n \in DOMAIN calls /\ n \in CallNo /\ calls[n].caller \in Client
  BY <1>6, NumbersAreCalls, Parties
<1>8. CASE /\ toClient' = toClient
           /\ ~(calls[n].kind # "send" /\ calls[n].caller \notin dead)
  <2>1. toClient' = toClient
    BY <1>8
  <2>2. QueuesInv'
    BY <1>4, <1>5, <1>6, <2>1, QueuesParts
  <2>3. ASSUME NEW e \in Client
        PROVE  /\ RequestsSent'[e] = RequestsSent[e]
               /\ RequestsAnswered'[e] = RequestsAnswered[e]
    BY <1>4, <2>1, Mapping
  <2>4. Keeps(RequestsSent, RequestsSent') /\ Keeps(RequestsAnswered, RequestsAnswered')
    BY <2>3 DEF Keeps
  <2>5. PlacesInv' /\ Service!Next
    BY <1>4, <1>5, <1>6, <1>8, <2>4, ReturnStep
  <2> QED
    BY <2>2, <2>5 DEF RequestInv
<1>9. ASSUME calls[n].kind # "send", calls[n].caller \notin dead,
             NEW m \in Message, m.n = n, Says(m) \in Answers,
             Appends(toClient, toClient', calls[n].caller, m)
      PROVE  RequestInv' /\ Service!Next
  <2>1. PICK d : d = calls[n].caller
    OBVIOUS
  <2>3. d \in Client
    BY <1>7, <2>1
  <2>4. Says(m) \in Answers /\ Says(m) \notin Requests
    BY <1>9, WhatIsSaid
  <2>5. Appends(toClient, toClient', d, m)
    BY <1>9, <2>1
  <2>6. ASSUME NEW e \in Client
        PROVE  /\ NumbersIn(toClient'[e], Requests) = NumbersIn(toClient[e], Requests)
               /\ NumbersIn(toClient'[e], Answers) =
                    IF e = d THEN NumbersIn(toClient[e], Answers) \union {n}
                    ELSE NumbersIn(toClient[e], Answers)
               /\ OnceIn(toClient'[e], Requests) /\ OnceIn(toClient'[e], Answers)
    <3>1. OnceIn(toClient[e], Requests) /\ OnceIn(toClient[e], Answers)
      BY <1>5 DEF QueuesOnce
    <3>2. n \notin NumbersIn(toClient[e], Answers)
      BY <1>5, <1>6, PlacesApart, Mapping
    <3>3. Enqueued(toClient, toClient', d, m, Requests)
      BY <1>9, <2>5, QueueAppended
    <3>4. Enqueued(toClient, toClient', d, m, Answers)
      BY <1>9, <2>5, QueueAppended
    <3>5. /\ NumbersIn(toClient'[e], Requests) = NumbersIn(toClient[e], Requests)
          /\ OnceIn(toClient'[e], Requests)
      BY <2>4, <3>1, <3>3 DEF Enqueued
    <3>6. /\ NumbersIn(toClient'[e], Answers) =
               IF e = d THEN NumbersIn(toClient[e], Answers) \union {n}
               ELSE NumbersIn(toClient[e], Answers)
          /\ OnceIn(toClient'[e], Answers)
      BY <1>9, <2>4, <3>1, <3>2, <3>4 DEF Enqueued
    <3> QED
      BY <3>5, <3>6
  <2>7. QueuesOnce(toClient') /\ PostedApart(toClient', messages')
    BY <1>4, <1>5, <2>6 DEF QueuesOnce, PostedApart
  <2>8. QueuesInv'
    BY <1>4, <1>5, <1>6, <2>7, QueuesParts
  <2>9. ASSUME NEW e \in Client
        PROVE  /\ RequestsSent'[e] = RequestsSent[e]
               /\ RequestsAnswered'[e] =
                    IF e = d THEN RequestsAnswered[e] \union {n} ELSE RequestsAnswered[e]
    <3>1. /\ RequestsSent[e] = NumbersIn(toClient[e], Requests) \union ToSet(messages[e])
          /\ RequestsSent'[e] = NumbersIn(toClient'[e], Requests) \union ToSet(messages[e])
          /\ RequestsAnswered[e] = NumbersIn(toClient[e], Answers)
          /\ RequestsAnswered'[e] = NumbersIn(toClient'[e], Answers)
      BY <1>4, Mapping
    <3> QED
      BY <2>6, <3>1
  <2>10. /\ Keeps(RequestsSent, RequestsSent')
         /\ Adds(RequestsAnswered, RequestsAnswered', calls[n].caller, n)
    BY <2>1, <2>9 DEF Keeps, Adds
  <2>11. PlacesInv' /\ Service!Next
    BY <1>4, <1>5, <1>6, <1>9, <2>10, ReturnStep
  <2> QED
    BY <2>8, <2>11 DEF RequestInv
<1>10. \/ toClient' = toClient /\ ~(calls[n].kind # "send" /\ calls[n].caller \notin dead)
       \/ /\ calls[n].kind # "send" /\ calls[n].caller \notin dead
          /\ \E m \in Message : /\ m.n = n /\ Says(m) \in Answers
                               /\ Appends(toClient, toClient', calls[n].caller, m)
  <2>1. id \in Nat
    BY <1>3 DEF TypeOK
  <2>2. calls[n].kind = "send" => toClient' = toClient
    BY <1>1, <1>2 DEF HandlerReturns
  <2>3. calls[n].kind # "send" =>
          IF id = 0 THEN Send(c, calls[n].caller, "DCOPReply", n, 0)
          ELSE Send(c, calls[n].caller, "DCOPReplyWait", n, id)
    BY <1>1, <1>2, <1>3 DEF HandlerReturns
  <2>4. ASSUME NEW op \in {"DCOPReply", "DCOPReplyWait"}, NEW tid \in Nat,
               Send(c, calls[n].caller, op, n, tid)
        PROVE  \/ toClient' = toClient /\ calls[n].caller \in dead
               \/ /\ calls[n].caller \notin dead
                  /\ \E m \in Message : /\ m.n = n /\ Says(m) \in Answers
                                       /\ Appends(toClient, toClient', calls[n].caller, m)
    <3>1. PICK m : m = [op |-> op, n |-> n, from |-> c, tid |-> tid]
      OBVIOUS
    <3>2. m \in Message /\ m.op = op /\ m.n = n
      BY <1>7, <3>1 DEF Message, Opcode
    <3>3. Says(m) \in Answers
      <4>1. m.op # "DCOPReplyFailed"
        BY <3>2
      <4> QED
        BY <3>2, <4>1, WhatIsSaid DEF Answers
    <3>4. op # "DCOPCall"
      OBVIOUS
    <3> QED
      BY <2>4, <3>1, <3>2, <3>3, <3>4, SendCases
  <2> QED
    BY <2>1, <2>2, <2>3, <2>4
<1> QED
  BY <1>8, <1>9, <1>10

\* Of two sequences, one after the other, what the numbers in them are.
LEMMA InBoth ==
  ASSUME NEW s \in Seq(Message), NEW t \in Seq(Message), NEW ops
  PROVE  /\ NumbersIn(s \o t, ops) = NumbersIn(s, ops) \union NumbersIn(t, ops)
         /\ OnceIn(s, ops) /\ OnceIn(t, ops)
            /\ (\A x \in NumbersIn(t, ops) : x \notin NumbersIn(s, ops)) => OnceIn(s \o t, ops)
<1> DEFINE a == s \o t
           l == Len(s)
           k == Len(t)
<1>1. /\ a \in Seq(Message) /\ Len(a) = l + k
      /\ \A i \in 1 .. l + k : a[i] = IF i <= l THEN s[i] ELSE t[i - l]
  BY ConcatProperties
<1>2. /\ l \in Nat /\ k \in Nat /\ DOMAIN s = 1 .. l /\ DOMAIN t = 1 .. k
      /\ DOMAIN a = 1 .. l + k
  BY <1>1, LenProperties
<1>3. ToSet(a) = ToSet(s) \union ToSet(t)
  BY OneAfterOther
<1> HIDE DEF a, l, k
<1>4. NumbersIn(a, ops) = NumbersIn(s, ops) \union NumbersIn(t, ops)
  <2>1. /\ NumbersIn(a, ops) = {m.n : m \in {x \in ToSet(a) : Says(x) \in ops}}
        /\ NumbersIn(s, ops) = {m.n : m \in {x \in ToSet(s) : Says(x) \in ops}}
        /\ NumbersIn(t, ops) = {m.n : m \in {x \in ToSet(t) : Says(x) \in ops}}
    BY NumbersOf
  <2> QED
    BY <1>3, <2>1
<1>5. ASSUME NEW i \in DOMAIN a
      PROVE  \/ i \in DOMAIN s /\ a[i] = s[i]
             \/ i - l \in DOMAIN t /\ a[i] = t[i - l] /\ i \in Int
  BY <1>1, <1>2
<1>6. \A i \in DOMAIN s : Says(s[i]) \in ops => s[i].n \in NumbersIn(s, ops)
  BY DEF NumbersIn
<1>7. \A i \in DOMAIN t : Says(t[i]) \in ops => t[i].n \in NumbersIn(t, ops)
  BY DEF NumbersIn
<1>8. ASSUME OnceIn(s, ops), OnceIn(t, ops),
             \A x \in NumbersIn(t, ops) : x \notin NumbersIn(s, ops),
             NEW i \in DOMAIN a, NEW j \in DOMAIN a,
             Says(a[i]) \in ops, Says(a[j]) \in ops, a[i].n = a[j].n
      PROVE  i = j
  <2>1. CASE i \in DOMAIN s /\ a[i] = s[i]
    <3>1. a[i].n \in NumbersIn(s, ops)
      BY <1>6, <1>8, <2>1, Zenon
    <3>2. j \in DOMAIN s /\ a[j] = s[j]
      BY <1>5, <1>7, <1>8, <3>1, Zenon
    <3> QED
      BY <1>8, <2>1, <3>2, Zenon DEF OnceIn
  <2>2. CASE i - l \in DOMAIN t /\ a[i] = t[i - l] /\ i \in Int
    <3>1. a[i].n \in NumbersIn(t, ops)
      BY <1>7, <1>8, <2>2, Zenon
    <3>2. j - l \in DOMAIN t /\ a[j] = t[j - l] /\ j \in Int
      BY <1>5, <1>6, <1>8, <3>1, Zenon
    <3>3. i - l = j - l
      BY <1>8, <2>2, <3>2, Zenon DEF OnceIn
    <3> QED
      BY <1>2, <2>2, <3>2, <3>3
  <2> QED
    BY <1>5, <2>1, <2>2, Zenon
<1> QED
  BY <1>4, <1>8, Zenon DEF OnceIn, a

\* One failure for each call in S.
LEMMA FailuresOnce ==
  ASSUME NEW c \in Client, NEW S, S \subseteq CallNo, NEW k \in {0, 1},
         NEW s, s = SetToSeq(FailuresOf(c, S, k)), NEW ops
  PROVE  /\ s \in Seq(Message) /\ OnceIn(s, ops)
         /\ "DCOPReplyFailed" \notin ops /\ "DCOPReply" \notin ops => NumbersIn(s, ops) = {}
         /\ "DCOPReplyFailed" \notin ops /\ "DCOPReply" \in ops =>
              NumbersIn(s, ops) = IF k = 0 THEN S ELSE {}
<1> DEFINE F == FailuresOf(c, S, k)
<1>1. IsFiniteSet(F) /\ F \subseteq Message
  BY FailuresFinite
<1>2. /\ \A x \in F : x \in Message /\ x.op = "DCOPReplyFailed" /\ x.tid = k /\ x.n \in S
      /\ \A x, y \in F : x.n = y.n => x = y
      /\ \A n \in S : \E x \in F : x.n = n
  <2>1. \A x \in F : \E n \in S : x = Failure(c, n, k)
    BY DEF FailuresOf
  <2>2. \A n \in S : Failure(c, n, k) \in F
    BY DEF FailuresOf
  <2>3. \A n \in S : /\ Failure(c, n, k) \in Message /\ Failure(c, n, k).n = n
                     /\ Failure(c, n, k).op = "DCOPReplyFailed" /\ Failure(c, n, k).tid = k
    BY FailureIs
  <2> HIDE DEF F
  <2> QED
    BY <2>1, <2>2, <2>3
<1>3. \A x \in F : Says(x) = IF k = 0 THEN "DCOPReply" ELSE "DCOPReplyFailed"
  BY <1>2, WhatIsSaid
<1> HIDE DEF F
<1>4. s \in Seq(F) /\ (\A i, j \in DOMAIN s : s[i] = s[j] => i = j) /\ ToSet(s) = F
  BY <1>1, SeqOfSet DEF F
<1>5. s \in Seq(Message)
  BY <1>1, <1>4, LenProperties, IsASeq
<1>6. OnceIn(s, ops)
  BY <1>2, <1>4 DEF OnceIn, ToSet
<1>7. NumbersIn(s, ops) = {m.n : m \in {x \in F : Says(x) \in ops}}
  BY <1>4, NumbersOf, Zenon
<1>8. ASSUME \A x \in F : Says(x) \notin ops PROVE NumbersIn(s, ops) = {}
  BY <1>7, <1>8
<1>9. ASSUME \A x \in F : Says(x) \in ops PROVE NumbersIn(s, ops) = S
  BY <1>2, <1>7, <1>9
<1> QED
  BY <1>3, <1>5, <1>6, <1>8, <1>9

LEMMA FailuresAnswer ==
  ASSUME TypeOK, Known, NEW c \in Client, NEW e \in Client
  PROVE  /\ NumbersIn(Failures(c, e), Requests) = {} /\ OnceIn(Failures(c, e), Requests)
         /\ NumbersIn(Failures(c, e), Answers) = Unanswered(c, e)
         /\ OnceIn(Failures(c, e), Answers)
<1>1. /\ Unanswered(c, e) \subseteq CallNo /\ Unkept(c, e) \subseteq CallNo
      /\ Failures(c, e) = SetToSeq(FailuresOf(c, Unanswered(c, e), 0))
                          \o SetToSeq(FailuresOf(c, Unkept(c, e), 1))
  BY FailuresTyped
<1>2. PICK s : s = SetToSeq(FailuresOf(c, Unanswered(c, e), 0))
  OBVIOUS
<1>3. PICK t : t = SetToSeq(FailuresOf(c, Unkept(c, e), 1))
  OBVIOUS
<1>4. /\ s \in Seq(Message) /\ OnceIn(s, Requests) /\ OnceIn(s, Answers)
      /\ NumbersIn(s, Requests) = {} /\ NumbersIn(s, Answers) = Unanswered(c, e)
  <2>1. PICK k \in {0, 1} : k = 0
    OBVIOUS
  <2>2. s = SetToSeq(FailuresOf(c, Unanswered(c, e), k))
    BY <1>2, <2>1
  <2>3. s \in Seq(Message) /\ OnceIn(s, Requests) /\ NumbersIn(s, Requests) = {}
    <3>1. "DCOPReplyFailed" \notin Requests /\ "DCOPReply" \notin Requests
      BY DEF Requests
    <3> QED
      BY <1>1, <2>2, <3>1, FailuresOnce
  <2>4. OnceIn(s, Answers) /\ NumbersIn(s, Answers) = Unanswered(c, e)
    <3>1. "DCOPReplyFailed" \notin Answers /\ "DCOPReply" \in Answers
      BY DEF Answers
    <3>2. /\ OnceIn(s, Answers)
          /\ NumbersIn(s, Answers) = IF k = 0 THEN Unanswered(c, e) ELSE {}
      BY <1>1, <2>2, <3>1, FailuresOnce
    <3> QED
      BY <2>1, <3>2
  <2> QED
    BY <2>3, <2>4
<1>5. /\ t \in Seq(Message) /\ OnceIn(t, Requests) /\ OnceIn(t, Answers)
      /\ NumbersIn(t, Requests) = {} /\ NumbersIn(t, Answers) = {}
  <2>1. PICK k \in {0, 1} : k = 1
    OBVIOUS
  <2>2. t = SetToSeq(FailuresOf(c, Unkept(c, e), k))
    BY <1>3, <2>1
  <2>3. t \in Seq(Message) /\ OnceIn(t, Requests) /\ NumbersIn(t, Requests) = {}
    <3>1. "DCOPReplyFailed" \notin Requests /\ "DCOPReply" \notin Requests
      BY DEF Requests
    <3> QED
      BY <1>1, <2>2, <3>1, FailuresOnce
  <2>4. OnceIn(t, Answers) /\ NumbersIn(t, Answers) = {}
    <3>1. "DCOPReplyFailed" \notin Answers /\ "DCOPReply" \in Answers
      BY DEF Answers
    <3>2. OnceIn(t, Answers) /\ NumbersIn(t, Answers) = IF k = 0 THEN Unkept(c, e) ELSE {}
      BY <1>1, <2>2, <3>1, FailuresOnce
    <3> QED
      BY <2>1, <3>2
  <2> QED
    BY <2>3, <2>4
<1>6. /\ NumbersIn(s \o t, Requests) = {} /\ OnceIn(s \o t, Requests)
      /\ NumbersIn(s \o t, Answers) = Unanswered(c, e) /\ OnceIn(s \o t, Answers)
  <2>1. /\ NumbersIn(s \o t, Requests) = NumbersIn(s, Requests) \union NumbersIn(t, Requests)
        /\ OnceIn(s, Requests) /\ OnceIn(t, Requests)
           /\ (\A x \in NumbersIn(t, Requests) : x \notin NumbersIn(s, Requests)) =>
             OnceIn(s \o t, Requests)
    BY <1>4, <1>5, InBoth, Zenon
  <2>2. /\ NumbersIn(s \o t, Answers) = NumbersIn(s, Answers) \union NumbersIn(t, Answers)
        /\ OnceIn(s, Answers) /\ OnceIn(t, Answers)
           /\ (\A x \in NumbersIn(t, Answers) : x \notin NumbersIn(s, Answers)) =>
             OnceIn(s \o t, Answers)
    BY <1>4, <1>5, InBoth, Zenon
  <2> QED
    BY <1>4, <1>5, <2>1, <2>2
<1> QED
  BY <1>1, <1>2, <1>3, <1>6, Zenon

\* A client dies.
LEMMA DieRequests ==
  ASSUME TypeOK, Known, MessagesFit, RequestInv, NEW c \in Client, Die(c)
  PROVE  RequestInv' /\ Service!Next
<1>1. /\ calls' = calls /\ dead' = dead \union {c}
      /\ \A e \in Client : /\ stack'[e] = IF e = c THEN << >> ELSE stack[e]
                           /\ messages'[e] = IF e = c THEN << >> ELSE messages[e]
                           /\ toClient'[e] =
                                IF e \in dead' THEN << >> ELSE toClient[e] \o Failures(c, e)
  BY DEF Die, asked, TypeOK
<1>2. /\ HandlersOnce(stack) /\ PostedOnce(messages) /\ QueuesOnce(toClient)
      /\ PostedApart(toClient, messages) /\ PlacesInv
  BY QueuesParts DEF RequestInv
<1>3. /\ DOMAIN << >> = {} /\ ToSet(<< >>) = {} /\ Numbers(<< >>, "handler") = {}
      /\ NumbersIn(<< >>, Requests) = {} /\ NumbersIn(<< >>, Answers) = {}
      /\ OnceIn(<< >>, Requests) /\ OnceIn(<< >>, Answers)
      /\ Once(<< >>) /\ OnceAt(<< >>, "handler")
  <2>1. DOMAIN << >> = {}
    BY EmptySeq
  <2> QED
    BY <2>1 DEF ToSet, Numbers, NumbersIn, OnceIn, Once, OnceAt
<1>4. ASSUME NEW e \in Client
      PROVE  Unanswered(c, e) = {n \in RequestsSent[c] \union RequestsHandled[c] :
                                 calls[n].kind # "send" /\ calls[n].caller = e}
  <2>1. ASSUME NEW n, calls[n].kind # "send"
        PROVE  n \in Queued(c, {"DCOPCall", "DCOPSend"}) <=> n \in Queued(c, {"DCOPCall"})
    <3>1. \A m \in ToSet(toClient[c]) : m.n = n => m.op # "DCOPSend"
      BY <2>1 DEF MessagesFit, Fits
    <3> QED
      BY <3>1 DEF Queued
  <2>2. /\ RequestsSent[c] = Queued(c, {"DCOPCall", "DCOPSend"}) \union ToSet(messages[c])
        /\ RequestsHandled[c] = HandledBy(c)
    BY DEF RequestsSent, RequestsHandled
  <2>3. ASSUME NEW n, calls[n].kind # "send"
        PROVE  n \in Queued(c, {"DCOPCall"}) \union ToSet(messages[c]) \union HandledBy(c)
               <=> n \in RequestsSent[c] \union RequestsHandled[c]
    BY <2>1, <2>2, <2>3
  <2> QED
    BY <2>3 DEF Unanswered, waitingForReply
<1>5. ASSUME NEW e \in Client
      PROVE  /\ NumbersIn(toClient'[e], Requests) =
                  IF e \in dead' THEN {} ELSE NumbersIn(toClient[e], Requests)
             /\ NumbersIn(toClient'[e], Answers) =
                  IF e \in dead' THEN {} ELSE NumbersIn(toClient[e], Answers) \union Unanswered(c, e)
             /\ OnceIn(toClient'[e], Requests) /\ OnceIn(toClient'[e], Answers)
  <2>1. CASE e \in dead'
    <3>1. toClient'[e] = << >>
      BY <1>1, <2>1
    <3> QED
      BY <1>3, <2>1, <3>1
  <2>2. CASE e \notin dead'
    <3>1. toClient'[e] = toClient[e] \o Failures(c, e)
      BY <1>1, <2>2
    <3>2. /\ toClient[e] \in Seq(Message) /\ Failures(c, e) \in Seq(Message)
          /\ OnceIn(toClient[e], Requests) /\ OnceIn(toClient[e], Answers)
      BY <1>2, FailuresTyped DEF QueuesOnce, TypeOK
    <3>3. /\ NumbersIn(Failures(c, e), Requests) = {} /\ OnceIn(Failures(c, e), Requests)
          /\ NumbersIn(Failures(c, e), Answers) = Unanswered(c, e)
          /\ OnceIn(Failures(c, e), Answers)
      BY FailuresAnswer
    <3>4. ASSUME NEW n \in Unanswered(c, e) PROVE n \notin NumbersIn(toClient[e], Answers)
      <4>1. n \in RequestsSent[c] \/ n \in RequestsHandled[c]
        BY <1>4
      <4>2. n \notin RequestsAnswered[e]
        BY <1>2, <4>1, PlacesApart
      <4> QED
        BY <4>2, Mapping
    <3>5. /\ NumbersIn(toClient[e] \o Failures(c, e), Requests) = NumbersIn(toClient[e], Requests)
          /\ OnceIn(toClient[e] \o Failures(c, e), Requests)
      <4>1. /\ NumbersIn(toClient[e] \o Failures(c, e), Requests) =
                 NumbersIn(toClient[e], Requests) \union NumbersIn(Failures(c, e), Requests)
            /\ OnceIn(toClient[e], Requests) /\ OnceIn(Failures(c, e), Requests)
               /\ (\A x \in NumbersIn(Failures(c, e), Requests) :
                    x \notin NumbersIn(toClient[e], Requests)) =>
                 OnceIn(toClient[e] \o Failures(c, e), Requests)
        BY <3>2, InBoth, Zenon
      <4> QED
        BY <3>2, <3>3, <4>1
    <3>6. /\ NumbersIn(toClient[e] \o Failures(c, e), Answers) =
               NumbersIn(toClient[e], Answers) \union Unanswered(c, e)
          /\ OnceIn(toClient[e] \o Failures(c, e), Answers)
      BY <3>2, <3>3, <3>4, InBoth
    <3> QED
      BY <2>2, <3>1, <3>5, <3>6
  <2> QED
    BY <2>1, <2>2
<1>6. ASSUME NEW e \in Client
      PROVE  /\ RequestsSent'[e] = IF e = c THEN {} ELSE RequestsSent[e]
             /\ RequestsHandled'[e] = IF e = c THEN {} ELSE RequestsHandled[e]
             /\ RequestsAnswered'[e] =
                  IF e \in dead' THEN {} ELSE RequestsAnswered[e] \union Unanswered(c, e)
  <2>1. /\ RequestsSent[e] = NumbersIn(toClient[e], Requests) \union ToSet(messages[e])
        /\ RequestsSent'[e] = NumbersIn(toClient'[e], Requests) \union ToSet(messages'[e])
        /\ RequestsAnswered[e] = NumbersIn(toClient[e], Answers)
        /\ RequestsAnswered'[e] = NumbersIn(toClient'[e], Answers)
        /\ RequestsHandled[e] = Numbers(stack[e], "handler")
        /\ RequestsHandled'[e] = Numbers(stack'[e], "handler")
    BY Mapping DEF Handled
  <2>2. RequestsHandled'[e] = IF e = c THEN {} ELSE RequestsHandled[e]
    BY <1>1, <1>3, <2>1
  <2>3. RequestsAnswered'[e] =
          IF e \in dead' THEN {} ELSE RequestsAnswered[e] \union Unanswered(c, e)
    BY <1>5, <2>1
  <2>4. CASE e = c
    <3>1. e \in dead' /\ ToSet(messages'[e]) = {}
      BY <1>1, <1>3, <2>4
    <3> QED
      BY <1>5, <2>1, <2>2, <2>3, <2>4, <3>1
  <2>5. CASE e # c /\ e \in dead
    <3>1. RequestsSent[e] = {}
      BY <1>2, <2>5 DEF PlacesInv
    <3>2. e \in dead' /\ messages'[e] = messages[e]
      BY <1>1, <2>5
    <3> QED
      BY <1>5, <2>1, <2>2, <2>3, <2>5, <3>1, <3>2
  <2>6. CASE e # c /\ e \notin dead
    <3>1. e \notin dead' /\ messages'[e] = messages[e]
      BY <1>1, <2>6
    <3> QED
      BY <1>5, <2>1, <2>2, <2>3, <2>6, <3>1
  <2> QED
    BY <2>4, <2>5, <2>6
<1>7. PlacesInv' /\ Service!Next
  BY <1>1, <1>2, <1>4, <1>6, DieStep
<1>8. HandlersOnce(stack') /\ PostedOnce(messages')
  BY <1>1, <1>2, <1>3 DEF HandlersOnce, PostedOnce
<1>9. QueuesOnce(toClient')
  BY <1>5 DEF QueuesOnce
<1>10. PostedApart(toClient', messages')
  <2> SUFFICES ASSUME NEW e \in Client, NEW n \in ToSet(messages'[e])
               PROVE  n \notin NumbersIn(toClient'[e], Requests)
    BY Zenon DEF PostedApart
  <2>1. n \in ToSet(messages[e])
    BY <1>1, <1>3
  <2>2. n \notin NumbersIn(toClient[e], Requests)
    BY <1>2, <2>1 DEF PostedApart
  <2> QED
    BY <1>5, <2>2
<1> QED
  BY <1>7, <1>8, <1>9, <1>10, QueuesParts DEF RequestInv

LEMMA InitRequests == Init => RequestInv /\ Service!Init
<1> SUFFICES ASSUME Init PROVE RequestInv /\ Service!Init
  OBVIOUS
<1>1. /\ calls = << >> /\ \A c \in Client : stack[c] = << >> /\ toClient[c] = << >>
      /\ dead = {} /\ \A c \in Client : messages[c] = << >>
  BY DEF Init
<1>2. DOMAIN << >> = {}
  OBVIOUS
<1>3. ASSUME NEW c \in Client
      PROVE  /\ ToSet(messages[c]) = {}
             /\ NumbersIn(toClient[c], Requests) = {} /\ NumbersIn(toClient[c], Answers) = {}
             /\ Handled(c) = {}
             /\ OnceIn(toClient[c], Requests) /\ OnceIn(toClient[c], Answers)
             /\ Once(messages[c]) /\ OnceAt(stack[c], "handler")
  BY <1>1, <1>2 DEF ToSet, NumbersIn, Handled, Numbers, OnceIn, Once, OnceAt
<1>4. ASSUME NEW c \in Client
      PROVE  RequestsSent[c] = {} /\ RequestsHandled[c] = {} /\ RequestsAnswered[c] = {}
  BY <1>3, Mapping
<1>5. RequestInv
  BY <1>3, <1>4 DEF RequestInv, QueuesInv, PlacesInv
<1>6. RequestsMade = << >>
  BY <1>1, <1>2 DEF RequestsMade
<1>7. /\ RequestsSent = [c \in Client |-> {}] /\ RequestsHandled = [c \in Client |-> {}]
      /\ RequestsAnswered = [c \in Client |-> {}]
  BY <1>4, Mapped DEF OnClients
<1> QED
  BY <1>1, <1>5, <1>6, <1>7 DEF Service!Init, Service!Nothing

LEMMA IdleRequests ==
  ASSUME RequestInv, UNCHANGED vars
  PROVE  RequestInv' /\ UNCHANGED Service!vars
<1>1. /\ stack' = stack /\ toClient' = toClient /\ messages' = messages /\ calls' = calls
      /\ deaths' = deaths
  BY DEF vars, asked, posted
<1>2. HandlersOnce(stack)
  BY QueuesParts DEF RequestInv
<1>3. Keeps(RequestsHandled, RequestsHandled') /\ HandlersOnce(stack')
  BY <1>1, <1>2, HandlersStay
<1> QED
  BY <1>1, <1>3, QuietRequests

LEMMA StepRequests ==
  ASSUME TypeOK, Known, MessagesFit, RequestInv, [Next]_vars
  PROVE  RequestInv' /\ [Service!Next]_(Service!vars)
<1>1. CASE UNCHANGED vars
  BY <1>1, IdleRequests
<1>2. ASSUME NEW c \in Client \ dead,
             \/ \E d \in Client : send(c, d) \/ \E kind \in Kinds : call(c, d, kind)
             \/ Read(c) \/ Return(c) \/ TimeOut(c)
             \/ processPostedMessages(c) \/ ProcessPosted(c)
             \/ beginTransaction(c) \/ HandlerReturns(c)
             \/ \E t \in transactionList[c] : endTransaction(c, t)
             \/ Die(c)
      PROVE  RequestInv' /\ [Service!Next]_(Service!vars)
  <2>1. ASSUME NEW d \in Client, send(c, d) PROVE RequestInv' /\ Service!Next
    BY <2>1, SendRequests
  <2>2. ASSUME NEW d \in Client, NEW kind \in Kinds, call(c, d, kind)
        PROVE  RequestInv' /\ Service!Next
    BY <2>2, CallRequests
  <2>3. ASSUME NEW t \in transactionList[c], endTransaction(c, t)
        PROVE  RequestInv' /\ UNCHANGED Service!vars
    BY <2>3, EndRequests
  <2>4. ASSUME Read(c) \/ ProcessPosted(c) PROVE RequestInv' /\ [Service!Next]_(Service!vars)
    BY <2>4, ReadRequests, PostedRequests
  <2>5. ASSUME Return(c) \/ TimeOut(c) \/ processPostedMessages(c) \/ beginTransaction(c)
        PROVE  RequestInv' /\ UNCHANGED Service!vars
    BY <2>5, LeaveRequests, TimerRequests, BeginRequests
  <2>6. ASSUME HandlerReturns(c) PROVE RequestInv' /\ Service!Next
    BY <2>6, HandlerReturnsRequests
  <2>7. ASSUME Die(c) PROVE RequestInv' /\ Service!Next
    BY <2>7, DieRequests
  <2> QED
    BY <1>2, <2>1, <2>2, <2>3, <2>4, <2>5, <2>6, <2>7
<1> QED
  BY <1>1, <1>2 DEF Next

\* A client handles every request that it is sent once and answers every call once, to
\* its caller, if the two live; a call whose callee dies first is failed, once.  Posting,
\* handlers inside calls, calls inside handlers, delayed answers, timeouts and the deaths
\* of callers and callees neither lose a request or its first answer nor repeat one.  This
\* holds for every program: nothing is assumed of what its handlers do, but by
\* DeathAssumption if clients may die.
THEOREM ClientServesRequests == Spec => ImplementsRequestService
<1>1. Init => TypeOK /\ Known /\ MessagesFit /\ RequestInv /\ Service!Init
  BY InitTyped, InitFits, InitRequests
<1>2. TypeOK /\ Known /\ MessagesFit /\ RequestInv /\ [Next]_vars =>
        TypeOK' /\ Known' /\ MessagesFit' /\ RequestInv' /\ [Service!Next]_(Service!vars)
  BY StepTyped, StepKeepsFits, StepRequests
<1> QED
  BY <1>1, <1>2, PTL DEF Spec, ImplementsRequestService, Service!Spec
=============================================================================
