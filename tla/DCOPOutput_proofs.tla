-------------------------- MODULE DCOPOutput_proofs --------------------------
(* The stream of a client is intact, for messages, buffers and queues of    *)
(* any size, when the kernel takes a header whole or not at all.            *)
EXTENDS DCOPOutput, TLAPS

Whole == ~SplitsHeaders

\* Pieces are intervals that follow one another.
Chain(s, first, last) ==
  /\ \A i \in 1..Len(s) : s[i].lo <= s[i].hi
  /\ \A i \in 1..(Len(s) - 1) : s[i].hi = s[i + 1].lo
  /\ s[1].lo = first /\ s[Len(s)].hi = last

\* The queue holds what is written and not taken; after a failed write nothing
\* is queued any more.
QueueInv ==
  /\ ~io_ok => outputBuffer = <<>>
  /\ io_ok /\ outputBuffer = <<>> => taken = produced
  /\ outputBuffer # <<>> =>
       /\ Chain(outputBuffer, taken - outputBufferStart, produced)
       /\ outputBufferStart <= Size(outputBuffer[1])

IInv == TypeOK /\ BlockedWhileQueued /\ QueueInv /\ intact

-----------------------------------------------------------------------------
\* A piece that begins where the chain ends extends it.
LEMMA ChainAppend ==
  ASSUME NEW s \in Seq(Piece), s # <<>>, NEW p \in Piece, p.lo <= p.hi,
         NEW f, Chain(s, f, p.lo)
  PROVE  /\ Append(s, p) \in Seq(Piece) /\ Append(s, p) # <<>>
         /\ Append(s, p)[1] = s[1]
         /\ Chain(Append(s, p), f, p.hi)
<1> DEFINE t == Append(s, p)
<1>1. /\ t \in Seq(Piece) /\ Len(t) = Len(s) + 1 /\ Len(s) \in Nat \ {0}
      /\ \A i \in 1..Len(s) : t[i] = s[i]
      /\ t[Len(s) + 1] = p
  OBVIOUS
<1> HIDE DEF t
<1>2. \A i \in 1..Len(t) : t[i].lo <= t[i].hi
  BY <1>1 DEF Chain
<1>3. ASSUME NEW i \in 1..(Len(t) - 1) PROVE t[i].hi = t[i + 1].lo
  <2>1. CASE i = Len(s)
    BY <1>1, <2>1 DEF Chain
  <2>2. CASE i # Len(s)
    <3>1. i \in 1..(Len(s) - 1) /\ i \in 1..Len(s) /\ i + 1 \in 1..Len(s)
      BY <1>1, <2>2
    <3> QED
      BY <1>1, <3>1 DEF Chain
  <2> QED
    BY <2>1, <2>2
<1>4. t[1] = s[1] /\ t[Len(t)] = p
  BY <1>1
<1>5. t # <<>>
  BY <1>1
<1>6. Chain(t, f, p.hi)
  BY <1>2, <1>3, <1>4 DEF Chain
<1> QED
  BY <1>1, <1>4, <1>5, <1>6 DEF t

\* One piece is a chain.
LEMMA ChainOne ==
  ASSUME NEW p \in Piece, p.lo <= p.hi
  PROVE  /\ Append(<<>>, p) \in Seq(Piece) /\ Append(<<>>, p) # <<>>
         /\ Append(<<>>, p)[1] = p
         /\ Chain(Append(<<>>, p), p.lo, p.hi)
BY DEF Chain

\* Without its first piece a chain begins where that piece ends.
LEMMA ChainTail ==
  ASSUME NEW s \in Seq(Piece), s # <<>>, NEW f, NEW l, Chain(s, f, l)
  PROVE  /\ Tail(s) \in Seq(Piece) /\ s[1] \in Piece /\ s[1].lo <= s[1].hi
         /\ Tail(s) = <<>> => s[1].hi = l
         /\ Tail(s) # <<>> => /\ Chain(Tail(s), s[1].hi, l)
                              /\ Tail(s)[1] \in Piece /\ Tail(s)[1].lo <= Tail(s)[1].hi
<1> DEFINE t == Tail(s)
<1>0. /\ t \in Seq(Piece) /\ Len(s) \in Nat \ {0} /\ Len(t) = Len(s) - 1
      /\ \A i \in 1..Len(t) : t[i] = s[i + 1]
      /\ \A i \in 1..Len(s) : s[i] \in Piece
  OBVIOUS
<1>1. /\ t \in Seq(Piece) /\ Len(s) \in Nat \ {0} /\ Len(t) = Len(s) - 1
      /\ \A i \in 1..Len(t) : t[i] = s[i + 1]
      /\ \A i \in 1..Len(s) : s[i] \in Piece
      /\ t = <<>> => Len(t) = 0
      /\ Len(t) = 0 => t = <<>>
  <2> HIDE DEF t
  <2> QED
    BY <1>0
<1> HIDE DEF t
<1>2. s[1] \in Piece /\ s[1].lo <= s[1].hi
  BY <1>1 DEF Chain
<1>3. ASSUME t = <<>> PROVE s[1].hi = l
  <2>1. Len(s) = 1
    BY <1>1, <1>3
  <2> QED
    BY <2>1 DEF Chain
<1>4. ASSUME t # <<>>
      PROVE  Chain(t, s[1].hi, l) /\ t[1] \in Piece /\ t[1].lo <= t[1].hi
  <2>1. Len(t) \in Nat \ {0}
    BY <1>1, <1>4
  <2>2. \A i \in 1..Len(t) : t[i].lo <= t[i].hi
    BY <1>1, <2>1 DEF Chain
  <2>3. ASSUME NEW i \in 1..(Len(t) - 1) PROVE t[i].hi = t[i + 1].lo
    <3>1. /\ i \in 1..Len(t) /\ i + 1 \in 1..Len(t)
          /\ i + 1 \in 1..(Len(s) - 1)
      BY <1>1, <2>1
    <3> QED
      BY <1>1, <3>1 DEF Chain
  <2>4. t[1].lo = s[1].hi /\ t[Len(t)].hi = l
    BY <1>1, <2>1 DEF Chain
  <2>5. t[1] \in Piece /\ t[1].lo <= t[1].hi
    BY <1>1, <2>1, <2>2
  <2> QED
    BY <2>2, <2>3, <2>4, <2>5 DEF Chain
<1> QED
  BY <1>1, <1>2, <1>3, <1>4 DEF t

-----------------------------------------------------------------------------
LEMMA InitOutput == Init => IInv
<1> SUFFICES ASSUME Init PROVE IInv
  OBVIOUS
<1>1. TypeOK /\ intact
  <2>1. /\ produced \in Nat /\ outputBuffer \in Seq(Piece) /\ outputBufferStart \in Nat
        /\ taken \in Nat /\ unread \in 0..SocketBuffer
    BY SizesAssumption DEF Init
  <2>2. /\ sending \in BOOLEAN /\ outputBlocked \in BOOLEAN /\ notifier \in BOOLEAN
        /\ intact \in BOOLEAN /\ intact /\ broken \in BOOLEAN /\ io_ok \in BOOLEAN
        /\ dead \in BOOLEAN /\ closed \in BOOLEAN
    BY Zenon DEF Init
  <2> QED
    BY <2>1, <2>2 DEF TypeOK
<1>2. BlockedWhileQueued
  BY DEF Init, BlockedWhileQueued
<1>3. QueueInv
  BY DEF Init, QueueInv
<1> QED
  BY <1>1, <1>2, <1>3 DEF IInv

\* A write while output is blocked adds a piece at the end of the queue.
LEMMA WriteBlocked ==
  ASSUME IInv, outputBlocked, NEW n \in Nat, NEW w, NEW p, NEW start,
         Write(n, w, p, start), sending' \in BOOLEAN
  PROVE  IInv'
<1> DEFINE q == [lo |-> produced, hi |-> produced + n]
<1>1. /\ outputBuffer \in Seq(Piece) /\ outputBuffer # <<>>
      /\ Chain(outputBuffer, taken - outputBufferStart, produced)
      /\ produced \in Nat /\ io_ok
  BY DEF IInv, TypeOK, BlockedWhileQueued, QueueInv
<1>2. q \in Piece /\ q.lo <= q.hi /\ q.lo = produced /\ q.hi = produced + n
  BY <1>1 DEF Piece
<1>3. /\ produced' = produced + n /\ outputBuffer' = Append(outputBuffer, q)
      /\ UNCHANGED <<outputBlocked, outputBufferStart, notifier, socketVars, endVars>>
  BY DEF Write
<1> HIDE DEF q
<1>4. /\ outputBuffer' \in Seq(Piece) /\ outputBuffer' # <<>>
      /\ outputBuffer'[1] = outputBuffer[1]
      /\ Chain(outputBuffer', taken - outputBufferStart, produced + n)
  BY <1>1, <1>2, <1>3, ChainAppend
<1>5. TypeOK'
  BY <1>1, <1>3, <1>4 DEF IInv, TypeOK, socketVars, endVars
<1>6. BlockedWhileQueued'
  BY <1>1, <1>3, <1>4 DEF IInv, BlockedWhileQueued
<1>7. QueueInv'
  BY <1>1, <1>3, <1>4 DEF IInv, QueueInv, BlockedWhileQueued, socketVars, endVars
<1> QED
  BY <1>3, <1>5, <1>6, <1>7 DEF IInv, socketVars

\* A write while it is not: what the socket does not take becomes the queue.
LEMMA WriteUnblocked ==
  ASSUME IInv, ~outputBlocked, NEW n \in Nat, NEW w \in 0..n, w <= Room,
         NEW p \in Piece, NEW start \in Nat,
         w < n => /\ p.lo + start = produced + w /\ p.hi = produced + n
                  /\ start <= Size(p),
         Write(n, w, p, start), sending' \in BOOLEAN
  PROVE  IInv'
<1>1. /\ produced \in Nat /\ taken \in Nat /\ unread \in 0..SocketBuffer
      /\ outputBuffer = <<>> /\ (io_ok => taken = produced)
      /\ p.lo \in Nat /\ p.hi \in Nat
      /\ produced' = produced + n
  BY DEF IInv, TypeOK, BlockedWhileQueued, QueueInv, Piece, Write
<1>2. CASE n > 0 /\ (broken \/ ~io_ok)
  <2>1. /\ io_ok' = FALSE /\ dead' = (dead \/ io_ok)
        /\ UNCHANGED <<queueVars, socketVars, broken, closed>>
    BY <1>2 DEF Write, WriteFails
  <2>2. TypeOK'
    <3>1. dead' \in BOOLEAN /\ io_ok' \in BOOLEAN
      BY <2>1, Zenon
    <3>2. TypeOK
      BY DEF IInv
    <3> QED
      BY <1>1, <2>1, <3>1, <3>2 DEF TypeOK, queueVars, socketVars
  <2>3. BlockedWhileQueued' /\ QueueInv' /\ intact'
    BY <1>1, <2>1 DEF IInv, BlockedWhileQueued, QueueInv, queueVars, socketVars
  <2> QED
    BY <2>2, <2>3 DEF IInv
<1>3. CASE ~(n > 0 /\ (broken \/ ~io_ok))
  <2>1. /\ Take(produced, w) /\ UNCHANGED endVars
        /\ IF w < n THEN waitForOutputReady(p, start) ELSE UNCHANGED queueVars
    BY <1>3 DEF Write
  <2>2. /\ taken' = taken + w /\ taken' \in Nat
        /\ unread' \in 0..SocketBuffer /\ intact' = TRUE
    <3>1. w = 0 \/ produced = taken
      BY <1>1, <1>3
    <3>2. taken' = taken + w /\ unread' = unread + w
      BY <2>1 DEF Take
    <3>3. taken' \in Nat /\ unread' \in 0..SocketBuffer
      BY <1>1, <3>2, SizesAssumption DEF Room
    <3>4. intact' = TRUE
      BY <2>1, <3>1, Zenon DEF Take, IInv
    <3> QED
      BY <3>2, <3>3, <3>4
  <2>3. CASE w < n
    <3>1. io_ok /\ taken = produced
      BY <1>1, <1>3, <2>3
    <3>2. /\ outputBlocked' = TRUE /\ outputBuffer' = Append(<<>>, p)
          /\ outputBufferStart' = start /\ notifier' = TRUE
      BY <1>1, <2>1, <2>3 DEF waitForOutputReady
    <3>3. p.lo + start = produced + w /\ p.hi = produced + n /\ start <= Size(p)
      BY <2>3
    <3>4. p.lo <= p.hi
      BY <1>1, <3>3 DEF Size
    <3>5. /\ outputBuffer' \in Seq(Piece) /\ outputBuffer' # <<>>
          /\ outputBuffer'[1] = p /\ Chain(outputBuffer', p.lo, p.hi)
      BY <3>2, <3>4, ChainOne
    <3>6. TypeOK'
      BY <1>1, <2>1, <2>2, <3>2, <3>5 DEF IInv, TypeOK, endVars
    <3>7. BlockedWhileQueued'
      BY <3>2, <3>3, <3>5 DEF BlockedWhileQueued
    <3>8. taken' - outputBufferStart' = p.lo /\ produced' = p.hi
      BY <1>1, <2>2, <3>1, <3>2, <3>3
    <3>9. QueueInv'
      BY <2>1, <3>1, <3>2, <3>3, <3>5, <3>8 DEF QueueInv, endVars
    <3> QED
      BY <2>2, <3>6, <3>7, <3>9 DEF IInv
  <2>4. CASE w = n
    <3>1. UNCHANGED queueVars
      BY <2>1, <2>4
    <3>2. TypeOK'
      BY <1>1, <2>1, <2>2, <3>1 DEF IInv, TypeOK, queueVars, endVars
    <3>3. BlockedWhileQueued' /\ QueueInv'
      BY <1>1, <2>1, <2>2, <2>4, <3>1
      DEF IInv, BlockedWhileQueued, QueueInv, queueVars, endVars
    <3> QED
      BY <2>2, <3>2, <3>3 DEF IInv
  <2> QED
    BY <2>3, <2>4
<1> QED
  BY <1>2, <1>3

-----------------------------------------------------------------------------
\* A header is taken whole or not at all, so what is queued of it is all of it.
LEMMA StepSendHeader == ASSUME Whole, IInv, SendHeader PROVE IInv'
<1> DEFINE w == IF SplitsHeaders \/ Room >= HeaderLen THEN AtMost(HeaderLen, Room) ELSE 0
           p == [lo |-> produced, hi |-> produced + (HeaderLen - w)]
<1>1. Write(HeaderLen, w, p, 0) /\ sending' \in BOOLEAN
  <2>1. sending' = TRUE
    BY DEF SendHeader
  <2> QED
    BY <2>1 DEF SendHeader
<1>2. HeaderLen \in Nat \ {0} /\ Room \in Nat /\ produced \in Nat
  BY SizesAssumption DEF IInv, TypeOK, Room
<1>3. w = 0 \/ (w = HeaderLen /\ HeaderLen <= Room)
  <2>1. CASE Room >= HeaderLen
    BY <1>2, <2>1 DEF AtMost
  <2>2. CASE ~(Room >= HeaderLen)
    <3>1. ~(SplitsHeaders \/ Room >= HeaderLen)
      BY <2>2, Zenon DEF Whole
    <3>2. w = 0
      BY <3>1, Zenon
    <3> QED
      BY <3>2, Zenon
  <2> QED
    BY <2>1, <2>2
<1>4. p \in Piece /\ p.lo = produced /\ p.hi = produced + (HeaderLen - w)
  BY <1>2, <1>3 DEF Piece
<1> HIDE DEF w, p
<1>5. CASE outputBlocked
  BY <1>1, <1>2, <1>5, WriteBlocked
<1>6. CASE ~outputBlocked
  <2>1. w \in 0..HeaderLen /\ w <= Room
    BY <1>2, <1>3
  <2>2. w < HeaderLen => /\ p.lo + 0 = produced + w /\ p.hi = produced + HeaderLen
                         /\ 0 <= Size(p)
    BY <1>2, <1>3, <1>4 DEF Size
  <2> QED
    BY <1>1, <1>2, <1>4, <1>6, <2>1, <2>2, WriteUnblocked
<1> QED
  BY <1>5, <1>6

\* Data is queued whole, from the first byte that was not taken on.
LEMMA StepSendData ==
  ASSUME IInv, NEW n \in 0..MaxData, NEW last \in BOOLEAN, SendData(n, last)
  PROVE  IInv'
<1> DEFINE w == AtMost(n, Room)
           p == [lo |-> produced, hi |-> produced + n]
<1>1. Write(n, w, p, w) /\ sending' \in BOOLEAN
  <2>1. sending' = ~last
    BY DEF SendData
  <2>2. sending' \in BOOLEAN
    BY <2>1, Zenon
  <2> QED
    BY <2>2 DEF SendData
<1>2. n \in Nat /\ Room \in Nat /\ produced \in Nat
  BY SizesAssumption DEF IInv, TypeOK, Room
<1>3. w \in 0..n /\ w <= Room /\ w \in Nat
  BY <1>2 DEF AtMost
<1>4. p \in Piece /\ p.lo = produced /\ p.hi = produced + n
  BY <1>2 DEF Piece
<1> HIDE DEF w, p
<1>5. CASE outputBlocked
  BY <1>1, <1>2, <1>5, WriteBlocked
<1>6. CASE ~outputBlocked
  <2>1. w < n => p.lo + w = produced + w /\ p.hi = produced + n /\ w <= Size(p)
    BY <1>2, <1>3, <1>4 DEF Size
  <2> QED
    BY <1>1, <1>2, <1>3, <1>4, <1>6, <2>1, WriteUnblocked
<1> QED
  BY <1>5, <1>6

\* The notifier goes on with the first piece, which leaves the queue with its
\* last byte.
LEMMA StepOutputReady == ASSUME IInv, OutputReady PROVE IInv'
<1> DEFINE p == outputBuffer[1]
           w == AtMost(Size(p) - outputBufferStart, Room)
           start == outputBufferStart + w
<1>1. /\ notifier /\ outputBuffer # <<>> /\ outputBuffer \in Seq(Piece)
      /\ Chain(outputBuffer, taken - outputBufferStart, produced)
      /\ outputBufferStart <= Size(p)
  BY DEF OutputReady, IInv, TypeOK, BlockedWhileQueued, QueueInv
<1>2. /\ produced \in Nat /\ taken \in Nat /\ outputBufferStart \in Nat
      /\ unread \in 0..SocketBuffer /\ Room \in Nat
  BY SizesAssumption DEF IInv, TypeOK, Room
<1>3. /\ p \in Piece /\ p.lo <= p.hi /\ p.lo = taken - outputBufferStart
      /\ p.lo \in Nat /\ p.hi \in Nat
  BY <1>1, ChainTail DEF Chain, Piece
<1>4. w \in Nat /\ w <= Room /\ start \in Nat /\ start <= Size(p)
  BY <1>1, <1>2, <1>3 DEF AtMost, Size
<1>5. Head(outputBuffer) = p
  BY <1>1
<1>6. /\ Take(p.lo + outputBufferStart, w)
      /\ outputBufferStart' = IF start = Size(p) THEN 0 ELSE start
      /\ outputBuffer' = IF start = Size(p) THEN Tail(outputBuffer) ELSE outputBuffer
      /\ outputBlocked' = (outputBuffer' # <<>>)
      /\ notifier' = (outputBuffer' # <<>>)
      /\ UNCHANGED <<produced, sending, endVars>>
  BY <1>5 DEF OutputReady
<1> HIDE DEF p, w, start
<1>7. start = outputBufferStart + w
  BY DEF start
<1>8. /\ taken' = taken + w /\ unread' = unread + w
      /\ taken' \in Nat /\ unread' \in 0..SocketBuffer
  BY <1>2, <1>4, <1>6, SizesAssumption DEF Take, Room
<1>9. intact' = TRUE
  <2>1. p.lo + outputBufferStart = taken
    BY <1>2, <1>3
  <2> QED
    BY <1>6, <2>1, Zenon DEF Take, IInv
<1>10. outputBlocked' \in BOOLEAN /\ notifier' \in BOOLEAN
  BY <1>6, Zenon
<1>11. CASE start = Size(p)
  <2>1. outputBuffer' = Tail(outputBuffer) /\ outputBufferStart' = 0
    BY <1>6, <1>11
  <2>2. /\ outputBuffer' \in Seq(Piece)
        /\ outputBuffer' = <<>> => p.hi = produced
        /\ outputBuffer' # <<>> =>
             /\ Chain(outputBuffer', p.hi, produced)
             /\ outputBuffer'[1] \in Piece /\ outputBuffer'[1].lo <= outputBuffer'[1].hi
    BY <1>1, <2>1, ChainTail DEF p
  <2>3. taken' = p.hi
    BY <1>2, <1>3, <1>4, <1>7, <1>8, <1>11 DEF Size
  <2>4. TypeOK'
    BY <1>2, <1>6, <1>8, <1>9, <1>10, <2>1, <2>2 DEF IInv, TypeOK, endVars
  <2>5. outputBuffer' # <<>> => outputBufferStart' <= Size(outputBuffer'[1])
    <3>1. \A h \in Piece : h.lo <= h.hi => 0 <= Size(h)
      BY DEF Size, Piece
    <3> QED
      BY <2>1, <2>2, <3>1
  <2>6. BlockedWhileQueued'
    BY <1>6, <2>5 DEF BlockedWhileQueued
  <2>7. QueueInv'
    <3>1. ~io_ok => FALSE
      BY <1>1 DEF IInv, QueueInv
    <3>2. taken' - outputBufferStart' = p.hi
      BY <1>3, <2>1, <2>3
    <3> QED
      BY <1>6, <2>2, <2>3, <2>5, <3>1, <3>2 DEF QueueInv, endVars
  <2> QED
    BY <1>9, <2>4, <2>6, <2>7 DEF IInv
<1>12. CASE start # Size(p)
  <2>1. outputBuffer' = outputBuffer /\ outputBufferStart' = start
    BY <1>6, <1>12
  <2>2. TypeOK'
    BY <1>1, <1>2, <1>4, <1>6, <1>8, <1>9, <1>10, <2>1 DEF IInv, TypeOK, endVars
  <2>3. BlockedWhileQueued'
    BY <1>4, <1>6, <2>1 DEF BlockedWhileQueued, p
  <2>4. QueueInv'
    <3>1. ~io_ok => FALSE
      BY <1>1 DEF IInv, QueueInv
    <3>2. taken' - outputBufferStart' = taken - outputBufferStart
      BY <1>2, <1>4, <1>7, <1>8, <2>1
    <3>3. start <= Size(outputBuffer[1])
      BY <1>4 DEF p
    <3> QED
      BY <1>1, <1>6, <2>1, <3>1, <3>2, <3>3 DEF QueueInv, endVars
  <2> QED
    BY <1>9, <2>2, <2>3, <2>4 DEF IInv
<1> QED
  BY <1>11, <1>12

\* No other step touches the queue or what the kernel has taken.
LEMMA StepOther ==
  ASSUME IInv,
         \/ OutputFails \/ CloseConnection \/ Break
         \/ \E w \in 1..SocketBuffer : ClientReads(w)
         \/ UNCHANGED vars
  PROVE  IInv'
<1>1. UNCHANGED <<produced, sending, queueVars, taken, intact, io_ok>>
  BY DEF OutputFails, CloseConnection, Break, ClientReads, vars, queueVars, socketVars, endVars
<1>2. unread' \in 0..SocketBuffer
  <2>1. unread \in 0..SocketBuffer /\ SocketBuffer \in Nat
    BY SizesAssumption DEF IInv, TypeOK
  <2>2. CASE \E w \in 1..SocketBuffer : ClientReads(w)
    BY <2>1, <2>2 DEF ClientReads
  <2>3. CASE OutputFails \/ CloseConnection \/ Break \/ UNCHANGED vars
    <3>1. unread' = unread
      BY <2>3 DEF OutputFails, CloseConnection, Break, vars, socketVars
    <3> QED
      BY <2>1, <3>1
  <2> QED
    BY <2>2, <2>3
<1>3. broken' \in BOOLEAN /\ dead' \in BOOLEAN /\ closed' \in BOOLEAN
  BY Zenon DEF IInv, TypeOK, OutputFails, CloseConnection, Break, ClientReads, vars, endVars
<1>4. TypeOK'
  BY <1>1, <1>2, <1>3 DEF IInv, TypeOK, queueVars
<1>5. BlockedWhileQueued' /\ QueueInv' /\ intact'
  BY <1>1 DEF IInv, BlockedWhileQueued, QueueInv, queueVars
<1> QED
  BY <1>4, <1>5 DEF IInv

LEMMA StepOutput == ASSUME Whole, IInv, [Next]_vars PROVE IInv'
<1>1. CASE SendHeader
  BY <1>1, StepSendHeader
<1>2. CASE \E n \in 0..MaxData, last \in BOOLEAN : SendData(n, last)
  BY <1>2, StepSendData
<1>3. CASE OutputReady
  BY <1>3, StepOutputReady
<1>4. CASE \/ OutputFails \/ CloseConnection \/ Break
           \/ \E w \in 1..SocketBuffer : ClientReads(w)
           \/ UNCHANGED vars
  BY <1>4, StepOther
<1> QED
  BY <1>1, <1>2, <1>3, <1>4 DEF Next

LEMMA OutputInvariant == ASSUME Whole PROVE Spec => []IInv
<1>1. Init => IInv
  BY InitOutput
<1>2. IInv /\ [Next]_vars => IInv'
  BY StepOutput
<1> QED
  BY <1>1, <1>2, PTL DEF Spec

-----------------------------------------------------------------------------
\* Every variable of the output queue keeps its type, when headers are not
\* taken in part.
THEOREM OutputTypeCorrect == ASSUME Whole PROVE Spec => []TypeOK
<1>1. IInv => TypeOK
  BY DEF IInv
<1> QED
  BY <1>1, OutputInvariant, PTL

\* With a kernel that takes a header whole or not at all, the client gets the
\* bytes of all messages in their order, blocked or not, whatever the sizes of
\* messages, socket buffer and queue (writeIceData(), slotOutputReady()).
THEOREM StreamStaysIntact == ASSUME Whole PROVE Spec => []StreamIntact
<1>1. IInv => StreamIntact
  BY DEF IInv, StreamIntact
<1> QED
  BY <1>1, OutputInvariant, PTL

\* With such a kernel output is blocked, and the notifier enabled, exactly while
\* something is queued, which is what slotOutputReady() asserts when it starts.
THEOREM BlockedExactlyWhileQueued == ASSUME Whole PROVE Spec => []BlockedWhileQueued
<1>1. IInv => BlockedWhileQueued
  BY DEF IInv
<1> QED
  BY <1>1, OutputInvariant, PTL

\* With such a kernel, until a write fails, what the kernel has not taken is
\* queued once, in order and without a gap.
THEOREM NothingIsLost == ASSUME Whole PROVE Spec => []NothingLost
<1>1. IInv => NothingLost
  <2> SUFFICES ASSUME IInv, io_ok PROVE NothingLost
    BY DEF NothingLost
  <2>1. CASE outputBuffer = <<>>
    BY <2>1 DEF IInv, QueueInv, NothingLost
  <2>2. CASE outputBuffer # <<>>
    <3>1. taken \in Nat /\ outputBufferStart \in Nat
          /\ Chain(outputBuffer, taken - outputBufferStart, produced)
      BY <2>2 DEF IInv, TypeOK, QueueInv
    <3>2. taken = outputBuffer[1].lo + outputBufferStart
      BY <3>1 DEF Chain
    <3> QED
      BY <2>2, <3>1, <3>2 DEF Chain, NothingLost
  <2> QED
    BY <2>1, <2>2
<1> QED
  BY <1>1, OutputInvariant, PTL
=============================================================================
