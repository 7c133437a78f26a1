----------------------------- MODULE DCOPOutput -----------------------------
(***************************************************************************)
(* How the DCOP server writes to one of its clients without ever blocking  *)
(* (dcop/dcopserver.cpp, lines 165 to 397).  A message is a header, which  *)
(* leaves the buffer of ICE through DCOPIceWriteChar(), and pieces of      *)
(* data, written by DCOPIceWrite().  What the socket does not take at once *)
(* is queued, and a socket notifier brings the server back when there is   *)
(* room.                                                                   *)
(*                                                                         *)
(* The bytes for the client are numbered in the order the server writes    *)
(* them; a piece of them is an interval [lo, hi).  Between the pieces of a *)
(* message the server does nothing else, but the client may read.          *)
(***************************************************************************)
EXTENDS Integers, Sequences

CONSTANTS
  HeaderLen,      \* bytes of a header
  MaxData,        \* bound on the bytes of a piece of data
  MaxBytes,       \* bound on the bytes written altogether
  MaxQueue,       \* bound on the pieces queued when a piece is added that need not
  SocketBuffer,   \* bytes the kernel holds for the client
  SplitsHeaders,  \* may the kernel take only a part of a header
  CanBreak        \* may the connection break

ASSUME SizesAssumption ==
  /\ HeaderLen \in Nat \ {0} /\ MaxData \in Nat /\ MaxBytes \in Nat /\ MaxQueue \in Nat
  /\ SocketBuffer \in Nat \ {0}
ASSUME KernelAssumption == SplitsHeaders \in BOOLEAN /\ CanBreak \in BOOLEAN

VARIABLES
  produced,           \* bytes handed to the two write functions
  sending,            \* a message is being written
  outputBlocked, outputBuffer, outputBufferStart,
  notifier,           \* outputBufferNotifier exists and is enabled
  taken,              \* bytes the kernel has taken
  intact,             \* they were the bytes 0, 1, 2, ... in this order
  unread,             \* bytes the kernel holds, taken and not yet read
  broken,             \* the client's end of the socket is closed
  io_ok,              \* IceConn::io_ok
  dead,               \* in deadConnections, to be closed
  closed              \* removed by slotCleanDeadConnections()

queueVars == <<outputBlocked, outputBuffer, outputBufferStart, notifier>>
socketVars == <<taken, intact, unread>>
endVars == <<broken, io_ok, dead, closed>>
vars == <<produced, sending, queueVars, socketVars, endVars>>

Piece == [lo : Nat, hi : Nat]
Size(p) == p.hi - p.lo

TypeOK ==
  /\ produced \in Nat /\ sending \in BOOLEAN
  /\ outputBlocked \in BOOLEAN /\ notifier \in BOOLEAN
  /\ outputBuffer \in Seq(Piece) /\ outputBufferStart \in Nat
  /\ taken \in Nat /\ intact \in BOOLEAN /\ unread \in 0..SocketBuffer
  /\ broken \in BOOLEAN /\ io_ok \in BOOLEAN /\ dead \in BOOLEAN /\ closed \in BOOLEAN

Init ==
  /\ produced = 0 /\ sending = FALSE
  /\ outputBlocked = FALSE /\ outputBuffer = <<>> /\ outputBufferStart = 0
  /\ notifier = FALSE
  /\ taken = 0 /\ intact = TRUE /\ unread = 0
  /\ broken = FALSE /\ io_ok = TRUE /\ dead = FALSE /\ closed = FALSE

-----------------------------------------------------------------------------
(* The socket.                                                             *)

Room == SocketBuffer - unread
AtMost(m, n) == IF m < n THEN m ELSE n

\* send() of w bytes from lo on is taken by the kernel.
Take(lo, w) ==
  /\ taken' = taken + w /\ unread' = unread + w
  /\ intact' = (intact /\ (w = 0 \/ lo = taken))

\* The client reads w of the bytes that are there.
ClientReads(w) ==
  /\ ~broken /\ ~closed /\ w \in 1..unread
  /\ unread' = unread - w
  /\ UNCHANGED <<produced, sending, queueVars, taken, intact, endVars>>

\* The client closes its end, or its process dies.
Break ==
  /\ CanBreak /\ ~broken /\ ~closed
  /\ broken' = TRUE
  /\ UNCHANGED <<produced, sending, queueVars, socketVars, io_ok, dead, closed>>

-----------------------------------------------------------------------------
(* Writing.                                                                *)

\* A fatal error in writeIceData(): the rest is thrown away and ioError() has
\* the connection closed by a timer.
WriteFails ==
  /\ io_ok' = FALSE /\ dead' = (dead \/ io_ok)
  /\ UNCHANGED <<queueVars, socketVars, broken, closed>>

\* Mutant of waitForOutputReady: the offset is not kept.
waitForOutputReadyMutant(p, start) ==
  /\ outputBlocked' = TRUE
  /\ outputBuffer' = Append(outputBuffer, p)
  /\ outputBufferStart' = 0
  /\ notifier' = TRUE

\* waitForOutputReady(): p is queued from the offset start on.
waitForOutputReady(p, start) ==
  /\ outputBlocked' = TRUE
  /\ outputBuffer' = Append(outputBuffer, p)
  /\ outputBufferStart' = start
  /\ notifier' = TRUE

\* Mutant of Write: what is queued already is not looked at.
WriteMutant(n, w, p, start) ==
  /\ produced' = produced + n
  /\ IF n > 0 /\ (broken \/ ~io_ok)
       THEN WriteFails
     ELSE /\ Take(produced, w)
          /\ IF w < n THEN waitForOutputReady(p, start) ELSE UNCHANGED queueVars
          /\ UNCHANGED endVars

\* A write function is given the n next bytes.  When output is blocked already
\* they are queued; otherwise the socket takes w of them, and p is the piece
\* that is kept for later, from its offset start on.
Write(n, w, p, start) ==
  /\ produced' = produced + n
  /\ IF outputBlocked
       THEN /\ outputBuffer' = Append(outputBuffer, [lo |-> produced, hi |-> produced + n])
            /\ UNCHANGED <<outputBlocked, outputBufferStart, notifier, socketVars, endVars>>
     ELSE IF n > 0 /\ (broken \/ ~io_ok)
       THEN WriteFails
     ELSE /\ Take(produced, w)
          /\ IF w < n THEN waitForOutputReady(p, start) ELSE UNCHANGED queueVars
          /\ UNCHANGED endVars

\* DCOPIceWriteChar(): the header.  Of a header that the socket takes in part,
\* as many bytes as are left are queued, but they are copied from its start.
SendHeader ==
  LET w == IF SplitsHeaders \/ Room >= HeaderLen THEN AtMost(HeaderLen, Room) ELSE 0
  IN /\ ~sending /\ ~closed
     /\ produced + HeaderLen <= MaxBytes /\ Len(outputBuffer) < MaxQueue
     /\ Write(HeaderLen, w, [lo |-> produced, hi |-> produced + (HeaderLen - w)], 0)
     /\ sending' = TRUE

\* DCOPIceWrite(): a piece of data, the last of the message or not.
SendData(n, last) ==
  LET w == AtMost(n, Room)
  IN /\ sending
     /\ produced + n <= MaxBytes /\ (last \/ Len(outputBuffer) < MaxQueue)
     /\ Write(n, w, [lo |-> produced, hi |-> produced + n], w)
     /\ sending' = ~last

-----------------------------------------------------------------------------
(* slotOutputReady(): the notifier reports room in the socket, or its end.  *)

\* Mutant of OutputReady: the notifier is disabled after one write.
OutputReadyOnce ==
  LET p == Head(outputBuffer)
      w == AtMost(Size(p) - outputBufferStart, Room)
      start == outputBufferStart + w
      done == start = Size(p)
  IN /\ notifier /\ ~sending /\ ~closed
     /\ IF broken THEN Size(p) = outputBufferStart ELSE Room > 0
     /\ Take(p.lo + outputBufferStart, w)
     /\ outputBufferStart' = IF done THEN 0 ELSE start
     /\ outputBuffer' = IF done THEN Tail(outputBuffer) ELSE outputBuffer
     /\ outputBlocked' = (outputBuffer' # <<>>)
     /\ notifier' = FALSE
     /\ UNCHANGED <<produced, sending, endVars>>

OutputReady ==
  LET p == Head(outputBuffer)
      w == AtMost(Size(p) - outputBufferStart, Room)
      start == outputBufferStart + w
      done == start = Size(p)
  IN /\ notifier /\ ~sending /\ ~closed
     /\ IF broken THEN Size(p) = outputBufferStart ELSE Room > 0
     /\ Take(p.lo + outputBufferStart, w)
     /\ outputBufferStart' = IF done THEN 0 ELSE start
     /\ outputBuffer' = IF done THEN Tail(outputBuffer) ELSE outputBuffer
     /\ outputBlocked' = (outputBuffer' # <<>>)
     /\ notifier' = (outputBuffer' # <<>>)
     /\ UNCHANGED <<produced, sending, endVars>>

\* The same, when send() fails for good.
OutputFails ==
  /\ notifier /\ ~sending /\ ~closed /\ broken
  /\ Size(Head(outputBuffer)) > outputBufferStart
  /\ dead' = TRUE
  /\ UNCHANGED <<produced, sending, queueVars, socketVars, broken, io_ok, closed>>

\* slotCleanDeadConnections() after a failed write, or processData() when it
\* finds the client's end closed.
CloseConnection ==
  /\ dead \/ broken
  /\ ~closed /\ ~sending
  /\ closed' = TRUE /\ dead' = FALSE
  /\ UNCHANGED <<produced, sending, queueVars, socketVars, broken, io_ok>>

Next ==
  \/ SendHeader
  \/ \E n \in 0..MaxData, last \in BOOLEAN : SendData(n, last)
  \/ OutputReady \/ OutputFails \/ CloseConnection
  \/ \E w \in 1..SocketBuffer : ClientReads(w)
  \/ Break

\* The event loop serves the notifier, a handler that has begun a message ends
\* it, and a client reads its socket.
Fairness ==
  /\ WF_vars(OutputReady)
  /\ WF_vars(\E n \in 0..MaxData : SendData(n, TRUE))
  /\ WF_vars(\E w \in 1..SocketBuffer : ClientReads(w))

Spec == Init /\ [][Next]_vars /\ Fairness

-----------------------------------------------------------------------------
(* Properties.                                                             *)

\* Whatever is written when, blocked or not, in pieces or not, the client gets
\* the bytes of all messages in their order (waitForOutputReady()'s promise in
\* dcopserver.h:72, which DCOPIceWriteChar() relies on for half a header).
StreamIntact == intact

\* Unless the connection broke, what the kernel has not taken is in the queue,
\* once, in order and without a gap.
NothingLost ==
  io_ok =>
    IF outputBuffer = <<>>
      THEN taken = produced
      ELSE /\ taken = outputBuffer[1].lo + outputBufferStart
           /\ \A i \in 1..(Len(outputBuffer) - 1) : outputBuffer[i].hi = outputBuffer[i + 1].lo
           /\ outputBuffer[Len(outputBuffer)].hi = produced

\* What the comments of slotOutputReady() (dcopserver.cpp:323, 334) and of the
\* write functions (256) assert: output is blocked, and the notifier enabled,
\* exactly while something is queued.
BlockedWhileQueued ==
  /\ outputBlocked = (outputBuffer # <<>>) /\ notifier = outputBlocked
  /\ outputBuffer # <<>> => outputBufferStart <= Size(outputBuffer[1])

\* Everything written is taken by the kernel, unless the connection breaks.
AllDelivered == \A n \in 1..MaxBytes : produced >= n ~> taken >= n \/ broken
=============================================================================
