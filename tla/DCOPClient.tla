------------------------------ MODULE DCOPClient ------------------------------
(***************************************************************************)
(* Clients that call each other through the DCOP server                    *)
(* (dcop/dcopclient.cpp, with IceProcessMessages() and the list of saved   *)
(* reply waits of dcop/KDE-ICE).  Of the server (dcop/dcopserver.cpp) there *)
(* is the queue of messages for each client, to which it hands on each     *)
(* message as it reads it, and what it does when a client dies: it fails   *)
(* the calls that this client has not answered.                            *)
(*                                                                         *)
(* A client is one thread.  Its stack tells what it is in the middle of:   *)
(* calls that wait for their answer, handlers of calls it received,        *)
(* processPostedMessages().  A call reads the socket itself, so handlers   *)
(* run inside calls.                                                       *)
(***************************************************************************)
EXTENDS Integers, Sequences, SequencesExt, FiniteSets

CONSTANTS
  Client,
  Initiators,      \* clients that call from their event loop
  None,            \* no key, no client
  Kinds,           \* what is sent: among "call", "callAsync", "send"
  EventLoop,       \* clients that call with useEventLoop
  Nesting,         \* may a client call while an earlier call of it is open
  CallsAndDelays,  \* may a handler call somebody and also delay its answer
  NestedDelays,    \* may a handler delay its answer that runs inside another one
  Impatient,       \* clients whose calls may time out
  Mortal,          \* clients that may die
  MaxCalls         \* messages that begin something, in all

ASSUME ClientAssumption ==
  {Initiators, Impatient, Mortal, EventLoop} \subseteq SUBSET Client
  /\ {None, "send"} \intersect Client = {} /\ None # "send"
ASSUME KindAssumption == Kinds \subseteq {"call", "callAsync", "send"}
ASSUME RuleAssumption == {Nesting, CallsAndDelays, NestedDelays} \subseteq BOOLEAN
\* What the server has in waitingForDelayedReply is told by the transactions of a
\* client only if these belong to the calls whose answers were delayed.
ASSUME DeathAssumption == Mortal # {} => ~CallsAndDelays /\ ~NestedDelays
ASSUME BoundAssumption == MaxCalls \in Nat

VARIABLES
  calls,           \* the calls and sends made so far: who, whom, how and with which key
  rs,              \* the ReplyStruct of each
  stack,           \* what each client is in, the innermost last
  toClient,        \* messages the server has for each client
  currentKey, opcode, senderId, transaction, transactionId,   \* of DCOPClientPrivate
  messages, postMessageTimer,
  pendingReplies,
  waits,           \* saved_reply_waits of the connection that are not ready
  transactionList,
  dead,            \* clients whose process is gone
  abandoned        \* history: calls whose callee died when it had promised the answer

asked == <<calls, rs>>
current == <<opcode, senderId, transaction, transactionId>>
posted == <<messages, postMessageTimer>>
deaths == <<dead, abandoned>>
vars == <<asked, stack, toClient, currentKey, current, posted, pendingReplies, waits,
          transactionList, deaths>>

\* Each client got its key from the server when it registered: it is named as
\* the client.
Keys == Client \union {None, "send"}
CallNo == 1 .. MaxCalls
CallInfo == [caller : Client, callee : Client, kind : {"call", "callAsync", "send"}, key : Keys]

\* `tid' is transactionId, `failed' status Failed of a call that timed out; `of' is
\* the call whose answer was written to it.
ReplyStruct == [tid : Int, calledApp : Client \union {None}, failed : BOOLEAN,
                of : CallNo \union {0}]
NoReply == [tid |-> -1, calledApp |-> None, failed |-> FALSE, of |-> 0]

\* n is the call that is made or handled, oldKey the oldCurrentKey of that
\* function; `did' is what a handler did so far; `seen' is what the iterator of
\* processPostedMessages() has passed.
Frame == [at : {"call", "handler", "posted"}, n : CallNo \union {0}, oldKey : Keys,
          did : {"nothing", "called", "delayed"}, seen : SUBSET CallNo]
Opcode == {"DCOPCall", "DCOPSend", "DCOPReply", "DCOPReplyFailed", "DCOPReplyWait",
           "DCOPReplyDelayed"}

\* A message about call n.  DCOPReplyFailed is empty: its tid is history, 1 if the
\* callee had promised an answer.
Message == [op : Opcode, n : CallNo, from : Client, tid : Nat]
\* A transaction, and the call whose answer it is to be.
Transaction == [id : Nat, senderId : Client \union {None}, n : CallNo]

TypeOK ==
  /\ calls \in Seq(CallInfo) /\ Len(calls) <= MaxCalls
  /\ rs \in [CallNo -> ReplyStruct]
  /\ stack \in [Client -> Seq(Frame)]
  /\ toClient \in [Client -> Seq(Message)]
  /\ currentKey \in [Client -> Keys]
  /\ opcode \in [Client -> Opcode]
  /\ senderId \in [Client -> Client \union {None}]
  /\ transaction \in [Client -> BOOLEAN] /\ transactionId \in [Client -> Nat]
  /\ messages \in [Client -> Seq(CallNo)] /\ postMessageTimer \in [Client -> BOOLEAN]
  /\ pendingReplies \in [Client -> Seq(CallNo)] /\ waits \in [Client -> Seq(CallNo)]
  /\ transactionList \in [Client -> SUBSET Transaction]
  /\ dead \subseteq Client /\ abandoned \subseteq CallNo

Init ==
  /\ calls = << >> /\ rs = [n \in CallNo |-> NoReply]
  /\ stack = [c \in Client |-> << >>] /\ toClient = [c \in Client |-> << >>]
  /\ currentKey = [c \in Client |-> None]
  /\ opcode = [c \in Client |-> "DCOPReply"] /\ senderId = [c \in Client |-> None]
  /\ transaction = [c \in Client |-> FALSE] /\ transactionId = [c \in Client |-> 0]
  /\ messages = [c \in Client |-> << >>] /\ postMessageTimer = [c \in Client |-> FALSE]
  /\ pendingReplies = [c \in Client |-> << >>] /\ waits = [c \in Client |-> << >>]
  /\ transactionList = [c \in Client |-> {}]
  /\ dead = {} /\ abandoned = {}

-----------------------------------------------------------------------------
(* Where a client is.                                                      *)

Top(c) == stack[c][Len(stack[c])]
Pop(c) == [stack EXCEPT ![c] = Front(@)]
Push(c, frame) == [stack EXCEPT ![c] = Append(@, frame)]
ReplaceTop(c, frame) == Append(Front(stack[c]), frame)
Idle(c) == stack[c] = << >>
In(c, place) == stack[c] # << >> /\ Top(c).at = place

Async(n) == calls[n].kind = "callAsync"

\* callInternal() has what it waits for: the answer, or that of an asynchronous
\* call is promised.
Complete(n) == rs[n].tid = 0 \/ (Async(n) /\ rs[n].tid # -1)

\* Timers and the program's own code run in the event loop, which a call enters
\* with useEventLoop (only a synchronous one does).
AtEventLoop(c) ==
  Idle(c) \/ (c \in EventLoop /\ In(c, "call") /\ ~Async(Top(c).n) /\ ~Complete(Top(c).n))

CallsOpen(c) == {i \in DOMAIN stack[c] : stack[c][i].at = "call"}

\* The requests that c handles, and those in the messages to it with one of the opcodes.
HandledBy(c) == {stack[c][i].n : i \in {j \in DOMAIN stack[c] : stack[c][j].at = "handler"}}
Queued(c, ops) == {m.n : m \in {x \in ToSet(toClient[c]) : x.op \in ops}}

Failure(d, n, promised) ==
  [op |-> "DCOPReplyFailed", n |-> n, from |-> d, tid |-> promised]

\* The server hands a message of c on to the client d; if there is no d any more
\* it fails a call at once.
Send(c, d, op, n, tid) ==
  toClient' =
    IF d \notin dead
      THEN [toClient EXCEPT ![d] = Append(@, [op |-> op, n |-> n, from |-> c, tid |-> tid])]
    ELSE IF op = "DCOPCall"
      THEN [toClient EXCEPT ![c] = Append(@, Failure(d, n, 0))]
    ELSE toClient

-----------------------------------------------------------------------------
(* Calls.                                                                  *)

MayCall(c) ==
  /\ Len(calls) < MaxCalls
  /\ Nesting \/ CallsOpen(c) = {}
  /\ \/ AtEventLoop(c) /\ c \in Initiators
     \/ In(c, "handler") /\ (Top(c).did = "delayed" => CallsAndDelays)

\* The frame of a handler that calls remembers that it did.
Calling(c) ==
  IF In(c, "handler") /\ Top(c).did = "nothing"
    THEN ReplaceTop(c, [Top(c) EXCEPT !.did = "called"]) ELSE stack[c]

\* call() and callAsync(), which takes the number of its callback from the
\* counter of transactions.
call(c, d, kind) ==
  /\ MayCall(c) /\ d # c /\ kind \in Kinds \ {"send"}
  /\ LET n == Len(calls) + 1
         key == IF currentKey[c] = None THEN c ELSE currentKey[c]
     IN /\ calls' = Append(calls, [caller |-> c, callee |-> d, kind |-> kind, key |-> key])
        /\ stack' = [stack EXCEPT ![c] = Append(Calling(c),
             [at |-> "call", n |-> n, oldKey |-> currentKey[c], did |-> "nothing", seen |-> {}])]
        /\ currentKey' = [currentKey EXCEPT ![c] = key]
        /\ Send(c, d, "DCOPCall", n, 0)
  /\ transactionId' = [transactionId EXCEPT ![c] = IF kind = "callAsync" THEN @ + 1 ELSE @]
  /\ UNCHANGED <<rs, opcode, senderId, transaction, posted, pendingReplies, waits,
                 transactionList, deaths>>

send(c, d) ==
  /\ MayCall(c) /\ d # c /\ "send" \in Kinds
  /\ calls' = Append(calls, [caller |-> c, callee |-> d, kind |-> "send", key |-> "send"])
  /\ Send(c, d, "DCOPSend", Len(calls) + 1, 0)
  /\ stack' = [stack EXCEPT ![c] = Calling(c)]
  /\ UNCHANGED <<rs, currentKey, current, posted, pendingReplies, waits, transactionList,
                 deaths>>

\* The end of callInternal().
Return(c) ==
  /\ In(c, "call") /\ Complete(Top(c).n)
  /\ stack' = Pop(c) /\ currentKey' = [currentKey EXCEPT ![c] = Top(c).oldKey]
  /\ UNCHANGED <<asked, toClient, current, posted, pendingReplies, waits, transactionList,
                 deaths>>

\* A call gives up: whoever points to its ReplyStruct is not told.
TimeOut(c) ==
  /\ c \in Impatient /\ In(c, "call") /\ ~Async(Top(c).n) /\ ~Complete(Top(c).n)
  /\ rs' = [rs EXCEPT ![Top(c).n].failed = TRUE]
  /\ stack' = Pop(c) /\ currentKey' = [currentKey EXCEPT ![c] = Top(c).oldKey]
  /\ UNCHANGED <<calls, toClient, current, posted, pendingReplies, waits, transactionList,
                 deaths>>

-----------------------------------------------------------------------------
(* Messages that arrive.                                                   *)

\* Mutant of Receive: the sender is noted when a message is read, not when it is
\* handled.
ReceiveKeepsSender(c, n, frames) ==
  /\ senderId' = IF In(c, "posted") THEN senderId
       ELSE [senderId EXCEPT ![c] = calls[n].caller]
  /\ transaction' = [transaction EXCEPT ![c] = FALSE]
  /\ stack' = [stack EXCEPT ![c] = Append(frames,
       [at |-> "handler", n |-> n, oldKey |-> currentKey[c], did |-> "nothing", seen |-> {}])]
  /\ currentKey' = [currentKey EXCEPT ![c] = IF calls[n].kind = "send" THEN @ ELSE calls[n].key]

\* Mutant of Receive: a transaction of an earlier call is not forgotten.
ReceiveKeepsTransaction(c, n, frames) ==
  /\ senderId' = [senderId EXCEPT ![c] = calls[n].caller]
  /\ stack' = [stack EXCEPT ![c] = Append(frames,
       [at |-> "handler", n |-> n, oldKey |-> currentKey[c], did |-> "nothing", seen |-> {}])]
  /\ currentKey' = [currentKey EXCEPT ![c] = IF calls[n].kind = "send" THEN @ ELSE calls[n].key]
  /\ UNCHANGED transaction

\* DCOPProcessInternal() as far as receive(): the handler of call n begins.
Receive(c, n, frames) ==
  /\ senderId' = [senderId EXCEPT ![c] = calls[n].caller]
  /\ transaction' = [transaction EXCEPT ![c] = FALSE]
  /\ stack' = [stack EXCEPT ![c] = Append(frames,
       [at |-> "handler", n |-> n, oldKey |-> currentKey[c], did |-> "nothing", seen |-> {}])]
  /\ currentKey' = [currentKey EXCEPT ![c] = IF calls[n].kind = "send" THEN @ ELSE calls[n].key]

\* Mutant of ReceiveOrPost: nothing is posted.
ReceiveOrPostMutant(c, n) == Receive(c, n, stack[c]) /\ UNCHANGED posted

\* Mutant of ReceiveOrPost: a message that is posted is handled at once as well.
ReceiveOrPostTwice(c, n) ==
  /\ Receive(c, n, stack[c])
  /\ IF currentKey[c] # None /\ calls[n].key # currentKey[c]
       THEN /\ messages' = [messages EXCEPT ![c] = Append(@, n)]
            /\ postMessageTimer' = [postMessageTimer EXCEPT ![c] = TRUE]
       ELSE UNCHANGED posted

\* DCOPProcessInternal() with canPost: a message of another key is kept for later.
ReceiveOrPost(c, n) ==
  IF currentKey[c] # None /\ calls[n].key # currentKey[c]
    THEN /\ senderId' = [senderId EXCEPT ![c] = calls[n].caller]
         /\ messages' = [messages EXCEPT ![c] = Append(@, n)]
         /\ postMessageTimer' = [postMessageTimer EXCEPT ![c] = TRUE]
         /\ UNCHANGED <<transaction, stack, currentKey>>
    ELSE Receive(c, n, stack[c]) /\ UNCHANGED posted

\* IceProcessMessages() of a call adds the call to the list of reply waits, ...
Waiting(c) ==
  IF Idle(c) \/ Top(c).n \in ToSet(waits[c]) THEN waits[c] ELSE Append(waits[c], Top(c).n)

\* ... and whatever is read is for the first one in it.
ReplyWaitFor(c) == IF Idle(c) THEN 0 ELSE Waiting(c)[1]

\* Mutant of PendingFor: ids of different clients are not told apart.
PendingForMutant(c, m) == {i \in DOMAIN pendingReplies[c] : rs[pendingReplies[c][i]].tid = m.tid}

\* Where the pending replies with that id of that client are.
PendingFor(c, m) ==
  {i \in DOMAIN pendingReplies[c] :
     LET n == pendingReplies[c][i] IN rs[n].tid = m.tid /\ rs[n].calledApp = m.from}

First(places) == CHOOSE i \in places : \A j \in places : i <= j
Answered(n, m) == [rs EXCEPT ![n].tid = 0, ![n].of = m.n]

\* The first of them is answered.
AnswerPending(c, m) ==
  LET places == PendingFor(c, m)
  IN IF places = {} THEN UNCHANGED <<rs, pendingReplies>>
     ELSE /\ rs' = Answered(pendingReplies[c][First(places)], m)
          /\ pendingReplies' = [pendingReplies EXCEPT ![c] = RemoveAt(@, First(places))]

\* DCOPReply and DCOPReplyFailed: both end the wait, and neither looks for the
\* ReplyStruct among the pending replies.
Reply(c, m, n) ==
  /\ m.op \in {"DCOPReply", "DCOPReplyFailed"}
  /\ IF n = 0 THEN UNCHANGED rs /\ waits' = [waits EXCEPT ![c] = Waiting(c)]
     ELSE rs' = Answered(n, m) /\ waits' = [waits EXCEPT ![c] = Tail(Waiting(c))]
  /\ UNCHANGED pendingReplies

\* Mutant of ReplyWait: nobody may be waiting.
ReplyWaitUnchecked(c, m, n) ==
  /\ m.op = "DCOPReplyWait"
  /\ rs' = [rs EXCEPT ![n].tid = m.tid, ![n].calledApp = m.from]
  /\ pendingReplies' = [pendingReplies EXCEPT ![c] = Append(@, n)]
  /\ waits' = [waits EXCEPT ![c] = IF n = 0 THEN @ ELSE Tail(Waiting(c))]

\* Mutant of ReplyWait: only call() waits for the delayed answer.
ReplyWaitOfCall(c, m, n) ==
  /\ m.op = "DCOPReplyWait"
  /\ IF n = 0
       THEN UNCHANGED <<rs, pendingReplies>> /\ waits' = [waits EXCEPT ![c] = Waiting(c)]
       ELSE /\ rs' = [rs EXCEPT ![n].tid = m.tid, ![n].calledApp = m.from]
            /\ pendingReplies' =
                 [pendingReplies EXCEPT ![c] = IF Async(n) THEN @ ELSE Append(@, n)]
            /\ waits' = [waits EXCEPT ![c] = Tail(Waiting(c))]

ReplyWait(c, m, n) ==
  /\ m.op = "DCOPReplyWait"
  /\ IF n = 0
       THEN UNCHANGED <<rs, pendingReplies>> /\ waits' = [waits EXCEPT ![c] = Waiting(c)]
       ELSE /\ rs' = [rs EXCEPT ![n].tid = m.tid, ![n].calledApp = m.from]
            /\ pendingReplies' = [pendingReplies EXCEPT ![c] = Append(@, n)]
            /\ waits' = [waits EXCEPT ![c] = Tail(Waiting(c))]

\* Mutant of ReplyDelayed: the reply wait is not ready.
ReplyDelayedMutant(c, m, n) ==
  /\ m.op = "DCOPReplyDelayed"
  /\ waits' = [waits EXCEPT ![c] = Waiting(c)]
  /\ AnswerPending(c, m)

ReplyDelayed(c, m, n) ==
  /\ m.op = "DCOPReplyDelayed"
  /\ waits' = [waits EXCEPT ![c] =
       IF n # 0 /\ rs[n].tid = m.tid /\ rs[n].calledApp = m.from THEN Tail(Waiting(c))
       ELSE Waiting(c)]
  /\ AnswerPending(c, m)

\* DCOPProcessMessage() of the next message, read by the call the client is in or
\* from its event loop.
MayRead(c) == toClient[c] # << >> /\ (Idle(c) \/ (In(c, "call") /\ ~Complete(Top(c).n)))

Read(c) ==
  /\ MayRead(c)
  /\ toClient' = [toClient EXCEPT ![c] = Tail(@)]
  /\ LET m == Head(toClient[c])
     IN /\ opcode' = [opcode EXCEPT ![c] = m.op]
        /\ \/ /\ \E n \in {ReplyWaitFor(c)} :
                   Reply(c, m, n) \/ ReplyWait(c, m, n) \/ ReplyDelayed(c, m, n)
              /\ UNCHANGED <<senderId, transaction, stack, currentKey, posted>>
           \/ /\ m.op \in {"DCOPCall", "DCOPSend"} /\ ReceiveOrPost(c, m.n)
              /\ waits' = [waits EXCEPT ![c] = Waiting(c)]
              /\ UNCHANGED <<rs, pendingReplies>>
  /\ UNCHANGED <<calls, transactionId, transactionList, deaths>>

\* The timer fires: processPostedMessagesInternal() begins.
processPostedMessages(c) ==
  /\ AtEventLoop(c) /\ postMessageTimer[c]
  /\ postMessageTimer' = [postMessageTimer EXCEPT ![c] = FALSE]
  /\ stack' = IF messages[c] = << >> THEN stack
       ELSE Push(c, [at |-> "posted", n |-> 0, oldKey |-> None, did |-> "nothing", seen |-> {}])
  /\ UNCHANGED <<asked, toClient, currentKey, current, messages, pendingReplies, waits,
                 transactionList, deaths>>

\* Mutant of TimerAfter: what is left waits for the next message that is posted.
TimerAfterMutant(c) == postMessageTimer[c]

\* The timer is started for what is left.
TimerAfter(c) == postMessageTimer[c] \/ messages[c] # << >>

\* Its loop: the next message of the current key is handled, those of others
\* passed.
ProcessPosted(c) ==
  /\ In(c, "posted")
  /\ LET fits == {i \in DOMAIN messages[c] :
                    /\ messages[c][i] \notin Top(c).seen
                    /\ currentKey[c] \in {None, calls[messages[c][i]].key}}
     IN IF fits = {}
          THEN /\ stack' = Pop(c)
               /\ postMessageTimer' = [postMessageTimer EXCEPT ![c] = TimerAfter(c)]
               /\ UNCHANGED <<currentKey, opcode, senderId, transaction, messages>>
          ELSE LET n == messages[c][First(fits)]
                   passed == {messages[c][j] : j \in 1 .. First(fits) - 1}
               IN /\ messages' = [messages EXCEPT ![c] = RemoveAt(@, First(fits))]
                  /\ opcode' = [opcode EXCEPT ![c] =
                       IF calls[n].kind = "send" THEN "DCOPSend" ELSE "DCOPCall"]
                  /\ Receive(c, n, ReplaceTop(c, [Top(c) EXCEPT !.seen = @ \union passed]))
                  /\ UNCHANGED postMessageTimer
  /\ UNCHANGED <<asked, toClient, transactionId, pendingReplies, waits, transactionList,
                 deaths>>

-----------------------------------------------------------------------------
(* Handlers.                                                               *)

InsideHandler(c) == \E i \in 1 .. Len(stack[c]) - 1 : stack[c][i].at = "handler"

beginTransaction(c) ==
  /\ In(c, "handler") /\ opcode[c] # "DCOPSend"
  /\ Top(c).did # "delayed" /\ (Top(c).did = "called" => CallsAndDelays)
  /\ NestedDelays \/ ~InsideHandler(c)
  /\ transaction' = [transaction EXCEPT ![c] = TRUE]
  /\ transactionId' = [transactionId EXCEPT ![c] = @ + 1]
  /\ transactionList' = [transactionList EXCEPT ![c] = @ \union
       {[id |-> transactionId'[c], senderId |-> senderId[c], n |-> Top(c).n]}]
  /\ stack' = [stack EXCEPT ![c] = ReplaceTop(c, [Top(c) EXCEPT !.did = "delayed"])]
  /\ UNCHANGED <<asked, toClient, currentKey, opcode, senderId, posted, pendingReplies, waits,
                 deaths>>

\* The rest of DCOPProcessInternal().
HandlerReturns(c) ==
  /\ In(c, "handler")
  /\ stack' = Pop(c)
  /\ LET n == Top(c).n
         id == IF transaction[c] THEN transactionId[c] ELSE 0
     IN IF calls[n].kind = "send" THEN UNCHANGED <<currentKey, toClient>>
        ELSE /\ currentKey' = [currentKey EXCEPT ![c] = Top(c).oldKey]
             /\ IF id = 0 THEN Send(c, calls[n].caller, "DCOPReply", n, 0)
                ELSE Send(c, calls[n].caller, "DCOPReplyWait", n, id)
  /\ UNCHANGED <<asked, current, posted, pendingReplies, waits, transactionList, deaths>>

\* The answer that was delayed is there: the program ends a transaction when the
\* handler that began it has returned.
endTransaction(c, t) ==
  /\ AtEventLoop(c) \/ In(c, "handler")
  /\ t \in transactionList[c] /\ t.n \notin HandledBy(c)
  /\ transactionList' = [transactionList EXCEPT ![c] = @ \ {t}]
  /\ Send(c, t.senderId, "DCOPReplyDelayed", t.n, t.id)
  /\ UNCHANGED <<asked, stack, currentKey, current, posted, pendingReplies, waits, deaths>>

-----------------------------------------------------------------------------
(* Deaths.                                                                 *)

\* The calls that c has not answered, and its promises.  They are what the server's
\* lists with these names are about.
waitingForReply(c) ==
  {n \in Queued(c, {"DCOPCall"}) \union ToSet(messages[c]) \union HandledBy(c) :
     calls[n].kind # "send"}
waitingForDelayedReply(c) == {t.n : t \in transactionList[c]} \ HandledBy(c)

\* What the server has to say to e when c is gone.
Failures(c, e) ==
  LET of(S) == {n \in S : calls[n].caller = e}
  IN SetToSeq({Failure(c, n, 0) : n \in of(waitingForReply(c))})
     \o SetToSeq({Failure(c, n, 1) : n \in of(waitingForDelayedReply(c))})

\* A process ends, and nothing is left of it; the server notices and fails the calls
\* it did not answer, in removeConnection().  (Between the two nobody can tell.)
Die(c) ==
  /\ c \in Mortal
  /\ dead' = dead \union {c}
  /\ abandoned' = abandoned \union waitingForDelayedReply(c)
  /\ toClient' =
       [e \in Client |-> IF e \in dead' THEN << >> ELSE toClient[e] \o Failures(c, e)]
  /\ stack' = [stack EXCEPT ![c] = << >>] /\ currentKey' = [currentKey EXCEPT ![c] = None]
  /\ messages' = [messages EXCEPT ![c] = << >>]
  /\ postMessageTimer' = [postMessageTimer EXCEPT ![c] = FALSE]
  /\ pendingReplies' = [pendingReplies EXCEPT ![c] = << >>]
  /\ waits' = [waits EXCEPT ![c] = << >>]
  /\ transactionList' = [transactionList EXCEPT ![c] = {}]
  /\ UNCHANGED <<asked, current>>

-----------------------------------------------------------------------------
Next ==
  \E c \in Client \ dead :
    \/ \E d \in Client : send(c, d) \/ \E kind \in Kinds : call(c, d, kind)
    \/ Read(c) \/ Return(c) \/ TimeOut(c)
    \/ processPostedMessages(c) \/ ProcessPosted(c)
    \/ beginTransaction(c) \/ HandlerReturns(c)
    \/ \E t \in transactionList[c] : endTransaction(c, t)
    \/ Die(c)

\* Each client goes on with what it is in and its handlers return; it reads what the
\* server has for it and its timer fires, for a call enters the event loop and
\* looks at the socket again and again; the program ends its transactions.
Fairness ==
  \A c \in Client :
    /\ WF_vars(Return(c) \/ ProcessPosted(c) \/ HandlerReturns(c))
    /\ SF_vars(Read(c)) /\ SF_vars(processPostedMessages(c))
    /\ SF_vars(\E t \in transactionList[c] : endTransaction(c, t))

Spec == Init /\ [][Next]_vars /\ Fairness

-----------------------------------------------------------------------------
(* Properties.                                                             *)

\* A call of c timed out, or its callee died when it had promised to answer later: from
\* then on the waits and pending replies of c cannot be relied on.  Or c is dead.
TimedOut(c) == \E n \in DOMAIN calls : calls[n].caller = c /\ rs[n].failed
Abandoned(c) == \E n \in DOMAIN calls : n \in abandoned /\ calls[n].caller = c
GaveUp(c) == c \in dead \/ TimedOut(c) \/ Abandoned(c)

\* An answer, or the failure that stands for one, ends the call it is the answer to:
\* neither the first of the saved reply waits nor the pending reply with the same
\* transaction number is that of another call.  This is so until the caller gives up.
AnswersMatch ==
  \A n \in DOMAIN calls : rs[n].of # 0 /\ ~GaveUp(calls[n].caller) => rs[n].of = n

\* A saved reply wait or a pending reply points to the ReplyStruct of a call that
\* has not returned (that of call() is a variable of its stack frame), until the
\* client gives up.
NoDanglingReply ==
  \A c \in Client : ~GaveUp(c) =>
    \A n \in ToSet(waits[c]) \union ToSet(pendingReplies[c]) :
      /\ calls[n].caller = c
      /\ Async(n) \/ \E i \in CallsOpen(c) : stack[c][i].n = n

\* No answer and no failure is met with "Very strange! ... we were not waiting for a
\* reply!", until the client gives up.
AnswersAreAwaited ==
  \A c \in Client :
    MayRead(c) /\ ~GaveUp(c) =>
      LET m == Head(toClient[c])
      IN /\ m.op \in {"DCOPReply", "DCOPReplyFailed", "DCOPReplyWait"} => ReplyWaitFor(c) # 0
         /\ m.op = "DCOPReplyDelayed" => PendingFor(c, m) # {}

\* Inside an open call a client handles calls with the key of that call only, those
\* that the call led to: nothing else enters it again before the call returns.
OnlyCircularCallsReenter ==
  \A c \in Client : \A i, j \in DOMAIN stack[c] :
    i < j /\ stack[c][i].at = "call" /\ stack[c][j].at = "handler" =>
      calls[stack[c][j].n].key = calls[stack[c][i].n].key

\* A transaction answers the client whose call began it.
TransactionsKnowTheirCaller ==
  \A c \in Client : \A t \in transactionList[c] : t.senderId = calls[t.n].caller

\* A caller that was told to wait for its answer gets it: the callee keeps a
\* transaction with that number for that call until it has sent the answer.  This
\* is so until the caller gives up; so the callee lives until it has sent it.
PromisesAreKept ==
  \A n \in DOMAIN calls : ~GaveUp(calls[n].caller) =>
    LET sent == ToSet(toClient[calls[n].caller])
        ids == {m.tid : m \in {x \in sent : x.n = n /\ x.op = "DCOPReplyWait"}}
                 \union ({rs[n].tid} \ {0, -1})
    IN \A id \in ids :
         \/ \E t \in transactionList[calls[n].callee] : t.n = n /\ t.id = id
         \/ \E m \in sent : m.n = n /\ m.tid = id /\ m.op = "DCOPReplyDelayed"

\* Where the requests and their first answers are.
FirstAnswer(m) ==
  m.op \in {"DCOPReply", "DCOPReplyWait"} \/ (m.op = "DCOPReplyFailed" /\ m.tid = 0)
RequestsMade ==
  [n \in DOMAIN calls |-> [from |-> calls[n].caller, to |-> calls[n].callee,
                           answer |-> calls[n].kind # "send"]]
RequestsSent ==
  [c \in Client |-> Queued(c, {"DCOPCall", "DCOPSend"}) \union ToSet(messages[c])]
RequestsHandled == [c \in Client |-> HandledBy(c)]
RequestsAnswered ==
  [c \in Client |-> {m.n : m \in {x \in ToSet(toClient[c]) : FirstAnswer(x)}}]

Service == INSTANCE RequestService WITH
  asked <- RequestsMade, sent <- RequestsSent, handled <- RequestsHandled,
  answered <- RequestsAnswered

\* Each request is handled once, by the client it was sent to, and each call is answered
\* once, to its caller, if the two live: posting, handlers inside calls, calls inside
\* handlers, timeouts and the deaths of others neither lose a request nor repeat one.
ImplementsRequestService == Service!Spec

\* The call that c waits for, and goes on waiting for when it looks through its
\* posted messages; 0 if it does something else.
WaitsFor(c) ==
  LET frames == SelectSeq(stack[c], LAMBDA f : f.at # "posted")
  IN IF frames # << >> /\ Last(frames).at = "call" /\ ~Complete(Last(frames).n)
       THEN Last(frames).n ELSE 0

\* Clients that wait for one another in a circle, since one of them posted the call
\* of another (their keys differ), or is to answer it later, from its event loop.
Deadlocked(S) ==
  /\ \A c \in S : WaitsFor(c) # 0 /\ calls[WaitsFor(c)].callee \in S
  /\ \E c, d \in S : LET n == WaitsFor(c) IN
       /\ calls[n].callee = d
       /\ calls[n].key # currentKey[d] \/ \E t \in transactionList[d] : t.n = n

\* In the end every call has returned, every posted message was handled and every
\* client is back in its event loop, but for clients that are deadlocked because
\* they called each other at the same time or an answer is delayed; unless a call
\* timed out.  Who is called may die.
CallsReturn ==
  (\A c \in Client : []~TimedOut(c)) =>
    <>[](\E S \in SUBSET Client :
           /\ Deadlocked(S) \/ S = {}
           /\ \A c \in Client \ S : Idle(c) /\ messages[c] = << >> /\ toClient[c] = << >>)
=============================================================================
