----------------------- MODULE DCOPServerCalls_proofs -----------------------
(* The bookkeeping of calls: the theorems about who waits for whom, and    *)
(* that DCOPServer implements CallService, for clients that do not rename  *)
(* themselves in the middle of a call and ids that are not taken over      *)
(* while an answer to them is due.                                         *)
EXTENDS DCOPServer_proofs

USE DEF tableVars, replyVars, signalVars, endVars, callVars

Calm == Renames # "any" /\ ~NameReuse

\* Most steps leave the calls alone.
LEMMA CallFrame ==
  ASSUME Next
  PROVE  \/ \E c \in Conn, app \in Name : RegisterAs(c, app)
         \/ \E c \in Conn, n \in Name :
              Call(c, n) \/ Reply(c, n) \/ ReplyWait(c, n) \/ ReplyDelayed(c, n)
         \/ \E c \in Conn : RemoveConnection(c)
         \/ UNCHANGED <<appId, appIds, replyVars, callVars>>
<1>1. ASSUME NEW c \in Conn,
             \/ NewClient(c)
             \/ \E on \in BOOLEAN : SetDaemonMode(c, on) \/ SetNotifications(c, on)
             \/ ClientGone(c)
      PROVE  UNCHANGED <<appId, appIds, replyVars, callVars>>
  BY <1>1 DEF NewClient, SetDaemonMode, SetNotifications, ClientGone
<1>2. ASSUME NEW c \in Conn, SignalStep(c)
      PROVE  UNCHANGED <<appId, appIds, replyVars, callVars>>
  BY <1>2, SignalFrame
<1>3. CASE Timeout \/ Shutdown
  BY <1>3 DEF Timeout, Shutdown
<1> QED
  BY <1>1, <1>2, <1>3 DEF Next

LEMMA CallsInit == Init => CallsAgree
<1> SUFFICES ASSUME Init PROVE CallsAgree
  OBVIOUS
<1>1. \A a, b \in Conn : /\ waitingOnReply[a][b] = 0 /\ waitingForReply[b][a] = 0
                         /\ waitingForDelayedReply[b][a] = 0 /\ blocked[a][b] = 0
                         /\ ~Registered(a)
  BY DEF Init, None, Registered
<1>2. ~stray
  BY DEF Init
<1> QED
  BY <1>1, <1>2 DEF CallsAgree, PairAgrees, NoStrayAnswer

\* An id belongs to the one connection the table has for it.
LEMMA OwnerOf ==
  ASSUME TypeOK, NameTable, NEW a \in Conn, NEW n \in Name
  PROVE  /\ appIds[n] = a => Registered(a) /\ appId[a] = n
         /\ Registered(a) => appId[a] \in Name /\ appIds[appId[a]] = a
  BY NameAssumption, ConnAssumption DEF TypeOK, NameTable, Registered

-----------------------------------------------------------------------------
(* One lemma per operation that touches the calls.                         *)

LEMMA CallKeeps ==
  ASSUME TypeOK, NameTable, CallsAgree, NEW c \in Conn, NEW n \in Name, Call(c, n)
  PROVE  CallsAgree'
<1> DEFINE t == appIds[n]
<1>1. t \in Conn /\ Registered(t) /\ Registered(c) /\ appId[c] \in Name
  BY OwnerOf DEF Call, TypeOK, Registered
<1>2. /\ waitingForReply' = Append1(waitingForReply, t, c)
      /\ waitingOnReply' = Append1(waitingOnReply, c, t)
      /\ blocked' = Append1(blocked, c, t)
      /\ owed' = [owed EXCEPT ![t][appId[c]] = @ + 1]
      /\ UNCHANGED <<appId, waitingForDelayedReply, owedDelayed, stray>>
  BY DEF Call
<1> HIDE DEF t
<1> SUFFICES ASSUME NEW a \in Conn, NEW b \in Conn PROVE PairAgrees(a, b)'
  BY <1>2 DEF CallsAgree, NoStrayAnswer
<1>3. /\ waitingOnReply'[a][b] =
           IF a = c /\ b = t THEN waitingOnReply[a][b] + 1 ELSE waitingOnReply[a][b]
      /\ waitingForReply'[b][a] =
           IF a = c /\ b = t THEN waitingForReply[b][a] + 1 ELSE waitingForReply[b][a]
      /\ blocked'[a][b] = IF a = c /\ b = t THEN blocked[a][b] + 1 ELSE blocked[a][b]
  <2>1. waitingOnReply \in Lists /\ waitingForReply \in Lists /\ blocked \in Lists
    BY DEF TypeOK, Lists
  <2>2. waitingOnReply'[a][b] =
          IF a = c /\ b = t THEN waitingOnReply[a][b] + 1 ELSE waitingOnReply[a][b]
    BY <1>1, <1>2, <2>1 DEF Append1, Lists
  <2>3. waitingForReply'[b][a] =
          IF b = t /\ a = c THEN waitingForReply[b][a] + 1 ELSE waitingForReply[b][a]
    BY <1>1, <1>2, <2>1 DEF Append1, Lists
  <2>4. blocked'[a][b] = IF a = c /\ b = t THEN blocked[a][b] + 1 ELSE blocked[a][b]
    BY <1>1, <1>2, <2>1 DEF Append1, Lists
  <2> QED
    BY <2>2, <2>3, <2>4
<1>4. Registered(a) => owed'[b][appId[a]] = IF a = c /\ b = t THEN owed[b][appId[a]] + 1
                                                              ELSE owed[b][appId[a]]
  BY <1>1, <1>2, OwnerOf DEF TypeOK
<1>5. Registered(a)' <=> Registered(a)
  BY <1>2 DEF Registered
<1>6. Registered(b)' <=> Registered(b)
  BY <1>2 DEF Registered
<1>7. /\ waitingOnReply[a][b] \in Nat /\ waitingForReply[b][a] \in Nat
      /\ waitingForDelayedReply[b][a] \in Nat /\ blocked[a][b] \in Nat
  BY DEF TypeOK
<1>8. PairAgrees(a, b)
  BY DEF CallsAgree
<1>9. appId'[a] = appId[a]
  BY <1>2
<1> QED
  BY <1>1, <1>2, <1>3, <1>4, <1>5, <1>6, <1>7, <1>8, <1>9 DEF PairAgrees

\* The four kinds of answer touch the pair of the answering client b and the
\* client t that has the id n, and what b owes to n.  The lists and debts that
\* an answer edits, entry by entry.
LEMMA Entries ==
  ASSUME TypeOK, NEW a \in Conn, NEW b \in Conn
  PROVE  /\ waitingOnReply[a][b] \in Nat /\ waitingForReply[b][a] \in Nat
         /\ waitingForDelayedReply[b][a] \in Nat /\ blocked[a][b] \in Nat
         /\ \A n \in Name : owed[b][n] \in Nat /\ owedDelayed[b][n] \in Nat
  BY DEF TypeOK

LEMMA ReplyKeeps ==
  ASSUME TypeOK, NameTable, CallsAgree, NEW c \in Conn, NEW n \in Name, Reply(c, n)
  PROVE  CallsAgree'
<1> DEFINE t == appIds[n]
<1>1. /\ owed[c][n] > 0 /\ owed' = [owed EXCEPT ![c][n] = @ - 1]
      /\ UNCHANGED <<appId, owedDelayed, waitingForDelayedReply>>
  BY DEF Reply
<1>2. CASE t = NoConn
  <2>1. UNCHANGED <<waitingOnReply, waitingForReply, blocked, stray>>
    BY <1>2 DEF Reply
  <2> SUFFICES ASSUME NEW a \in Conn, NEW b \in Conn PROVE PairAgrees(a, b)'
    BY <2>1 DEF CallsAgree, NoStrayAnswer
  <2>2. PairAgrees(a, b)
    BY DEF CallsAgree
  <2>3. Registered(a) => appId[a] \in Name /\ appId[a] # n
    BY <1>2, OwnerOf, ConnAssumption
  <2>4. Registered(a) => owed'[b][appId[a]] = owed[b][appId[a]]
    BY <1>1, <2>3 DEF TypeOK
  <2> QED
    BY <1>1, <2>1, <2>2, <2>4 DEF PairAgrees, Registered
<1>3. CASE t \in Conn
  <2> HIDE DEF t
  <2>1. /\ waitingForReply' = RemoveRef(waitingForReply, c, t)
        /\ waitingOnReply' = RemoveRef(waitingOnReply, t, c)
        /\ blocked' = RemoveRef(blocked, t, c)
        /\ stray' = (stray \/ blocked[t][c] = 0)
    BY <1>3, ConnAssumption DEF Reply, Deliver, t
  <2>2. Registered(t) /\ appId[t] = n
    BY <1>3, OwnerOf DEF t
  <2>3. waitingForReply[c][t] > 0 /\ waitingOnReply[t][c] > 0 /\ blocked[t][c] > 0
    <3>1. PairAgrees(t, c)
      BY <1>3 DEF CallsAgree
    <3> QED
      BY <1>1, <1>3, <2>2, <3>1, Entries DEF PairAgrees
  <2>4. ~stray'
    <3>1. ~stray
      BY DEF CallsAgree, NoStrayAnswer
    <3>2. blocked[t][c] # 0
      BY <2>3
    <3> QED
      BY <2>1, <3>1, <3>2, Zenon
  <2> SUFFICES ASSUME NEW a \in Conn, NEW b \in Conn PROVE PairAgrees(a, b)'
    BY <2>4 DEF CallsAgree, NoStrayAnswer
  <2>5. PairAgrees(a, b)
    BY DEF CallsAgree
  <2>6. /\ waitingOnReply'[a][b] =
             IF a = t /\ b = c THEN waitingOnReply[a][b] - 1 ELSE waitingOnReply[a][b]
        /\ waitingForReply'[b][a] =
             IF a = t /\ b = c THEN waitingForReply[b][a] - 1 ELSE waitingForReply[b][a]
        /\ blocked'[a][b] = IF a = t /\ b = c THEN blocked[a][b] - 1 ELSE blocked[a][b]
    BY <1>3, <2>1, <2>3 DEF RemoveRef, Minus, TypeOK
  <2>7. Registered(a) => owed'[b][appId[a]] = IF a = t /\ b = c THEN owed[b][appId[a]] - 1
                                                                ELSE owed[b][appId[a]]
    BY <1>1, <1>3, <2>2, OwnerOf DEF TypeOK, t
  <2> QED
    BY <1>1, <2>2, <2>3, <2>5, <2>6, <2>7, Entries DEF PairAgrees, Registered
<1> QED
  BY <1>2, <1>3 DEF TypeOK

LEMMA ReplyWaitKeeps ==
  ASSUME TypeOK, NameTable, CallsAgree, NEW c \in Conn, NEW n \in Name, ReplyWait(c, n)
  PROVE  CallsAgree'
<1> DEFINE t == appIds[n]
<1>1. /\ owed[c][n] > 0 /\ owed' = [owed EXCEPT ![c][n] = @ - 1]
      /\ owedDelayed' = [owedDelayed EXCEPT ![c][n] = @ + 1]
      /\ UNCHANGED <<appId, waitingOnReply, blocked, stray>>
  BY DEF ReplyWait
<1>2. CASE t = NoConn
  <2>1. UNCHANGED <<waitingForReply, waitingForDelayedReply>>
    BY <1>2 DEF ReplyWait
  <2> SUFFICES ASSUME NEW a \in Conn, NEW b \in Conn PROVE PairAgrees(a, b)'
    BY <1>1 DEF CallsAgree, NoStrayAnswer
  <2>2. PairAgrees(a, b)
    BY DEF CallsAgree
  <2>3. Registered(a) => appId[a] \in Name /\ appId[a] # n
    BY <1>2, OwnerOf, ConnAssumption
  <2>4. Registered(a) => /\ owed'[b][appId[a]] = owed[b][appId[a]]
                         /\ owedDelayed'[b][appId[a]] = owedDelayed[b][appId[a]]
    BY <1>1, <2>3 DEF TypeOK
  <2> QED
    BY <1>1, <2>1, <2>2, <2>4 DEF PairAgrees, Registered
<1>3. CASE t \in Conn
  <2> HIDE DEF t
  <2>1. /\ waitingForReply' = RemoveRef(waitingForReply, c, t)
        /\ waitingForDelayedReply' = Append1(waitingForDelayedReply, c, t)
    BY <1>3, ConnAssumption DEF ReplyWait, t
  <2>2. Registered(t) /\ appId[t] = n
    BY <1>3, OwnerOf DEF t
  <2>3. waitingForReply[c][t] > 0
    <3>1. PairAgrees(t, c)
      BY <1>3 DEF CallsAgree
    <3> QED
      BY <1>1, <1>3, <2>2, <3>1, Entries DEF PairAgrees
  <2> SUFFICES ASSUME NEW a \in Conn, NEW b \in Conn PROVE PairAgrees(a, b)'
    BY <1>1 DEF CallsAgree, NoStrayAnswer
  <2>5. PairAgrees(a, b)
    BY DEF CallsAgree
  <2>6. /\ waitingForReply'[b][a] =
             IF a = t /\ b = c THEN waitingForReply[b][a] - 1 ELSE waitingForReply[b][a]
        /\ waitingForDelayedReply'[b][a] =
             IF a = t /\ b = c THEN waitingForDelayedReply[b][a] + 1
                               ELSE waitingForDelayedReply[b][a]
    BY <1>3, <2>1, <2>3 DEF RemoveRef, Append1, Minus, TypeOK
  <2>7. Registered(a) =>
          /\ owed'[b][appId[a]] = IF a = t /\ b = c THEN owed[b][appId[a]] - 1
                                                    ELSE owed[b][appId[a]]
          /\ owedDelayed'[b][appId[a]] = IF a = t /\ b = c THEN owedDelayed[b][appId[a]] + 1
                                                           ELSE owedDelayed[b][appId[a]]
    BY <1>1, <1>3, <2>2, OwnerOf DEF TypeOK, t
  <2>8. (Registered(a)' <=> Registered(a)) /\ (Registered(b)' <=> Registered(b))
    BY <1>1 DEF Registered
  <2>9. CASE a = t /\ b = c
    <3>1. /\ waitingForReply'[b][a] = waitingForReply[b][a] - 1
          /\ waitingForDelayedReply'[b][a] = waitingForDelayedReply[b][a] + 1
      BY <2>6, <2>9
    <3>2. /\ owed'[b][appId'[a]] = owed[b][appId[a]] - 1
          /\ owedDelayed'[b][appId'[a]] = owedDelayed[b][appId[a]] + 1
      BY <1>1, <2>2, <2>7, <2>9
    <3>3. waitingOnReply'[a][b] = waitingOnReply[a][b] /\ blocked'[a][b] = blocked[a][b]
      BY <1>1
    <3> QED
      BY <2>2, <2>5, <2>8, <2>9, <3>1, <3>2, <3>3, Entries DEF PairAgrees
  <2>10. CASE ~(a = t /\ b = c)
    BY <1>1, <2>5, <2>6, <2>7, <2>8, <2>10 DEF PairAgrees
  <2> QED
    BY <2>9, <2>10
<1> QED
  BY <1>2, <1>3 DEF TypeOK

LEMMA ReplyDelayedKeeps ==
  ASSUME TypeOK, NameTable, CallsAgree, NEW c \in Conn, NEW n \in Name, ReplyDelayed(c, n)
  PROVE  CallsAgree'
<1> DEFINE t == appIds[n]
<1>1. /\ owedDelayed[c][n] > 0 /\ owedDelayed' = [owedDelayed EXCEPT ![c][n] = @ - 1]
      /\ UNCHANGED <<appId, owed, waitingForReply>>
  BY DEF ReplyDelayed
<1>2. CASE t = NoConn
  <2>1. UNCHANGED <<waitingOnReply, waitingForDelayedReply, blocked, stray>>
    BY <1>2 DEF ReplyDelayed
  <2> SUFFICES ASSUME NEW a \in Conn, NEW b \in Conn PROVE PairAgrees(a, b)'
    BY <2>1 DEF CallsAgree, NoStrayAnswer
  <2>2. PairAgrees(a, b)
    BY DEF CallsAgree
  <2>3. Registered(a) => appId[a] \in Name /\ appId[a] # n
    BY <1>2, OwnerOf, ConnAssumption
  <2>4. Registered(a) => owedDelayed'[b][appId[a]] = owedDelayed[b][appId[a]]
    BY <1>1, <2>3 DEF TypeOK
  <2> QED
    BY <1>1, <2>1, <2>2, <2>4 DEF PairAgrees, Registered
<1>3. CASE t \in Conn
  <2> HIDE DEF t
  <2>1. Registered(t) /\ appId[t] = n
    BY <1>3, OwnerOf DEF t
  <2>2. /\ waitingForDelayedReply[c][t] > 0 /\ waitingOnReply[t][c] > 0
        /\ blocked[t][c] > 0
    <3>1. PairAgrees(t, c)
      BY <1>3 DEF CallsAgree
    <3> QED
      BY <1>1, <1>3, <2>1, <3>1, Entries DEF PairAgrees
  <2>3. /\ waitingForDelayedReply' = RemoveRef(waitingForDelayedReply, c, t)
        /\ waitingOnReply' = RemoveRef(waitingOnReply, t, c)
        /\ blocked' = RemoveRef(blocked, t, c)
        /\ stray' = (stray \/ blocked[t][c] = 0)
    BY <1>3, <2>2, ConnAssumption DEF ReplyDelayed, Deliver, t
  <2>4. ~stray'
    <3>1. ~stray
      BY DEF CallsAgree, NoStrayAnswer
    <3>2. blocked[t][c] # 0
      BY <2>2
    <3> QED
      BY <2>3, <3>1, <3>2, Zenon
  <2> SUFFICES ASSUME NEW a \in Conn, NEW b \in Conn PROVE PairAgrees(a, b)'
    BY <2>4 DEF CallsAgree, NoStrayAnswer
  <2>5. PairAgrees(a, b)
    BY DEF CallsAgree
  <2>6. /\ waitingOnReply'[a][b] =
             IF a = t /\ b = c THEN waitingOnReply[a][b] - 1 ELSE waitingOnReply[a][b]
        /\ waitingForDelayedReply'[b][a] =
             IF a = t /\ b = c THEN waitingForDelayedReply[b][a] - 1
                               ELSE waitingForDelayedReply[b][a]
        /\ blocked'[a][b] = IF a = t /\ b = c THEN blocked[a][b] - 1 ELSE blocked[a][b]
    BY <1>3, <2>2, <2>3 DEF RemoveRef, Minus, TypeOK
  <2>7. Registered(a) =>
          owedDelayed'[b][appId[a]] = IF a = t /\ b = c THEN owedDelayed[b][appId[a]] - 1
                                                        ELSE owedDelayed[b][appId[a]]
    BY <1>1, <1>3, <2>1, OwnerOf DEF TypeOK, t
  <2> QED
    BY <1>1, <2>1, <2>2, <2>5, <2>6, <2>7, Entries DEF PairAgrees, Registered
<1> QED
  BY <1>2, <1>3 DEF TypeOK

LEMMA RegisterAsKeeps ==
  ASSUME Calm, TypeOK, NameTable, CallsAgree, NEW c \in Conn, NEW app \in Name,
         RegisterAs(c, app)
  PROVE  CallsAgree'
<1>1. PICK new \in Name :
        /\ MayRegister(c, new)
        /\ appId' = [appId EXCEPT ![c] = new]
        /\ UNCHANGED <<replyVars, callVars>>
  BY DEF RegisterAs
<1>2. \A b \in Conn : owed[b][new] = 0 /\ owedDelayed[b][new] = 0
  BY <1>1 DEF MayRegister, Calm
<1>3. Registered(c) => blocked[c] = None
  BY <1>1 DEF MayRegister, Calm
<1>4. \A b \in Conn : waitingOnReply[c][b] = 0
  <2> SUFFICES ASSUME NEW b \in Conn PROVE waitingOnReply[c][b] = 0
    OBVIOUS
  <2>1. PairAgrees(c, b)
    BY DEF CallsAgree
  <2>2. CASE Registered(c)
    BY <1>3, <2>1, <2>2 DEF PairAgrees, None
  <2>3. CASE ~Registered(c)
    BY <2>1, <2>3, Entries DEF PairAgrees
  <2> QED
    BY <2>2, <2>3
<1>5. \A x \in Conn : Registered(x)' <=> Registered(x) \/ x = c
  BY <1>1, NameAssumption DEF Registered, TypeOK
<1> SUFFICES ASSUME NEW a \in Conn, NEW b \in Conn PROVE PairAgrees(a, b)'
  BY <1>1 DEF CallsAgree, NoStrayAnswer
<1>6. PairAgrees(a, b)
  BY DEF CallsAgree
<1>7. CASE a = c
  <2>1. /\ waitingOnReply[a][b] = 0 /\ waitingForReply[b][a] = 0
        /\ waitingForDelayedReply[b][a] = 0
    BY <1>4, <1>6, <1>7, Entries DEF PairAgrees
  <2>2. appId'[a] = new
    BY <1>1, <1>7 DEF TypeOK
  <2> QED
    BY <1>1, <1>2, <1>6, <2>1, <2>2 DEF PairAgrees
<1>8. CASE a # c
  <2>1. appId'[a] = appId[a]
    BY <1>1, <1>8
  <2> QED
    BY <1>1, <1>5, <1>6, <1>8, <2>1 DEF PairAgrees
<1> QED
  BY <1>7, <1>8

\* removeConnection() leaves nobody waiting for c or waited for by c, and does
\* not touch the calls of the others.
LEMMA RemoveConnectionClears ==
  ASSUME TypeOK, CallsAgree, NEW c \in Conn, RemoveConnection(c),
         NEW a \in Conn, NEW b \in Conn
  PROVE  IF a = c \/ b = c
           THEN /\ waitingOnReply'[a][b] = 0 /\ waitingForReply'[b][a] = 0
                /\ waitingForDelayedReply'[b][a] = 0 /\ blocked'[a][b] = 0
           ELSE /\ waitingOnReply'[a][b] = waitingOnReply[a][b]
                /\ waitingForReply'[b][a] = waitingForReply[b][a]
                /\ waitingForDelayedReply'[b][a] = waitingForDelayedReply[b][a]
                /\ blocked'[a][b] = blocked[a][b]
<1> DEFINE failed == waitingForReply[c][a] + waitingForDelayedReply[c][a]
<1>1. /\ waitingOnReply'[a] = IF a = c THEN None
           ELSE [waitingOnReply[a] EXCEPT ![c] = Minus(@, failed)]
      /\ blocked'[a] = IF a = c THEN None
           ELSE [blocked[a] EXCEPT ![c] = Minus(@, failed)]
      /\ waitingForReply'[b] = IF b = c THEN None
           ELSE [waitingForReply[b] EXCEPT ![c] = Minus(@, waitingOnReply[c][b])]
      /\ waitingForDelayedReply'[b] = IF b = c THEN None
           ELSE [waitingForDelayedReply[b] EXCEPT ![c] =
                   Minus(@, Minus(waitingOnReply[c][b], waitingForReply[b][c]))]
  BY DEF RemoveConnection, AbortCalls, Failed
<1>2. PairAgrees(a, c) /\ PairAgrees(c, b)
  BY DEF CallsAgree
<1>3. /\ waitingOnReply[a] \in [Conn -> Nat] /\ blocked[a] \in [Conn -> Nat]
      /\ waitingForReply[b] \in [Conn -> Nat]
      /\ waitingForDelayedReply[b] \in [Conn -> Nat]
  BY DEF TypeOK
<1>4. failed = waitingOnReply[a][c] /\ failed = blocked[a][c]
  BY <1>2 DEF PairAgrees
<1>5. waitingOnReply[c][b] = waitingForReply[b][c] + waitingForDelayedReply[b][c]
  BY <1>2 DEF PairAgrees
<1>6. /\ waitingOnReply'[a][b] = IF a = c \/ b = c THEN 0 ELSE waitingOnReply[a][b]
      /\ blocked'[a][b] = IF a = c \/ b = c THEN 0 ELSE blocked[a][b]
  <2> HIDE DEF failed
  <2>1. Minus(waitingOnReply[a][c], failed) = 0 /\ Minus(blocked[a][c], failed) = 0
    BY <1>3, <1>4 DEF Minus
  <2> QED
    BY <1>1, <1>3, <2>1 DEF None
<1>7. waitingForReply'[b][a] = IF a = c \/ b = c THEN 0 ELSE waitingForReply[b][a]
  <2>1. Minus(waitingForReply[b][c], waitingOnReply[c][b]) = 0
    BY <1>5, Entries DEF Minus
  <2> QED
    BY <1>1, <1>3, <2>1 DEF None
<1>8. waitingForDelayedReply'[b][a] =
        IF a = c \/ b = c THEN 0 ELSE waitingForDelayedReply[b][a]
  <2>1. Minus(waitingForDelayedReply[b][c],
              Minus(waitingOnReply[c][b], waitingForReply[b][c])) = 0
    BY <1>5, Entries DEF Minus
  <2> QED
    BY <1>1, <1>3, <2>1 DEF None
<1> QED
  BY <1>6, <1>7, <1>8

LEMMA RemoveConnectionKeeps ==
  ASSUME TypeOK, CallsAgree, NEW c \in Conn, RemoveConnection(c)
  PROVE  CallsAgree'
<1>1. /\ appId' = [appId EXCEPT ![c] = NoName]
      /\ owed' = [owed EXCEPT ![c] = NoneOwed]
      /\ owedDelayed' = [owedDelayed EXCEPT ![c] = NoneOwed]
  BY DEF RemoveConnection, AbortCalls, Failed
<1>2. ~stray'
  <2>1. \A x \in Conn : waitingForReply[c][x] + waitingForDelayedReply[c][x] = blocked[x][c]
    BY DEF CallsAgree, PairAgrees
  <2>2. \A x \in Conn : ~(waitingForReply[c][x] + waitingForDelayedReply[c][x] > blocked[x][c])
    BY <2>1, Entries
  <2>3. stray' = (stray \/ \E x \in clients \ {c} :
                    waitingForReply[c][x] + waitingForDelayedReply[c][x] > blocked[x][c])
    BY DEF RemoveConnection, AbortCalls, Failed
  <2>4. ~stray /\ clients \subseteq Conn
    BY DEF CallsAgree, NoStrayAnswer, TypeOK
  <2> QED
    BY <2>2, <2>3, <2>4
<1> SUFFICES ASSUME NEW a \in Conn, NEW b \in Conn PROVE PairAgrees(a, b)'
  BY <1>2 DEF CallsAgree, NoStrayAnswer
<1>3. PairAgrees(a, b)
  BY DEF CallsAgree
<1>4. Registered(a)' <=> Registered(a) /\ a # c
  BY <1>1 DEF Registered, TypeOK
<1>5. Registered(b)' <=> Registered(b) /\ b # c
  BY <1>1 DEF Registered, TypeOK
<1>6. CASE a = c
  BY <1>4, <1>6, RemoveConnectionClears DEF PairAgrees
<1>7. CASE a # c /\ b = c
  <2>1. Registered(a) => owed'[b][appId'[a]] = 0 /\ owedDelayed'[b][appId'[a]] = 0
    BY <1>1, <1>7 DEF TypeOK, NoneOwed, Registered
  <2> QED
    BY <1>4, <1>7, <2>1, RemoveConnectionClears DEF PairAgrees
<1>8. CASE a # c /\ b # c
  <2>1. /\ appId'[a] = appId[a] /\ owed'[b] = owed[b]
        /\ owedDelayed'[b] = owedDelayed[b]
    BY <1>1, <1>8 DEF TypeOK
  <2> QED
    BY <1>3, <1>4, <1>5, <1>8, <2>1, RemoveConnectionClears DEF PairAgrees
<1> QED
  BY <1>6, <1>7, <1>8

LEMMA CallsStep ==
  ASSUME Calm, TypeOK, NameTable, CallsAgree, [Next]_vars
  PROVE  CallsAgree'
<1>1. CASE UNCHANGED <<appId, appIds, replyVars, callVars>>
  BY <1>1 DEF CallsAgree, PairAgrees, NoStrayAnswer, Registered
<1>2. CASE UNCHANGED vars
  BY <1>1, <1>2 DEF vars
<1>3. CASE Next
  BY <1>1, <1>3, CallFrame, RegisterAsKeeps, CallKeeps, ReplyKeeps, ReplyWaitKeeps,
     ReplyDelayedKeeps, RemoveConnectionKeeps
<1> QED
  BY <1>2, <1>3

-----------------------------------------------------------------------------
\* Lists, blocked callers and debts agree, call by call, and nobody is handed
\* an answer that is not due: the strengthening the theorems below rest on.
THEOREM CallsAlwaysAgree == ASSUME Calm PROVE Spec => []CallsAgree
<1>1. TypeOK /\ NameTable /\ CallsAgree /\ [Next]_vars => CallsAgree'
  BY CallsStep
<1> QED
  BY <1>1, CallsInit, TypeCorrect, NamesAgree, PTL DEF Spec

\* A client is in another's list of callers, to be answered now or later, as
\* often as it waits on that one, and nobody waits on or for a removed client.
THEOREM CallsAreBooked == ASSUME Calm PROVE Spec => []CallBookkeeping
<1>1. TypeOK /\ NameTable /\ CallsAgree => CallBookkeeping
  BY DEF CallsAgree, PairAgrees, NameTable, CallBookkeeping
<1> QED
  BY <1>1, CallsAlwaysAgree, TypeCorrect, NamesAgree, PTL

\* Whoever is waited on and still runs owes the answer: nobody waits for nothing.
THEOREM NobodyWaitsInVain == ASSUME Calm PROVE Spec => []WaitingMeansOwed
<1>1. TypeOK /\ NameTable /\ CallsAgree => WaitingMeansOwed
  <2> SUFFICES ASSUME TypeOK, NameTable, CallsAgree,
                      NEW a \in clients, NEW b \in running, waitingOnReply[a][b] > 0
               PROVE  \E n \in Name : owed[b][n] + owedDelayed[b][n] > 0
    BY DEF WaitingMeansOwed
  <2>1. a \in Conn /\ b \in Conn
    BY DEF TypeOK
  <2>2. PairAgrees(a, b)
    BY <2>1 DEF CallsAgree
  <2>3. appId[a] \in Name
    BY <2>1, <2>2 DEF PairAgrees, Registered, TypeOK
  <2> QED
    BY <2>1, <2>2, <2>3 DEF PairAgrees
<1> QED
  BY <1>1, CallsAlwaysAgree, TypeCorrect, NamesAgree, PTL

\* No client is handed an answer to a call it did not make.
THEOREM AnswersAreDue == ASSUME Calm PROVE Spec => []NoStrayAnswer
<1>1. CallsAgree => NoStrayAnswer
  BY DEF CallsAgree
<1> QED
  BY <1>1, CallsAlwaysAgree, PTL

-----------------------------------------------------------------------------
(* DCOPServer implements CallService: what a client waits for is what the  *)
(* service has pending.                                                    *)

\* A step that moves neither clients nor calls is a stutter of the service,
\* a step that ends the server its Stop.
LEMMA ServiceFrame ==
  ASSUME TypeOK, Next
  PROVE  \/ \E c \in Conn : NewClient(c) \/ ClientGone(c) \/ RemoveConnection(c)
         \/ \E c \in Conn, n \in Name : Call(c, n) \/ Reply(c, n) \/ ReplyDelayed(c, n)
         \/ UNCHANGED <<clients, running, blocked, exited>>
         \/ UNCHANGED <<clients, running, blocked>> /\ exited'
<1>1. ASSUME NEW c \in Conn,
             \/ \E app \in Name : RegisterAs(c, app)
             \/ \E on \in BOOLEAN : SetDaemonMode(c, on) \/ SetNotifications(c, on)
             \/ \E n \in Name : ReplyWait(c, n)
      PROVE  UNCHANGED <<clients, running, blocked, exited>>
  BY <1>1 DEF RegisterAs, SetDaemonMode, SetNotifications, ReplyWait
<1>2. ASSUME NEW c \in Conn, SignalStep(c)
      PROVE  UNCHANGED <<clients, running, blocked, exited>>
  BY <1>2, SignalFrame
<1>3. ASSUME Timeout \/ Shutdown
      PROVE  \/ UNCHANGED <<clients, running, blocked, exited>>
             \/ UNCHANGED <<clients, running, blocked>> /\ exited'
  <2>1. UNCHANGED <<clients, running, blocked>> /\ ~exited
    BY <1>3 DEF Timeout, Shutdown
  <2>2. exited \in BOOLEAN /\ exited' \in BOOLEAN
    BY <1>3 DEF Timeout, Shutdown, TypeOK
  <2>3. exited' = exited \/ exited'
    BY <2>1, <2>2
  <2> QED
    BY <2>1, <2>3
<1> QED
  BY <1>1, <1>2, <1>3 DEF Next

\* An answer that reaches a client ends one call that the client waits for.
LEMMA AnswerIsDue ==
  ASSUME TypeOK, NameTable, CallsAgree, NEW c \in Conn, NEW n \in Name,
         Reply(c, n) \/ ReplyDelayed(c, n), appIds[n] # NoConn
  PROVE  /\ appIds[n] \in Conn /\ blocked[appIds[n]][c] > 0
         /\ blocked' = RemoveRef(blocked, appIds[n], c)
<1>1. appIds[n] \in Conn
  BY DEF TypeOK
<1>2. PairAgrees(appIds[n], c) /\ Registered(appIds[n]) /\ appId[appIds[n]] = n
  BY <1>1, OwnerOf DEF CallsAgree
<1>3. owed[c][n] > 0 \/ owedDelayed[c][n] > 0
  BY DEF Reply, ReplyDelayed
<1>4. blocked[appIds[n]][c] > 0
  BY <1>1, <1>2, <1>3, Entries DEF PairAgrees
<1>5. blocked' = RemoveRef(blocked, appIds[n], c)
  BY DEF Reply, ReplyDelayed, Deliver
<1> QED
  BY <1>1, <1>4, <1>5

LEMMA ServiceStep ==
  ASSUME TypeOK, NameTable, CallsAgree, Next
  PROVE  [Service!Next]_(Service!vars)
<1> USE DEF Service!vars
<1>1. ASSUME NEW c \in Conn, NewClient(c) PROVE Service!Next
  <2>1. Service!Connect(c)
    BY <1>1 DEF NewClient, Service!Connect
  <2> QED
    BY <2>1 DEF Service!Next
<1>2. ASSUME NEW c \in Conn, ClientGone(c) PROVE Service!Next
  <2>1. Service!Die(c)
    BY <1>2 DEF ClientGone, Up, Service!Die
  <2> QED
    BY <2>1 DEF Service!Next
<1>3. ASSUME NEW c \in Conn, RemoveConnection(c) PROVE Service!Next
  <2>1. \A a, b \in Conn : blocked'[a][b] = IF a = c \/ b = c THEN 0 ELSE blocked[a][b]
    BY <1>3, RemoveConnectionClears
  <2>2. blocked' \in [Conn -> [Conn -> Nat]]
    BY <1>3, RemovalType DEF TypeOK
  <2>3. blocked' = [a \in Conn |-> IF a = c THEN Service!NothingPending
                                   ELSE [blocked[a] EXCEPT ![c] = 0]]
    <3>1. \A a \in Conn : blocked'[a] = IF a = c THEN Service!NothingPending
                                        ELSE [blocked[a] EXCEPT ![c] = 0]
      BY <2>1, <2>2 DEF Service!NothingPending, TypeOK
    <3> QED
      BY <2>2, <3>1
  <2>4. Service!Gone(c)
    BY <1>3, <2>3 DEF RemoveConnection, Service!Gone
  <2> QED
    BY <2>4 DEF Service!Next
<1>4. ASSUME NEW c \in Conn, NEW n \in Name, Call(c, n) PROVE Service!Next
  <2>1. appIds[n] \in Conn /\ appIds[n] \in clients
    BY <1>4, OwnerOf DEF Call, TypeOK, NameTable
  <2>2. Service!Call(c, appIds[n])
    BY <1>4, <2>1 DEF Call, Up, Append1, Service!Call
  <2> QED
    BY <2>1, <2>2 DEF Service!Next
<1>5. ASSUME NEW c \in Conn, NEW n \in Name, Reply(c, n) \/ ReplyDelayed(c, n)
      PROVE  [Service!Next]_(Service!vars)
  <2>1. c \in running /\ UNCHANGED <<clients, running, exited>>
    BY <1>5 DEF Reply, ReplyDelayed, Up
  <2>2. CASE appIds[n] = NoConn
    <3>1. blocked' = blocked
      BY <1>5, <2>2 DEF Reply, ReplyDelayed
    <3> QED
      BY <2>1, <3>1
  <2>3. CASE appIds[n] # NoConn
    <3> DEFINE a == appIds[n]
    <3>1. /\ a \in Conn /\ blocked[a][c] > 0
          /\ blocked' = [blocked EXCEPT ![a][c] = Minus(@, 1)]
      BY <1>5, <2>3, AnswerIsDue DEF RemoveRef
    <3> HIDE DEF a
    <3>2. Minus(blocked[a][c], 1) = blocked[a][c] - 1
      BY <3>1 DEF Minus, TypeOK
    <3>3. blocked' = [blocked EXCEPT ![a][c] = @ - 1]
      BY <3>1, <3>2
    <3>4. Service!Answer(a, c)
      BY <2>1, <3>1, <3>3 DEF Service!Answer
    <3> QED
      BY <3>1, <3>4 DEF Service!Next
  <2> QED
    BY <2>2, <2>3
<1>6. ASSUME UNCHANGED <<clients, running, blocked>>, exited'
      PROVE  [Service!Next]_(Service!vars)
  BY <1>6 DEF Service!Next, Service!Stop
<1> QED
  BY <1>1, <1>2, <1>3, <1>4, <1>5, <1>6, ServiceFrame

\* Every behaviour of the server is one of the call service: a call ends when
\* its answer comes or the called client is removed, and in no other way.
THEOREM ImplementsService ==
  ASSUME Calm
  PROVE  Spec => Service!Init /\ [][Service!Next]_(Service!vars)
<1>1. Init => Service!Init
  BY DEF Init, None, Service!Init, Service!NothingPending
<1>2. TypeOK /\ NameTable /\ CallsAgree /\ [Next]_vars => [Service!Next]_(Service!vars)
  <2>1. CASE UNCHANGED vars
    BY <2>1 DEF vars, Service!vars
  <2> QED
    BY <2>1, ServiceStep
<1> QED
  BY <1>1, <1>2, CallsAlwaysAgree, TypeCorrect, NamesAgree, PTL DEF Spec
=============================================================================
