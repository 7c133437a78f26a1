-------------------------- MODULE DCOPServer_proofs --------------------------
(* Theorems about DCOPServer and their proofs.                             *)
EXTENDS DCOPServer, FiniteSetTheorems, TLAPS

(* The state of a server that has handled a step of a connection c.        *)
USE DEF tableVars, replyVars, signalVars, endVars, callVars

-----------------------------------------------------------------------------
(* Lists of connections, kept as counts.                                   *)

Lists == [Conn -> [Conn -> Nat]]

\* append() and removeRef() return lists, and change one entry of one list.
LEMMA ListEdits ==
  ASSUME NEW f \in Lists, NEW x \in Conn, NEW y \in Conn
  PROVE  /\ Append1(f, x, y) \in Lists
         /\ RemoveRef(f, x, y) \in Lists
         /\ \A u, v \in Conn :
              /\ Append1(f, x, y)[u][v] = IF u = x /\ v = y THEN f[u][v] + 1 ELSE f[u][v]
              /\ RemoveRef(f, x, y)[u][v] =
                   IF u = x /\ v = y THEN Minus(f[u][v], 1) ELSE f[u][v]
<1> f[x] \in [Conn -> Nat]
  BY DEF Lists
<1>1. [f[x] EXCEPT ![y] = @ + 1] \in [Conn -> Nat]
  OBVIOUS
<1>2. [f[x] EXCEPT ![y] = Minus(@, 1)] \in [Conn -> Nat]
  BY DEF Minus
<1>3. Append1(f, x, y) \in Lists
  BY <1>1 DEF Append1, Lists
<1>4. RemoveRef(f, x, y) \in Lists
  BY <1>2 DEF RemoveRef, Lists
<1>5. ASSUME NEW u \in Conn, NEW v \in Conn
      PROVE  /\ Append1(f, x, y)[u][v] = IF u = x /\ v = y THEN f[u][v] + 1 ELSE f[u][v]
             /\ RemoveRef(f, x, y)[u][v] =
                  IF u = x /\ v = y THEN Minus(f[u][v], 1) ELSE f[u][v]
  BY DEF Append1, RemoveRef, Lists
<1> QED
  BY <1>3, <1>4, <1>5

\* The same for the calls a client owes an answer for, by id.
LEMMA OwedEdits ==
  ASSUME NEW f \in [Conn -> [Name -> Nat]], NEW x \in Conn, NEW n \in Name
  PROVE  /\ [f EXCEPT ![x][n] = @ + 1] \in [Conn -> [Name -> Nat]]
         /\ f[x][n] > 0 => [f EXCEPT ![x][n] = @ - 1] \in [Conn -> [Name -> Nat]]
<1>1. [f[x] EXCEPT ![n] = @ + 1] \in [Name -> Nat]
  OBVIOUS
<1>2. f[x][n] > 0 => [f[x] EXCEPT ![n] = @ - 1] \in [Name -> Nat]
  OBVIOUS
<1> QED
  BY <1>1, <1>2

-----------------------------------------------------------------------------
LEMMA InitType == Init => TypeOK
<1> SUFFICES ASSUME Init PROVE TypeOK
  OBVIOUS
<1>1. None \in [Conn -> Nat] /\ NoneOwed \in [Name -> Nat]
  BY DEF None, NoneOwed
<1>2. heard \in [by : Conn \cup {NoConn}, fired : SUBSET SignalConnection]
  BY DEF Init, Quiet
<1>3. currentClientNumber \in Int /\ notifyRegister \in [Conn -> Nat]
  BY DEF Init
<1> QED
  BY <1>1, <1>2, <1>3 DEF Init, TypeOK

\* An emission fires connections of the table.
LEMMA EmissionType ==
  ASSUME TypeOK, NEW emitter \in Conn \cup {NoConn}, NEW signal, NEW obj,
         Emission(emitter, signal, obj)
  PROVE  heard' \in [by : Conn \cup {NoConn}, fired : SUBSET SignalConnection]
<1>1. PICK F \in SUBSET connections : heard' = [by |-> emitter, fired |-> F]
  BY DEF Emission
<1> QED
  BY <1>1 DEF TypeOK

\* connectSignal() adds a well-formed connection and nothing else.
LEMMA ConnectType ==
  ASSUME TypeOK, NEW c \in Conn, NEW sender \in SenderIds,
         NEW obj \in Object \cup {NoObject}, NEW signal \in Signal,
         NEW recvObj \in Object, NEW slot \in Slot, NEW volatile \in BOOLEAN,
         ConnectSignal(c, sender, obj, signal, recvObj, slot, volatile), heard' = Quiet
  PROVE  TypeOK'
<1> DEFINE senderConn == IF volatile THEN appIds[sender] ELSE NoConn
<1>1. PICK id \in 1..MaxConnections :
        LET k == [id |-> id, sender |-> sender, senderObj |-> obj,
                  senderConn |-> senderConn, signal |-> signal, recvConn |-> c,
                  recvObj |-> recvObj, slot |-> slot]
        IN /\ volatile => sender \in Name /\ senderConn # NoConn
           /\ connections' = connections \cup {k}
           /\ signalList' = [x \in Conn |-> IF x \in {c, senderConn}
                                              THEN signalList[x] \cup {k}
                                              ELSE signalList[x]]
           /\ UNCHANGED <<tableVars, replyVars, endVars, running, callVars, view>>
  BY DEF ConnectSignal
<1> DEFINE k == [id |-> id, sender |-> sender, senderObj |-> obj,
                 senderConn |-> senderConn, signal |-> signal, recvConn |-> c,
                 recvObj |-> recvObj, slot |-> slot]
<1>2. senderConn \in Conn \cup {NoConn}
  BY <1>1 DEF TypeOK
<1>3. k \in SignalConnection
  BY <1>2 DEF SignalConnection
<1>4. /\ connections' = connections \cup {k}
      /\ signalList' = [x \in Conn |-> IF x \in {c, senderConn}
                                         THEN signalList[x] \cup {k}
                                         ELSE signalList[x]]
      /\ UNCHANGED <<tableVars, replyVars, endVars, running, callVars, view>>
  BY <1>1
<1> HIDE DEF k, senderConn
<1>5. connections' \subseteq SignalConnection /\ signalList' \in [Conn -> SUBSET SignalConnection]
  BY <1>3, <1>4 DEF TypeOK
<1>6. heard' \in [by : Conn \cup {NoConn}, fired : SUBSET SignalConnection]
  BY DEF Quiet
<1> QED
  BY <1>4, <1>5, <1>6 DEF TypeOK

\* removeConnection() leaves well-formed tables.
LEMMA RemovalType ==
  ASSUME TypeOK, NEW c \in Conn, RemoveConnection(c)
  PROVE  TypeOK'
<1> USE DEF TypeOK
<1>1. None \in [Conn -> Nat] /\ NoneOwed \in [Name -> Nat]
  BY DEF None, NoneOwed
<1>2. \A h \in [Conn -> Nat], m \in Nat : [h EXCEPT ![c] = Minus(@, m)] \in [Conn -> Nat]
  BY DEF Minus
<1>3. waitingForReply' \in Lists
  <2> DEFINE g == [x \in Conn |-> waitingOnReply[c][x]]
  <2>1. waitingForReply' = [x \in Conn |-> IF x = c THEN None
          ELSE [waitingForReply[x] EXCEPT ![c] = Minus(@, g[x])]]
    BY DEF RemoveConnection, AbortCalls, Failed
  <2>2. g \in [Conn -> Nat]
    OBVIOUS
  <2> HIDE DEF g
  <2> QED
    BY <1>1, <1>2, <2>1, <2>2 DEF Lists
<1>4. waitingForDelayedReply' \in Lists
  <2> DEFINE g == [x \in Conn |-> Minus(waitingOnReply[c][x], waitingForReply[x][c])]
  <2>1. waitingForDelayedReply' = [x \in Conn |-> IF x = c THEN None
          ELSE [waitingForDelayedReply[x] EXCEPT ![c] = Minus(@, g[x])]]
    BY DEF RemoveConnection, AbortCalls, Failed
  <2>2. g \in [Conn -> Nat]
    BY DEF Minus
  <2> HIDE DEF g
  <2> QED
    BY <1>1, <1>2, <2>1, <2>2 DEF Lists
<1>5. waitingOnReply' \in Lists /\ blocked' \in Lists
  <2> DEFINE g == [x \in Conn |-> waitingForReply[c][x] + waitingForDelayedReply[c][x]]
  <2>1. /\ waitingOnReply' = [x \in Conn |-> IF x = c THEN None
             ELSE [waitingOnReply[x] EXCEPT ![c] = Minus(@, g[x])]]
        /\ blocked' = [x \in Conn |-> IF x = c THEN None
             ELSE [blocked[x] EXCEPT ![c] = Minus(@, g[x])]]
    BY DEF RemoveConnection, AbortCalls, Failed
  <2>2. g \in [Conn -> Nat]
    OBVIOUS
  <2> HIDE DEF g
  <2> QED
    BY <1>1, <1>2, <2>1, <2>2 DEF Lists
<1>6. /\ m_timer' \in BOOLEAN /\ stray' \in BOOLEAN /\ currentClientNumber' \in Int
      /\ UNCHANGED <<timeoutSlots, shutdown, announced, exited, running>>
      /\ running' \subseteq clients'
  BY DEF RemoveConnection, AbortCalls, TimerAfterRemoval
<1>7. /\ owed' \in [Conn -> [Name -> Nat]] /\ owedDelayed' \in [Conn -> [Name -> Nat]]
      /\ view' \in [Conn -> SUBSET Name]
  BY <1>1 DEF RemoveConnection, AbortCalls
<1>8. /\ appId' \in [Conn -> Name \cup {NoName}] /\ appIds' \in [Name -> Conn \cup {NoConn}]
      /\ daemon' \in [Conn -> BOOLEAN] /\ notifyRegister' \in [Conn -> Nat]
      /\ clients' \subseteq Conn
  BY DEF RemoveConnection
<1>9. /\ connections' \subseteq SignalConnection
      /\ signalList' \in [Conn -> SUBSET SignalConnection]
  BY DEF RemoveConnection, RemoveConnections
<1>10. heard' \in [by : Conn \cup {NoConn}, fired : SUBSET SignalConnection]
  BY DEF RemoveConnection, NoEmission, Quiet
<1> QED
  BY <1>3, <1>4, <1>5, <1>6, <1>7, <1>8, <1>9, <1>10 DEF Lists

LEMMA TypeStep == TypeOK /\ Next => TypeOK'
<1> SUFFICES ASSUME TypeOK, Next PROVE TypeOK'
  OBVIOUS
<1> USE DEF TypeOK
<1>0. Quiet \in [by : Conn \cup {NoConn}, fired : SUBSET SignalConnection]
  BY DEF Quiet
<1>1. ASSUME NEW c \in Conn, NewClient(c) PROVE TypeOK'
  BY <1>0, <1>1 DEF NewClient, NoEmission
<1>2. ASSUME NEW c \in Conn, NEW app \in Name, RegisterAs(c, app) PROVE TypeOK'
  <2> DEFINE own == IF Registered(c) /\ appIds[appId[c]] = c THEN {appId[c]} ELSE {}
  <2>1. PICK new \in Name :
          /\ appId' = [appId EXCEPT ![c] = new]
          /\ appIds' = [n \in Name |->
                          IF n = new THEN c ELSE IF n \in own THEN NoConn ELSE appIds[n]]
          /\ IF Registered(c)
               THEN UNCHANGED <<currentClientNumber, m_timer>>
               ELSE currentClientNumber' = currentClientNumber + 1 /\ m_timer' = FALSE
          /\ view' = [x \in Conn |-> IF x \in Told(c) THEN view[x] \cup {new} ELSE view[x]]
          /\ NoEmission
          /\ UNCHANGED <<clients, daemon, notifyRegister, replyVars, signalVars,
                         timeoutSlots, shutdown, announced, exited, running, callVars>>
    BY <1>2 DEF RegisterAs
  <2> HIDE DEF own
  <2>2. appId' \in [Conn -> Name \cup {NoName}] /\ appIds' \in [Name -> Conn \cup {NoConn}]
    BY <2>1
  <2>3. currentClientNumber' \in Int /\ m_timer' \in BOOLEAN
    <3>1. CASE Registered(c)
      BY <2>1, <3>1
    <3>2. CASE ~Registered(c)
      <4>1. m_timer' \in BOOLEAN
        BY <2>1, <3>2, Zenon
      <4> QED
        BY <2>1, <3>2, <4>1
    <3> QED
      BY <3>1, <3>2
  <2>4. view' \in [Conn -> SUBSET Name]
    <3>1. \A x \in Conn : view[x] \cup {new} \subseteq Name /\ view[x] \ {new} \subseteq Name
      OBVIOUS
    <3> QED
      BY <2>1, <3>1
  <2> QED
    BY <1>0, <2>1, <2>2, <2>3, <2>4 DEF NoEmission
<1>3. ASSUME NEW c \in Conn, NEW on \in BOOLEAN, SetDaemonMode(c, on) PROVE TypeOK'
  BY <1>0, <1>3 DEF SetDaemonMode, NoEmission
<1>4. ASSUME NEW c \in Conn, NEW on \in BOOLEAN, SetNotifications(c, on) PROVE TypeOK'
  BY <1>0, <1>4, BoundAssumption DEF SetNotifications, NamesTaken, NoEmission
<1>5. ASSUME NEW c \in Conn, NEW n \in Name, Call(c, n) PROVE TypeOK'
  <2>1. appIds[n] \in Conn /\ appId[c] \in Name
    BY <1>5 DEF Call, Registered
  <2> QED
    BY <1>0, <1>5, <2>1, ListEdits, OwedEdits DEF Call, Lists, NoEmission
<1>6. ASSUME NEW c \in Conn, NEW n \in Name, Reply(c, n) PROVE TypeOK'
  <2>1. owed' \in [Conn -> [Name -> Nat]]
    BY <1>6, OwedEdits DEF Reply
  <2>2. stray' \in BOOLEAN
    BY <1>6 DEF Reply, Deliver
  <2>3. /\ waitingForReply' \in Lists /\ waitingOnReply' \in Lists
        /\ waitingForDelayedReply' \in Lists /\ blocked' \in Lists
    <3>1. CASE appIds[n] = NoConn
      BY <1>6, <3>1 DEF Reply, Lists
    <3>2. CASE appIds[n] \in Conn
      <4>1. /\ RemoveRef(blocked, appIds[n], c) \in Lists
            /\ RemoveRef(waitingOnReply, appIds[n], c) \in Lists
            /\ RemoveRef(waitingForReply, c, appIds[n]) \in Lists
            /\ RemoveRef(waitingForDelayedReply, c, appIds[n]) \in Lists
        BY <3>2, ListEdits DEF Lists
      <4>2. appIds[n] # NoConn
        BY <3>2, ConnAssumption
      <4> QED
        BY <1>6, <4>1, <4>2 DEF Reply, Deliver, Lists
    <3> QED
      BY <3>1, <3>2
  <2> QED
    BY <1>0, <1>6, <2>1, <2>2, <2>3 DEF Reply, Lists, NoEmission
<1>7. ASSUME NEW c \in Conn, NEW n \in Name, ReplyWait(c, n) PROVE TypeOK'
  <2>1. owed' \in [Conn -> [Name -> Nat]] /\ owedDelayed' \in [Conn -> [Name -> Nat]]
    BY <1>7, OwedEdits DEF ReplyWait
  <2>2. /\ waitingForReply' \in Lists /\ waitingOnReply' \in Lists
        /\ waitingForDelayedReply' \in Lists
    <3>1. CASE appIds[n] = NoConn
      BY <1>7, <3>1 DEF ReplyWait, Lists
    <3>2. CASE appIds[n] \in Conn
      <4>1. /\ RemoveRef(waitingForReply, c, appIds[n]) \in Lists
            /\ Append1(waitingForDelayedReply, c, appIds[n]) \in Lists
        BY <3>2, ListEdits DEF Lists
      <4>2. appIds[n] # NoConn
        BY <3>2, ConnAssumption
      <4> QED
        BY <1>7, <4>1, <4>2 DEF ReplyWait, Lists
    <3> QED
      BY <3>1, <3>2
  <2> QED
    BY <1>0, <1>7, <2>1, <2>2 DEF ReplyWait, Lists, NoEmission
<1>8. ASSUME NEW c \in Conn, NEW n \in Name, ReplyDelayed(c, n) PROVE TypeOK'
  <2>1. owedDelayed' \in [Conn -> [Name -> Nat]]
    BY <1>8, OwedEdits DEF ReplyDelayed
  <2>2. stray' \in BOOLEAN
    BY <1>8 DEF ReplyDelayed, Deliver
  <2>3. /\ waitingForReply' \in Lists /\ waitingOnReply' \in Lists
        /\ waitingForDelayedReply' \in Lists /\ blocked' \in Lists
    <3>1. CASE appIds[n] = NoConn
      BY <1>8, <3>1 DEF ReplyDelayed, Lists
    <3>2. CASE appIds[n] \in Conn
      <4>1. /\ RemoveRef(blocked, appIds[n], c) \in Lists
            /\ RemoveRef(waitingOnReply, appIds[n], c) \in Lists
            /\ RemoveRef(waitingForReply, c, appIds[n]) \in Lists
            /\ RemoveRef(waitingForDelayedReply, c, appIds[n]) \in Lists
        BY <3>2, ListEdits DEF Lists
      <4>2. appIds[n] # NoConn
        BY <3>2, ConnAssumption
      <4> QED
        BY <1>8, <4>1, <4>2 DEF ReplyDelayed, Deliver, Lists
    <3> QED
      BY <3>1, <3>2
  <2> QED
    BY <1>0, <1>8, <2>1, <2>2, <2>3 DEF ReplyDelayed, Lists, NoEmission
<1>9. ASSUME NEW c \in Conn, SignalStep(c) PROVE TypeOK'
  <2>1. ASSUME NEW signal \in Signal, NEW obj \in Object \cup {NoObject}, Emit(c, signal, obj)
        PROVE TypeOK'
    BY <2>1, EmissionType DEF Emit
  <2>2. ASSUME NEW signal \in Signal, NEW obj \in Object \cup {NoObject},
               NEW sender \in SenderIds, NEW recvObj \in Object, NEW slot \in Slot,
               NEW volatile \in BOOLEAN,
               ConnectSignal(c, sender, obj, signal, recvObj, slot, volatile)
        PROVE TypeOK'
    <3>1. heard' = Quiet
      BY <2>2 DEF ConnectSignal, NoEmission
    <3> HIDE DEF TypeOK
    <3> QED
      BY <2>2, <3>1, ConnectType, Zenon
  <2>3. ASSUME NEW signal \in Signal, NEW obj \in Object \cup {NoObject},
               NEW sender \in SenderIds, NEW recvObj \in Object,
               NEW slots \in SUBSET Slot,
               DisconnectSignal(c, sender, obj, signal, recvObj, slots)
        PROVE TypeOK'
    BY <1>0, <2>3 DEF DisconnectSignal, NoEmission
  <2>4. ASSUME NEW obj \in Object \cup {NoObject}, DisconnectObject(c, obj)
        PROVE TypeOK'
    BY <1>0, <2>4 DEF DisconnectObject, RemoveConnections, NoEmission
  <2> QED
    <3> HIDE DEF TypeOK
    <3>1. \A slot \in Slot : \A slots \in {{slot}, Slot} : slots \in SUBSET Slot
      OBVIOUS
    <3> QED
      BY <1>9, <2>1, <2>2, <2>3, <2>4, <3>1, ZenonT(30) DEF SignalStep
<1>10. ASSUME NEW c \in Conn, ClientGone(c) PROVE TypeOK'
  BY <1>0, <1>10 DEF ClientGone, NoEmission
<1>11. ASSUME NEW c \in Conn, RemoveConnection(c) PROVE TypeOK'
  BY <1>11, RemovalType
<1>12. CASE Timeout
  <2>1. heard' \in [by : Conn \cup {NoConn}, fired : SUBSET SignalConnection]
    BY <1>0, <1>12, EmissionType DEF Timeout, NoEmission
  <2> QED
    BY <1>12, <2>1 DEF Timeout
<1>13. CASE Shutdown
  <2>1. heard' \in [by : Conn \cup {NoConn}, fired : SUBSET SignalConnection]
    BY <1>13, EmissionType DEF Shutdown
  <2> QED
    BY <1>13, <2>1 DEF Shutdown
<1> QED
  BY <1>1, <1>2, <1>3, <1>4, <1>5, <1>6, <1>7, <1>8, <1>9, <1>10, <1>11, <1>12, <1>13
     DEF Next

\* The variables stay in their types whatever the clients do: the server keeps
\* only connections, ids and counts of connections.
THEOREM TypeCorrect == Spec => []TypeOK
<1>1. TypeOK /\ [Next]_vars => TypeOK'
  <2>1. CASE Next
    BY <2>1, TypeStep
  <2>2. CASE UNCHANGED vars
    BY <2>2 DEF vars, TypeOK
  <2> QED
    BY <2>1, <2>2
<1> QED
  BY <1>1, InitType, PTL DEF Spec

-----------------------------------------------------------------------------
(* The tables of connections and ids.                                      *)

\* Signal traffic touches the signal connections only.
LEMMA SignalFrame ==
  ASSUME NEW c \in Conn, SignalStep(c)
  PROVE  UNCHANGED <<tableVars, replyVars, endVars, running, callVars, view>>
<1> DEFINE Frame == UNCHANGED <<tableVars, replyVars, endVars, running, callVars, view>>
<1>1. \A signal, obj : Emit(c, signal, obj) => Frame
  BY DEF Emit
<1>2. \A sender, obj, signal, recvObj, slot, volatile :
        ConnectSignal(c, sender, obj, signal, recvObj, slot, volatile) => Frame
  BY DEF ConnectSignal
<1>3. \A sender, obj, signal, recvObj, slots :
        DisconnectSignal(c, sender, obj, signal, recvObj, slots) => Frame
  BY DEF DisconnectSignal
<1>4. \A obj : DisconnectObject(c, obj) => Frame
  BY DEF DisconnectObject
<1> QED
  <2> HIDE DEF Frame
  <2>1. Frame
    BY <1>1, <1>2, <1>3, <1>4, Zenon DEF SignalStep
  <2> QED
    BY <2>1 DEF Frame

\* Most steps leave the tables of connections and ids alone.
LEMMA TableFrame ==
  ASSUME Next
  PROVE  \/ \E c \in Conn : NewClient(c)
         \/ \E c \in Conn, app \in Name : RegisterAs(c, app)
         \/ \E c \in Conn : RemoveConnection(c)
         \/ UNCHANGED <<clients, appId, appIds>>
<1>1. ASSUME NEW c \in Conn,
             \/ \E on \in BOOLEAN : SetDaemonMode(c, on) \/ SetNotifications(c, on)
             \/ \E n \in Name : Call(c, n) \/ Reply(c, n) \/ ReplyWait(c, n) \/ ReplyDelayed(c, n)
             \/ ClientGone(c)
      PROVE  UNCHANGED <<clients, appId, appIds>>
  BY <1>1 DEF SetDaemonMode, SetNotifications, Call, Reply, ReplyWait, ReplyDelayed, ClientGone
<1>2. ASSUME NEW c \in Conn, SignalStep(c)
      PROVE  UNCHANGED <<clients, appId, appIds>>
  BY <1>2, SignalFrame
<1>3. CASE Timeout \/ Shutdown
  BY <1>3 DEF Timeout, Shutdown
<1> QED
  BY <1>1, <1>2, <1>3 DEF Next

LEMMA NameTableInit == Init => NameTable
  BY DEF Init, NameTable, Registered

LEMMA NameTableStep == TypeOK /\ NameTable /\ Next => NameTable'
<1> SUFFICES ASSUME TypeOK, NameTable, Next PROVE NameTable'
  OBVIOUS
<1> USE DEF NameTable, Registered
<1>1. ASSUME NEW c \in Conn, NewClient(c) PROVE NameTable'
  BY <1>1 DEF NewClient
<1>2. ASSUME NEW c \in Conn, NEW app \in Name, RegisterAs(c, app) PROVE NameTable'
  <2> DEFINE own == IF Registered(c) /\ appIds[appId[c]] = c THEN {appId[c]} ELSE {}
  <2>1. PICK new \in Name :
          /\ new \notin NamesTaken \ own
          /\ appId' = [appId EXCEPT ![c] = new]
          /\ appIds' = [n \in Name |->
                          IF n = new THEN c ELSE IF n \in own THEN NoConn ELSE appIds[n]]
          /\ clients' = clients /\ c \in clients
    BY <1>2 DEF RegisterAs, Unify, Up, TypeOK
  <2>2. own = IF Registered(c) THEN {appId[c]} ELSE {}
    OBVIOUS
  <2> HIDE DEF own
  <2>3. ASSUME NEW x \in Conn, Registered(x)'
        PROVE  x \in clients' /\ appIds'[appId'[x]] = x
    BY <2>1, <2>2, <2>3, NameAssumption, ConnAssumption DEF TypeOK, NamesTaken
  <2>4. ASSUME NEW n \in Name, appIds'[n] # NoConn
        PROVE  appId'[appIds'[n]] = n
    BY <2>1, <2>2, <2>4, NameAssumption, ConnAssumption DEF TypeOK, NamesTaken
  <2> QED
    BY <2>3, <2>4
<1>3. ASSUME NEW c \in Conn, RemoveConnection(c) PROVE NameTable'
  <2>1. /\ appId' = [appId EXCEPT ![c] = NoName]
        /\ appIds' = [n \in Name |-> IF n = appId[c] THEN NoConn ELSE appIds[n]]
        /\ clients' = clients \ {c}
    BY <1>3 DEF RemoveConnection
  <2> QED
    BY <2>1, NameAssumption, ConnAssumption DEF TypeOK
<1>4. CASE UNCHANGED <<clients, appId, appIds>>
  BY <1>4
<1> QED
  BY <1>1, <1>2, <1>3, <1>4, TableFrame

\* No message is routed by a stale id: appIds and the ids of the connections
\* agree after every registration, unification, renaming and removal.
THEOREM NamesAgree == Spec => []NameTable
<1>1. TypeOK /\ NameTable /\ [Next]_vars => NameTable'
  <2>1. CASE UNCHANGED vars
    BY <2>1 DEF vars, NameTable, Registered
  <2> QED
    BY <2>1, NameTableStep
<1> QED
  BY <1>1, TypeCorrect, NameTableInit, PTL DEF Spec

-----------------------------------------------------------------------------
(* The number of clients, and the end of the server.                       *)

\* Only a registered connection can be a daemon; the count is right.
CountInv == ClientCount /\ \A c \in Conn : daemon[c] => Registered(c)

LEMMA CountedFinite == TypeOK => IsFiniteSet(Counted) /\ Cardinality(Counted) \in Nat
  BY ConnAssumption, FS_Subset, FS_CardinalityType DEF TypeOK, Counted

LEMMA CountInit == Init => CountInv
<1> SUFFICES ASSUME Init PROVE CountInv
  OBVIOUS
<1>1. Counted = {}
  BY DEF Init, Counted
<1>2. currentClientNumber = 0 /\ \A c \in Conn : ~daemon[c]
  BY DEF Init
<1> QED
  BY <1>1, <1>2, FS_EmptySet DEF CountInv, ClientCount

\* Most steps leave what is counted alone.
LEMMA CountFrame ==
  ASSUME Next
  PROVE  \/ \E c \in Conn : NewClient(c)
         \/ \E c \in Conn, app \in Name : RegisterAs(c, app)
         \/ \E c \in Conn, on \in BOOLEAN : SetDaemonMode(c, on)
         \/ \E c \in Conn : RemoveConnection(c)
         \/ UNCHANGED <<clients, appId, appIds, daemon, currentClientNumber>>
<1>1. ASSUME NEW c \in Conn,
             \/ \E on \in BOOLEAN : SetNotifications(c, on)
             \/ \E n \in Name : Call(c, n) \/ Reply(c, n) \/ ReplyWait(c, n) \/ ReplyDelayed(c, n)
             \/ ClientGone(c)
      PROVE  UNCHANGED <<clients, appId, appIds, daemon, currentClientNumber>>
  BY <1>1 DEF SetNotifications, Call, Reply, ReplyWait, ReplyDelayed, ClientGone
<1>2. ASSUME NEW c \in Conn, SignalStep(c)
      PROVE  UNCHANGED <<clients, appId, appIds, daemon, currentClientNumber>>
  BY <1>2, SignalFrame
<1>3. CASE Timeout \/ Shutdown
  BY <1>3 DEF Timeout, Shutdown
<1> QED
  BY <1>1, <1>2, <1>3 DEF Next

LEMMA CountStep == TypeOK /\ NameTable /\ CountInv /\ Next => CountInv'
<1> SUFFICES ASSUME TypeOK, NameTable, CountInv, Next PROVE CountInv'
  OBVIOUS
<1>0. IsFiniteSet(Counted) /\ Cardinality(Counted) \in Nat
  BY CountedFinite
<1> USE DEF CountInv, ClientCount, Registered
<1>1. ASSUME NEW c \in Conn, NewClient(c) PROVE CountInv'
  <2>1. /\ clients' = clients \cup {c}
        /\ UNCHANGED <<appId, daemon, currentClientNumber>>
        /\ c \notin clients
    BY <1>1 DEF NewClient
  <2>2. Counted' = Counted
    BY <2>1 DEF Counted, NameTable
  <2> QED
    BY <2>1, <2>2
<1>2. ASSUME NEW c \in Conn, NEW app \in Name, RegisterAs(c, app) PROVE CountInv'
  <2>1. PICK new \in Name :
          /\ appId' = [appId EXCEPT ![c] = new]
          /\ currentClientNumber' = IF Registered(c) THEN currentClientNumber
                                                     ELSE currentClientNumber + 1
          /\ clients' = clients /\ c \in clients /\ daemon' = daemon
    BY <1>2 DEF RegisterAs, Up, TypeOK
  <2>2. \A x \in Conn : Registered(x)' <=> Registered(x) \/ x = c
    BY <2>1, NameAssumption DEF TypeOK
  <2>3. Counted' = IF Registered(c) THEN Counted ELSE Counted \cup {c}
    BY <2>1, <2>2 DEF Counted, TypeOK
  <2>4. ~Registered(c) => c \notin Counted
    BY DEF Counted
  <2>5. CASE Registered(c)
    BY <2>1, <2>2, <2>3, <2>5
  <2>6. CASE ~Registered(c)
    BY <1>0, <2>1, <2>2, <2>3, <2>4, <2>6, FS_AddElement
  <2> QED
    BY <2>5, <2>6
<1>3. ASSUME NEW c \in Conn, NEW on \in BOOLEAN, SetDaemonMode(c, on) PROVE CountInv'
  <2>1. /\ Registered(c) /\ c \in clients /\ clients' = clients /\ appId' = appId
        /\ daemon' = [daemon EXCEPT ![c] = on]
    BY <1>3 DEF SetDaemonMode, Up, TypeOK
  <2>2. CASE on
    <3>1. ~daemon[c] /\ daemon'[c] /\ currentClientNumber' = currentClientNumber - 1
      BY <1>3, <2>1, <2>2 DEF SetDaemonMode, TypeOK
    <3>2. c \in Counted /\ Counted' = Counted \ {c}
      BY <2>1, <3>1 DEF Counted, TypeOK
    <3> QED
      BY <1>0, <2>1, <3>1, <3>2, FS_RemoveElement DEF TypeOK
  <2>3. CASE ~on
    <3>1. daemon[c] /\ ~daemon'[c] /\ currentClientNumber' = currentClientNumber + 1
      BY <1>3, <2>1, <2>3 DEF SetDaemonMode, TypeOK
    <3>2. c \notin Counted /\ Counted' = Counted \cup {c}
      BY <2>1, <3>1 DEF Counted, TypeOK
    <3>3. \A x \in Conn : daemon'[x] => Registered(x)'
      BY <2>1 DEF TypeOK
    <3> QED
      BY <1>0, <2>1, <3>1, <3>2, <3>3, FS_AddElement
  <2> QED
    BY <2>2, <2>3
<1>4. ASSUME NEW c \in Conn, RemoveConnection(c) PROVE CountInv'
  <2>1. /\ appId' = [appId EXCEPT ![c] = NoName]
        /\ daemon' = [daemon EXCEPT ![c] = FALSE]
        /\ clients' = clients \ {c} /\ c \in clients
        /\ currentClientNumber' =
             currentClientNumber - (IF Registered(c) /\ ~daemon[c] THEN 1 ELSE 0)
    BY <1>4 DEF RemoveConnection
  <2>2. Counted' = Counted \ {c} /\ (c \in Counted <=> Registered(c) /\ ~daemon[c])
    BY <2>1 DEF Counted, TypeOK
  <2>3. \A x \in Conn : daemon'[x] => Registered(x)'
    BY <2>1 DEF TypeOK
  <2>4. Cardinality(Counted') = IF c \in Counted THEN Cardinality(Counted) - 1
                                                ELSE Cardinality(Counted)
    BY <1>0, <2>2, FS_RemoveElement
  <2>5. currentClientNumber' = Cardinality(Counted')
    BY <1>0, <2>1, <2>2, <2>4
  <2> QED
    BY <2>3, <2>5
<1>5. CASE UNCHANGED <<clients, appId, appIds, daemon, currentClientNumber>>
  BY <1>5 DEF Counted
<1> QED
  BY <1>1, <1>2, <1>3, <1>4, <1>5, CountFrame

\* currentClientNumber counts the registered clients that are no daemons, so
\* the server neither gives up with clients left nor lives on without any.
THEOREM CountsClients == Spec => []ClientCount
<1>1. TypeOK /\ NameTable /\ CountInv /\ [Next]_vars => CountInv'
  <2>1. CASE UNCHANGED vars
    BY <2>1 DEF vars, CountInv, ClientCount, Counted, Registered
  <2> QED
    BY <2>1, CountStep
<1>2. CountInv => ClientCount
  BY DEF CountInv
<1> QED
  BY <1>1, <1>2, TypeCorrect, NamesAgree, CountInit, PTL DEF Spec

\* Most steps leave the timer and the count alone.
LEMMA EndFrame ==
  ASSUME Next
  PROVE  \/ \E c \in Conn, app \in Name : RegisterAs(c, app)
         \/ \E c \in Conn, on \in BOOLEAN : SetDaemonMode(c, on)
         \/ \E c \in Conn : RemoveConnection(c)
         \/ Timeout
         \/ Shutdown
         \/ UNCHANGED <<appIds, currentClientNumber, endVars>>
<1>1. ASSUME NEW c \in Conn,
             \/ NewClient(c)
             \/ \E on \in BOOLEAN : SetNotifications(c, on)
             \/ \E n \in Name : Call(c, n) \/ Reply(c, n) \/ ReplyWait(c, n) \/ ReplyDelayed(c, n)
             \/ ClientGone(c)
      PROVE  UNCHANGED <<appIds, currentClientNumber, endVars>>
  BY <1>1 DEF NewClient, SetNotifications, Call, Reply, ReplyWait, ReplyDelayed, ClientGone
<1>2. ASSUME NEW c \in Conn, SignalStep(c)
      PROVE  UNCHANGED <<appIds, currentClientNumber, endVars>>
  BY <1>2, SignalFrame
<1> QED
  BY <1>1, <1>2 DEF Next

LEMMA SuicideStep ==
  TypeOK /\ NameTable /\ CountInv /\ SuicideOnlyWhenIdle /\ Next => SuicideOnlyWhenIdle'
<1> SUFFICES ASSUME TypeOK, NameTable, CountInv, SuicideOnlyWhenIdle, Next,
                    ~shutdown', m_timer' \/ exited'
             PROVE  Suicide /\ currentClientNumber' = 0
  BY DEF SuicideOnlyWhenIdle
<1>0. /\ ~shutdown /\ (m_timer \/ exited) => Suicide /\ currentClientNumber = 0
      /\ currentClientNumber = 0 => Counted = {}
  <2>1. IsFiniteSet(Counted)
    BY CountedFinite
  <2>2. currentClientNumber = 0 => Counted = {}
    BY <2>1, FS_EmptySet DEF CountInv, ClientCount
  <2> QED
    BY <2>2 DEF SuicideOnlyWhenIdle
<1>1. ASSUME NEW c \in Conn, NEW app \in Name, RegisterAs(c, app)
      PROVE  Suicide /\ currentClientNumber' = 0
  BY <1>0, <1>1 DEF RegisterAs, Up
<1>2. ASSUME NEW c \in Conn, NEW on \in BOOLEAN, SetDaemonMode(c, on)
      PROVE  Suicide /\ currentClientNumber' = 0
  <2>1. Registered(c) /\ c \in clients /\ daemon[c] # on /\ ~exited
    BY <1>2 DEF SetDaemonMode, Up, TypeOK
  <2>2. on /\ m_timer /\ ~shutdown
    BY <1>2, <2>1 DEF SetDaemonMode
  <2>3. c \in Counted
    BY <2>1, <2>2 DEF Counted, TypeOK
  <2> QED
    BY <1>0, <2>2, <2>3
<1>3. ASSUME NEW c \in Conn, RemoveConnection(c)
      PROVE  Suicide /\ currentClientNumber' = 0
  <2>1. /\ ~exited /\ ~exited' /\ ~shutdown /\ c \in clients
        /\ currentClientNumber' =
             currentClientNumber - (IF Registered(c) /\ ~daemon[c] THEN 1 ELSE 0)
        /\ m_timer' => m_timer \/ (Suicide /\ currentClientNumber' = 0) \/ shutdown
    BY <1>3 DEF RemoveConnection, TimerAfterRemoval
  <2>2. CASE m_timer
    <3>1. ~(Registered(c) /\ ~daemon[c])
      BY <1>0, <2>1, <2>2 DEF Counted
    <3> QED
      BY <1>0, <2>1, <2>2, <3>1
  <2> QED
    BY <2>1, <2>2
<1>4. CASE Timeout
  BY <1>0, <1>4 DEF Timeout
<1>5. CASE Shutdown
  BY <1>5 DEF Shutdown
<1>6. CASE UNCHANGED <<appIds, currentClientNumber, endVars>>
  BY <1>0, <1>6
<1> QED
  BY <1>1, <1>2, <1>3, <1>4, <1>5, <1>6, EndFrame

\* Without SIGTERM the server gives up only when nobody but daemons is left:
\* no registration, daemon mode or removal leaves a timer running by mistake.
THEOREM SuicideIsIdle == Spec => []SuicideOnlyWhenIdle
<1>1. Init => SuicideOnlyWhenIdle
  BY DEF Init, SuicideOnlyWhenIdle
<1>2. /\ TypeOK /\ NameTable /\ CountInv /\ SuicideOnlyWhenIdle /\ [Next]_vars
      => SuicideOnlyWhenIdle'
  <2>1. CASE UNCHANGED vars
    BY <2>1 DEF vars, SuicideOnlyWhenIdle
  <2> QED
    BY <2>1, SuicideStep
<1>3. TypeOK /\ NameTable /\ CountInv /\ [Next]_vars => CountInv'
  <2>1. CASE UNCHANGED vars
    BY <2>1 DEF vars, CountInv, ClientCount, Counted, Registered
  <2> QED
    BY <2>1, CountStep
<1> QED
  BY <1>1, <1>2, <1>3, CountInit, TypeCorrect, NamesAgree, PTL DEF Spec

\* After SIGTERM the server always has a timer running or a client whose
\* removal starts it: it cannot be left behind.
THEOREM ShutdownIsDriven == Spec => []ShutdownNeverStuck
<1>1. Init => ShutdownNeverStuck
  BY DEF Init, ShutdownNeverStuck
<1>2. TypeOK /\ NameTable /\ ShutdownNeverStuck /\ Next => ShutdownNeverStuck'
  <2> SUFFICES ASSUME TypeOK, NameTable, ShutdownNeverStuck, Next,
                      shutdown', ~exited', ~m_timer'
               PROVE  NamesTaken' # {}
    BY DEF ShutdownNeverStuck
  <2>0. shutdown /\ ~exited => m_timer \/ NamesTaken # {}
    BY DEF ShutdownNeverStuck
  <2>1. ASSUME NEW c \in Conn, NEW app \in Name, RegisterAs(c, app)
        PROVE  NamesTaken' # {}
    <3>1. PICK new \in Name : appIds'[new] = c
      BY <2>1 DEF RegisterAs
    <3> QED
      BY <3>1, ConnAssumption DEF NamesTaken
  <2>2. ASSUME NEW c \in Conn, NEW on \in BOOLEAN, SetDaemonMode(c, on)
        PROVE  NamesTaken' # {}
    <3>1. Registered(c) /\ appIds' = appIds
      BY <2>2 DEF SetDaemonMode
    <3>2. appId[c] \in Name /\ appIds[appId[c]] = c
      BY <3>1 DEF NameTable, TypeOK, Registered
    <3> QED
      BY <3>1, <3>2, ConnAssumption DEF NamesTaken
  <2>3. ASSUME NEW c \in Conn, RemoveConnection(c)
        PROVE  NamesTaken' # {}
    <3>1. /\ shutdown /\ NamesTaken \ {appId[c]} # {}
          /\ appIds' = [n \in Name |-> IF n = appId[c] THEN NoConn ELSE appIds[n]]
      BY <2>3 DEF RemoveConnection, TimerAfterRemoval
    <3> QED
      BY <3>1 DEF NamesTaken
  <2>4. CASE Timeout
    BY <2>0, <2>4 DEF Timeout
  <2>5. CASE Shutdown
    BY <2>5 DEF Shutdown
  <2>6. CASE UNCHANGED <<appIds, currentClientNumber, endVars>>
    BY <2>0, <2>6 DEF NamesTaken
  <2> QED
    BY <2>1, <2>2, <2>3, <2>4, <2>5, <2>6, EndFrame
<1>3. TypeOK /\ NameTable /\ ShutdownNeverStuck /\ [Next]_vars => ShutdownNeverStuck'
  <2>1. CASE UNCHANGED vars
    BY <2>1 DEF vars, ShutdownNeverStuck, NamesTaken
  <2> QED
    BY <2>1, <1>2
<1> QED
  BY <1>1, <1>3, TypeCorrect, NamesAgree, PTL DEF Spec

\* The server announces its end before it exits, whichever way it ends.
THEOREM ExitIsAnnounced == Spec => []ExitAnnounced
<1> DEFINE Ready == /\ ExitAnnounced
                    /\ timeoutSlots \cap {"slotSuicide", "slotExit"} # {} => announced
<1>1. Init => Ready
  BY DEF Init, ExitAnnounced
<1>2. TypeOK /\ Ready /\ Next => Ready'
  <2> SUFFICES ASSUME TypeOK, Ready, Next PROVE Ready'
    OBVIOUS
  <2> USE DEF ExitAnnounced
  <2>1. ASSUME NEW c \in Conn,
               \/ \E app \in Name : RegisterAs(c, app)
               \/ \E on \in BOOLEAN : SetDaemonMode(c, on)
               \/ RemoveConnection(c)
        PROVE  UNCHANGED <<timeoutSlots, announced, exited>>
    BY <2>1 DEF RegisterAs, SetDaemonMode, RemoveConnection
  <2>2. CASE Timeout
    BY <2>2 DEF Timeout
  <2>3. CASE Shutdown
    BY <2>3 DEF Shutdown
  <2>4. CASE UNCHANGED <<timeoutSlots, announced, exited>>
    BY <2>4
  <2> QED
    BY <2>1, <2>2, <2>3, <2>4, EndFrame
<1>3. TypeOK /\ Ready /\ [Next]_vars => Ready'
  <2>1. CASE UNCHANGED vars
    BY <2>1 DEF vars, ExitAnnounced
  <2> QED
    BY <2>1, <1>2
<1>4. Ready => ExitAnnounced
  OBVIOUS
<1> QED
  <2> HIDE DEF Ready
  <2> QED
    BY <1>1, <1>3, <1>4, TypeCorrect, PTL DEF Spec

-----------------------------------------------------------------------------
(* Signal connections.                                                     *)

LEMMA SignalsInit == Init => SignalListsAgree
  BY DEF Init, SignalListsAgree

\* removeConnections() takes what it severs out of the table and of the list of
\* every client that had it.
LEMMA RemovalKeepsLists ==
  ASSUME TypeOK, SignalListsAgree, NEW c \in Conn, NEW obj, RemoveConnections(c, obj)
  PROVE  /\ connections' \subseteq connections
         /\ \A x \in Conn :
              signalList'[x] = {k \in connections' : x \in {k.recvConn, k.senderConn}}
<1> DEFINE gone == Severed(c, obj)
<1>1. /\ connections' = connections \ gone
      /\ signalList' = [x \in Conn |->
           {k \in signalList[x] : k \notin gone \/ x \notin {c, k.senderConn, k.recvConn}}]
  BY DEF RemoveConnections
<1> HIDE DEF gone
<1> QED
  BY <1>1 DEF SignalListsAgree

\* What signal traffic, and only it, does to the connections.
LEMMA SignalsStep ==
  ASSUME TypeOK, NameTable, SignalListsAgree, NEW c \in Conn, SignalStep(c)
  PROVE  SignalListsAgree'
<1>0. clients' = clients
  BY SignalFrame
<1> USE DEF SignalListsAgree
<1>1. ASSUME NEW signal, NEW obj, Emit(c, signal, obj) PROVE SignalListsAgree'
  BY <1>0, <1>1 DEF Emit
<1>2. ASSUME NEW sender \in SenderIds, NEW obj, NEW signal, NEW recvObj, NEW slot,
             NEW volatile,
             ConnectSignal(c, sender, obj, signal, recvObj, slot, volatile)
      PROVE  SignalListsAgree'
  <2> DEFINE senderConn == IF volatile THEN appIds[sender] ELSE NoConn
  <2>1. PICK k : /\ k.recvConn = c /\ k.senderConn = senderConn
                 /\ k.id \notin Ids
                 /\ Up(c) /\ (volatile => sender \in Name /\ senderConn # NoConn)
                 /\ connections' = connections \cup {k}
                 /\ signalList' = [x \in Conn |-> IF x \in {c, senderConn}
                                                    THEN signalList[x] \cup {k}
                                                    ELSE signalList[x]]
    <3>1. PICK id \in 1..MaxConnections :
            LET k == [id |-> id, sender |-> sender, senderObj |-> obj,
                      senderConn |-> senderConn, signal |-> signal, recvConn |-> c,
                      recvObj |-> recvObj, slot |-> slot]
            IN /\ id \notin Ids
               /\ Up(c) /\ (volatile => sender \in Name /\ senderConn # NoConn)
               /\ connections' = connections \cup {k}
               /\ signalList' = [x \in Conn |-> IF x \in {c, senderConn}
                                                  THEN signalList[x] \cup {k}
                                                  ELSE signalList[x]]
      BY <1>2, Zenon DEF ConnectSignal
    <3> QED
      BY <3>1, Zenon
  <2>2. senderConn \in clients \cup {NoConn} /\ c \in clients
    <3>1. c \in clients
      BY <2>1 DEF Up, TypeOK
    <3>2. CASE volatile
      <4>1. sender \in Name /\ senderConn = appIds[sender] /\ senderConn # NoConn
        BY <2>1, <3>2
      <4>2. senderConn \in Conn /\ appId[senderConn] # NoName
        BY <4>1, NameAssumption DEF NameTable, TypeOK
      <4> QED
        BY <3>1, <4>2 DEF NameTable, Registered
    <3>3. CASE ~volatile
      BY <3>1, <3>3
    <3> QED
      BY <3>1, <3>2, <3>3
  <2> HIDE DEF senderConn
  <2>3. k \notin connections
    BY <2>1 DEF Ids
  <2> QED
    BY <1>0, <2>1, <2>2, <2>3 DEF TypeOK
<1>3. ASSUME NEW sender, NEW obj, NEW signal, NEW recvObj, NEW slots,
             DisconnectSignal(c, sender, obj, signal, recvObj, slots)
      PROVE  SignalListsAgree'
  <2>1. PICK gone \in SUBSET connections :
          /\ \A k \in gone : k.recvConn = c
          /\ connections' = connections \ gone
          /\ signalList' = [x \in Conn |->
               {k \in signalList[x] : k \notin gone \/ x \notin {c, k.senderConn}}]
    <3> DEFINE gone == {k \in connections :
                 /\ k.signal = signal /\ k.recvConn = c
                 /\ sender = (IF k.senderConn # NoConn THEN appId[k.senderConn]
                                                       ELSE k.sender)
                 /\ obj \in {NoObject, k.senderObj}
                 /\ recvObj \in {NoObject, k.recvObj}
                 /\ k.slot \in slots}
    <3>1. /\ connections' = connections \ gone
          /\ signalList' = [x \in Conn |->
               {k \in signalList[x] : k \notin gone \/ x \notin {c, k.senderConn}}]
      BY <1>3 DEF DisconnectSignal
    <3>2. \A k \in gone : k \in connections /\ k.recvConn = c
      OBVIOUS
    <3> HIDE DEF gone
    <3> QED
      BY <3>1, <3>2
  <2> QED
    BY <1>0, <2>1 DEF TypeOK
<1>4. ASSUME NEW obj, RemoveConnections(c, obj)
      PROVE  /\ connections' \subseteq connections
             /\ \A x \in Conn :
                  signalList'[x] = {k \in connections' : x \in {k.recvConn, k.senderConn}}
  BY <1>4, RemovalKeepsLists
<1>5. ASSUME NEW obj, DisconnectObject(c, obj) PROVE SignalListsAgree'
  BY <1>0, <1>4, <1>5 DEF DisconnectObject
<1> QED
  <2> HIDE DEF SignalListsAgree
  <2> QED
    BY <1>1, <1>2, <1>3, <1>5, Zenon DEF SignalStep

\* Most steps leave the signal connections alone.
LEMMA ConnectionsFrame ==
  ASSUME Next
  PROVE  \/ \E c \in Conn : SignalStep(c)
         \/ \E c \in Conn : NewClient(c)
         \/ \E c \in Conn : RemoveConnection(c)
         \/ UNCHANGED <<clients, connections, signalList>>
<1>1. ASSUME NEW c \in Conn,
             \/ \E app \in Name : RegisterAs(c, app)
             \/ \E on \in BOOLEAN : SetDaemonMode(c, on) \/ SetNotifications(c, on)
             \/ \E n \in Name : Call(c, n) \/ Reply(c, n) \/ ReplyWait(c, n) \/ ReplyDelayed(c, n)
             \/ ClientGone(c)
      PROVE  UNCHANGED <<clients, connections, signalList>>
  BY <1>1 DEF RegisterAs, SetDaemonMode, SetNotifications, Call, Reply, ReplyWait,
              ReplyDelayed, ClientGone
<1>2. CASE Timeout \/ Shutdown
  BY <1>2 DEF Timeout, Shutdown
<1> QED
  BY <1>1, <1>2 DEF Next

\* No connection is left dangling: the lists of the connections and the table
\* of the signals hold the same connections, of clients that are still there.
THEOREM SignalsAgree == Spec => []SignalListsAgree
<1>1. TypeOK /\ NameTable /\ SignalListsAgree /\ Next => SignalListsAgree'
  <2> SUFFICES ASSUME TypeOK, NameTable, SignalListsAgree, Next PROVE SignalListsAgree'
    OBVIOUS
  <2>1. ASSUME NEW c \in Conn, SignalStep(c) PROVE SignalListsAgree'
    BY <2>1, SignalsStep
  <2>2. ASSUME NEW c \in Conn, NewClient(c) PROVE SignalListsAgree'
    BY <2>2 DEF NewClient, SignalListsAgree
  <2>3. ASSUME NEW c \in Conn, RemoveConnection(c) PROVE SignalListsAgree'
    <3>1. /\ connections' \subseteq connections
          /\ \A x \in Conn :
               signalList'[x] = {k \in connections' : x \in {k.recvConn, k.senderConn}}
      BY <2>3, RemovalKeepsLists DEF RemoveConnection
    <3>2. signalList[c] \cap connections' = {}
      BY <2>3 DEF RemoveConnection, RemoveConnections, Severed
    <3>3. clients' = clients \ {c}
      BY <2>3 DEF RemoveConnection
    <3> QED
      BY <3>1, <3>2, <3>3 DEF SignalListsAgree
  <2>4. CASE UNCHANGED <<clients, connections, signalList>>
    BY <2>4 DEF SignalListsAgree
  <2> QED
    BY <2>1, <2>2, <2>3, <2>4, ConnectionsFrame
<1>2. TypeOK /\ NameTable /\ SignalListsAgree /\ [Next]_vars => SignalListsAgree'
  <2>1. CASE UNCHANGED vars
    BY <2>1 DEF vars, SignalListsAgree
  <2> QED
    BY <2>1, <1>1
<1> QED
  BY <1>2, TypeCorrect, NamesAgree, SignalsInit, PTL DEF Spec

-----------------------------------------------------------------------------
(* Notifications.                                                          *)

\* The clients' view is right, and a connection starts without notifications.
NotifyInv ==
  NotificationsTrackNames /\ \A c \in Conn \ clients : notifyRegister[c] = 0

\* Most steps leave the ids, the notifications and the views alone.
LEMMA NotifyFrame ==
  ASSUME Next
  PROVE  \/ \E c \in Conn : NewClient(c)
         \/ \E c \in Conn, app \in Name : RegisterAs(c, app)
         \/ \E c \in Conn, on \in BOOLEAN : SetNotifications(c, on)
         \/ \E c \in Conn : RemoveConnection(c)
         \/ UNCHANGED <<clients, appIds, notifyRegister, view>>
<1>1. ASSUME NEW c \in Conn,
             \/ \E on \in BOOLEAN : SetDaemonMode(c, on)
             \/ \E n \in Name : Call(c, n) \/ Reply(c, n) \/ ReplyWait(c, n) \/ ReplyDelayed(c, n)
             \/ ClientGone(c)
      PROVE  UNCHANGED <<clients, appIds, notifyRegister, view>>
  BY <1>1 DEF SetDaemonMode, Call, Reply, ReplyWait, ReplyDelayed, ClientGone
<1>2. ASSUME NEW c \in Conn, SignalStep(c)
      PROVE  UNCHANGED <<clients, appIds, notifyRegister, view>>
  BY <1>2, SignalFrame
<1>3. CASE Timeout \/ Shutdown
  BY <1>3 DEF Timeout, Shutdown
<1> QED
  BY <1>1, <1>2, <1>3 DEF Next

LEMMA NotifyStep ==
  ASSUME Renames = "never", TypeOK, NameTable, NotifyInv, Next
  PROVE  NotifyInv'
<1> USE DEF NotifyInv, NotificationsTrackNames
<1>1. ASSUME NEW c \in Conn, NewClient(c) PROVE NotifyInv'
  BY <1>1 DEF NewClient, NamesTaken
<1>2. ASSUME NEW c \in Conn, NEW app \in Name, RegisterAs(c, app) PROVE NotifyInv'
  <2>1. ~Registered(c)
    BY <1>2 DEF RegisterAs, MayRegister
  <2>2. PICK new \in Name :
          /\ new \notin NamesTaken
          /\ appIds' = [n \in Name |-> IF n = new THEN c ELSE appIds[n]]
          /\ view' = [x \in Conn |-> IF x \in Told(c) THEN view[x] \cup {new} ELSE view[x]]
          /\ UNCHANGED <<clients, notifyRegister>>
    BY <1>2, <2>1 DEF RegisterAs, Unify
  <2>3. NamesTaken' = NamesTaken \cup {new}
    BY <2>2, ConnAssumption DEF NamesTaken
  <2>4. \A n \in NamesTaken : appIds[n] # c
    BY <2>1, NameAssumption, ConnAssumption DEF NameTable, NamesTaken, Registered
  <2>5. ASSUME NEW x \in clients, notifyRegister[x] > 0
        PROVE  view'[x] = {n \in NamesTaken' : appIds'[n] # x}
    <3>1. x \in Conn /\ new \notin NamesTaken
      BY <2>2 DEF TypeOK
    <3>2. view'[x] = IF x = c THEN view[x] ELSE view[x] \cup {new}
      BY <2>2, <2>5, <3>1 DEF Told
    <3>3. \A n \in NamesTaken' : appIds'[n] = IF n = new THEN c ELSE appIds[n]
      BY <2>2 DEF NamesTaken
    <3> QED
      BY <2>3, <2>4, <2>5, <3>1, <3>2, <3>3
  <2> QED
    BY <2>2, <2>5
<1>3. ASSUME NEW c \in Conn, NEW on \in BOOLEAN, SetNotifications(c, on) PROVE NotifyInv'
  <2>1. /\ notifyRegister' = [notifyRegister EXCEPT ![c] = @ + (IF on THEN 1 ELSE -1)]
        /\ view' = IF on /\ notifyRegister[c] = 0
                     THEN [view EXCEPT ![c] = {n \in NamesTaken : appIds[n] # c}]
                     ELSE view
        /\ UNCHANGED <<clients, appIds>> /\ c \in clients
        /\ ~on => notifyRegister[c] > 0
    BY <1>3 DEF SetNotifications, Up, TypeOK
  <2>2. NamesTaken' = NamesTaken
    BY <2>1 DEF NamesTaken
  <2> QED
    BY <2>1, <2>2 DEF TypeOK
<1>4. ASSUME NEW c \in Conn, RemoveConnection(c) PROVE NotifyInv'
  <2>1. /\ clients' = clients \ {c}
        /\ notifyRegister' = [notifyRegister EXCEPT ![c] = 0]
        /\ appIds' = [n \in Name |-> IF n = appId[c] THEN NoConn ELSE appIds[n]]
        /\ \A x \in Conn \ {c} : x \in clients /\ notifyRegister[x] > 0 =>
             view'[x] = IF Registered(c) THEN view[x] \ {appId[c]} ELSE view[x]
    BY <1>4 DEF RemoveConnection, Told
  <2>2. NamesTaken' = NamesTaken \ {appId[c]}
    BY <2>1 DEF NamesTaken
  <2>3. ~Registered(c) => appId[c] \notin NamesTaken
    BY NameAssumption DEF Registered, NamesTaken
  <2>4. ASSUME NEW x \in clients', notifyRegister'[x] > 0
        PROVE  view'[x] = {n \in NamesTaken' : appIds'[n] # x}
    <3>1. x \in Conn \ {c} /\ x \in clients /\ notifyRegister[x] > 0
      BY <2>1, <2>4 DEF TypeOK
    <3>2. view[x] = {n \in NamesTaken : appIds[n] # x}
      BY <3>1
    <3>3. \A n \in NamesTaken' : appIds'[n] = appIds[n]
      BY <2>1, <2>2 DEF NamesTaken
    <3>4. view'[x] = view[x] \ {appId[c]}
      <4>1. CASE Registered(c)
        BY <2>1, <3>1, <4>1
      <4>2. CASE ~Registered(c)
        BY <2>1, <2>3, <3>1, <3>2, <4>2
      <4> QED
        BY <4>1, <4>2
    <3> QED
      BY <2>2, <3>2, <3>3, <3>4
  <2>5. \A x \in Conn \ clients' : notifyRegister'[x] = 0
    BY <2>1 DEF TypeOK
  <2> QED
    BY <2>4, <2>5
<1>5. CASE UNCHANGED <<clients, appIds, notifyRegister, view>>
  BY <1>5 DEF NamesTaken
<1> QED
  BY <1>1, <1>2, <1>3, <1>4, <1>5, NotifyFrame

\* As long as nobody registers under a second id, a client that follows the
\* notifications knows exactly the ids of the others.
THEOREM NotificationsAreExact ==
  ASSUME Renames = "never" PROVE Spec => []NotificationsTrackNames
<1>1. Init => NotifyInv
  BY DEF Init, NotifyInv, NotificationsTrackNames
<1>2. TypeOK /\ NameTable /\ NotifyInv /\ [Next]_vars => NotifyInv'
  <2>1. CASE UNCHANGED vars
    BY <2>1 DEF vars, NotifyInv, NotificationsTrackNames, NamesTaken
  <2> QED
    BY <2>1, NotifyStep
<1>3. NotifyInv => NotificationsTrackNames
  BY DEF NotifyInv
<1> QED
  BY <1>1, <1>2, <1>3, TypeCorrect, NamesAgree, PTL DEF Spec
=============================================================================
