----------------------------- MODULE DCOPServer -----------------------------
(***************************************************************************)
(* The DCOP server (dcop/dcopserver.cpp, dcop/dcopserver.h) with its table *)
(* of signal connections (dcop/dcopsignals.cpp).  The server is one        *)
(* process driven by its event loop: every message, closed connection,     *)
(* timeout or signal is handled to the end before the next, so each        *)
(* handler is one action.                                                  *)
(*                                                                         *)
(* A message from a client is consumed in the action that sends it.  Only  *)
(* the server reads a client's socket, so a client that runs ahead of the  *)
(* server cannot be told from one that sends later.  What the server has   *)
(* handed to a client and the client has not answered yet, whether still   *)
(* in the socket or inside a handler, is counted in owed and owedDelayed.  *)
(***************************************************************************)
EXTENDS Integers, FiniteSets, Sequences

CONSTANTS
  Conn,            \* DCOPConnection objects, one per client connection
  NoConn,          \* the null DCOPConnection*
  Name,            \* application ids; never "DCOPServer"
  NoName,          \* the null or empty application id
  ServerName,      \* the id "DCOPServer"
  Variants,        \* Variants[app]: the ids registerAs tries for app, in order
  Object,          \* object ids named by signal connections
  NoObject,        \* the empty object id
  Signal,          \* signal signatures
  TerminateTDE,    \* the signal "terminateTDE()" of the server
  Slot,            \* slot signatures
  Fits,            \* <<signal, slot>> whose arguments match
  Suicide,         \* the server was started with --suicide
  Renames,         \* when a registered client registers again:
                   \*   "never", "idle" (no call outstanding) or "any"
  NameReuse,       \* may an id be taken while an answer is still owed to it
  CanShutdown,     \* may SIGTERM arrive
  MaxCalls,        \* bound on one client's outstanding calls to another
  MaxNotify,       \* bound on a client's setNotifications nesting
  MaxConnections   \* bound on signal connections alive at the same time

ASSUME ConnAssumption == IsFiniteSet(Conn) /\ NoConn \notin Conn
ASSUME NameAssumption == NoName \notin Name /\ ServerName \notin Name \cup {NoName}
ASSUME VariantsAssumption ==
  /\ Variants \in [Name -> Seq(Name)]
  /\ \A app \in Name : Len(Variants[app]) > 0 /\ Variants[app][1] = app
ASSUME ModeAssumption ==
  /\ Renames \in {"never", "idle", "any"}
  /\ Suicide \in BOOLEAN /\ NameReuse \in BOOLEAN /\ CanShutdown \in BOOLEAN
ASSUME BoundAssumption == MaxCalls \in Nat /\ MaxNotify \in Nat /\ MaxConnections \in Nat

VARIABLES
  \* the connection and name tables
  clients,         \* connections in the clients dictionary
  appId,           \* DCOPConnection::appId
  appIds,          \* the appIds dictionary: id -> connection
  daemon,          \* DCOPConnection::daemon
  notifyRegister,  \* DCOPConnection::notifyRegister
  currentClientNumber,
  \* who waits for whom; lists of connections, kept as counts
  waitingOnReply, waitingForReply, waitingForDelayedReply,
  \* signal connections
  connections,     \* DCOPSignals::connections, all signals together
  signalList,      \* DCOPConnection::_signalConnectionList
  heard,           \* what this step emitted: by whom, which connections fired
  \* termination
  m_timer,         \* is m_timer running
  timeoutSlots,    \* slots connected to m_timer's timeout()
  shutdown, announced, exited,
  \* the clients, as far as the server can tell
  running,         \* connections whose client process is still there
  owed,            \* owed[b][n]: calls handed to b from id n, not yet answered
  owedDelayed,     \* owedDelayed[b][n]: those b answered with DCOPReplyWait
  blocked,         \* blocked[a][b]: calls a made to b and has no answer for
  stray,           \* some client was handed an answer it did not wait for
  view             \* view[c]: other clients' ids, as c knows from notifications

tableVars  == <<clients, appId, appIds, daemon, notifyRegister, currentClientNumber>>
replyVars  == <<waitingOnReply, waitingForReply, waitingForDelayedReply>>
signalVars == <<connections, signalList>>
endVars    == <<m_timer, timeoutSlots, shutdown, announced, exited>>
callVars   == <<owed, owedDelayed, blocked, stray>>
vars == <<tableVars, replyVars, signalVars, heard, endVars, running, callVars, view>>

-----------------------------------------------------------------------------
(* Signal connections: DCOPSignalConnection objects, told apart by id.     *)

Ids == {k.id : k \in connections}
SenderIds == Name \cup {NoName, ServerName}

SignalConnection ==
  [id : 1..MaxConnections, sender : SenderIds, senderObj : Object \cup {NoObject},
   senderConn : Conn \cup {NoConn}, signal : Signal, recvConn : Conn,
   recvObj : Object \cup {NoObject}, slot : Slot]

Quiet == [by |-> NoConn, fired |-> {}]
NoEmission == heard' = Quiet

TypeOK ==
  /\ clients \subseteq Conn
  /\ running \subseteq clients
  /\ appId \in [Conn -> Name \cup {NoName}]
  /\ appIds \in [Name -> Conn \cup {NoConn}]
  /\ daemon \in [Conn -> BOOLEAN]
  /\ notifyRegister \in [Conn -> Nat]
  /\ currentClientNumber \in Int
  /\ waitingOnReply \in [Conn -> [Conn -> Nat]]
  /\ waitingForReply \in [Conn -> [Conn -> Nat]]
  /\ waitingForDelayedReply \in [Conn -> [Conn -> Nat]]
  /\ connections \subseteq SignalConnection
  /\ signalList \in [Conn -> SUBSET SignalConnection]
  /\ heard \in [by : Conn \cup {NoConn}, fired : SUBSET SignalConnection]
  /\ timeoutSlots \subseteq {"slotTerminate", "slotSuicide", "slotExit"}
  /\ m_timer \in BOOLEAN /\ shutdown \in BOOLEAN /\ announced \in BOOLEAN
  /\ exited \in BOOLEAN /\ stray \in BOOLEAN
  /\ owed \in [Conn -> [Name -> Nat]]
  /\ owedDelayed \in [Conn -> [Name -> Nat]]
  /\ blocked \in [Conn -> [Conn -> Nat]]
  /\ view \in [Conn -> SUBSET Name]

None == [x \in Conn |-> 0]
NoneOwed == [n \in Name |-> 0]

Init ==
  /\ clients = {} /\ running = {}
  /\ appId = [c \in Conn |-> NoName]
  /\ appIds = [n \in Name |-> NoConn]
  /\ daemon = [c \in Conn |-> FALSE]
  /\ notifyRegister = [c \in Conn |-> 0]
  /\ currentClientNumber = 0
  /\ waitingOnReply = [c \in Conn |-> None]
  /\ waitingForReply = [c \in Conn |-> None]
  /\ waitingForDelayedReply = [c \in Conn |-> None]
  /\ connections = {} /\ signalList = [c \in Conn |-> {}] /\ heard = Quiet
  /\ m_timer = FALSE /\ timeoutSlots = {"slotTerminate"}
  /\ shutdown = FALSE /\ announced = FALSE /\ exited = FALSE
  /\ owed = [c \in Conn |-> NoneOwed] /\ owedDelayed = [c \in Conn |-> NoneOwed]
  /\ blocked = [c \in Conn |-> None] /\ stray = FALSE
  /\ view = [c \in Conn |-> {}]

-----------------------------------------------------------------------------
(* List operations on the counted lists: append and removeRef.            *)

Minus(m, n) == IF m > n THEN m - n ELSE 0
Append1(f, x, y) == [f EXCEPT ![x][y] = @ + 1]
RemoveRef(f, x, y) == [f EXCEPT ![x][y] = Minus(@, 1)]

Registered(c) == appId[c] # NoName
NamesTaken == {n \in Name : appIds[n] # NoConn}
Up(c) == ~exited /\ c \in running

(* A final answer of b reaches client a, which takes it for the answer to  *)
(* a call of its own if it waits for b.                                    *)
Deliver(a, b) ==
  /\ blocked' = RemoveRef(blocked, a, b)
  /\ stray' = (stray \/ blocked[a][b] = 0)

\* Mutant of Told: the client that caused the change is told as well.
ToldMutant(c) == {x \in clients : notifyRegister[x] > 0}

(* broadcastApplicationRegistration: whoever else asked for notifications  *)
(* is told that an id came or went.                                        *)
Told(c) == {x \in clients \ {c} : notifyRegister[x] > 0}

-----------------------------------------------------------------------------
(* Connections and registration.                                           *)

(* newClient() accepts a connection, DCOPWatchProc() calls                 *)
(* watchConnection(), which adds a fresh DCOPConnection.  Whatever calls   *)
(* other clients counted for an earlier client of that name stay owed.     *)
NewClient(c) ==
  /\ ~exited /\ c \notin clients
  /\ clients' = clients \cup {c} /\ running' = running \cup {c}
  /\ NoEmission
  /\ UNCHANGED <<appId, appIds, daemon, notifyRegister, currentClientNumber,
                 replyVars, signalVars, endVars, callVars, view>>

\* Mutant of Unify: the id is taken without a look at appIds.
UnifyMutant(app, taken, new) == new = Variants[app][1]

(* The id registerAs ends up with: the first variant of app not in appIds. *)
Unify(app, taken, new) ==
  \E i \in DOMAIN Variants[app] :
    /\ new = Variants[app][i]
    /\ new \notin taken
    /\ \A j \in 1..(i - 1) : Variants[app][j] \in taken

(* The clients' part in registerAs: when a client registers again, and     *)
(* whether an id may be taken while an answer is still on its way to it.   *)
MayRegister(c, new) ==
  /\ Registered(c) => \/ Renames = "any"
                      \/ Renames = "idle" /\ blocked[c] = None
  /\ \/ NameReuse
     \/ \A b \in Conn : owed[b][new] = 0 /\ owedDelayed[b][new] = 0

(* receive(), "registerAs(TQCString)".  The old id leaves appIds, but no   *)
(* "applicationRemoved" is broadcast for it: that branch is compiled out   *)
(* by the NDEBUG of dcopserver.h.                                          *)
RegisterAs(c, app) ==
  LET own == IF Registered(c) /\ appIds[appId[c]] = c THEN {appId[c]} ELSE {}
      taken == NamesTaken \ own
  IN \E new \in Name :
       /\ Up(c) /\ Unify(app, taken, new) /\ MayRegister(c, new)
       /\ appId' = [appId EXCEPT ![c] = new]
       /\ appIds' = [n \in Name |->
                       IF n = new THEN c ELSE IF n \in own THEN NoConn ELSE appIds[n]]
       /\ IF Registered(c)
            THEN UNCHANGED <<currentClientNumber, m_timer>>
            ELSE currentClientNumber' = currentClientNumber + 1 /\ m_timer' = FALSE
       /\ view' = [x \in Conn |-> IF x \in Told(c) THEN view[x] \cup {new} ELSE view[x]]
       /\ NoEmission
       /\ UNCHANGED <<clients, daemon, notifyRegister, replyVars, signalVars,
                      timeoutSlots, shutdown, announced, exited, running, callVars>>

\* Mutant of SetDaemonMode: a daemon that becomes a client leaves the timer on.
SetDaemonModeKeepsTimer(c, on) ==
  /\ Up(c) /\ Registered(c) /\ daemon[c] # on
  /\ daemon' = [daemon EXCEPT ![c] = on]
  /\ currentClientNumber' = currentClientNumber + (IF on THEN -1 ELSE 1)
  /\ NoEmission
  /\ UNCHANGED <<clients, appId, appIds, notifyRegister, replyVars, signalVars,
                 endVars, running, callVars, view>>

(* receive(), "setDaemonMode(bool)".                                       *)
SetDaemonMode(c, on) ==
  /\ Up(c) /\ Registered(c) /\ daemon[c] # on
  /\ daemon' = [daemon EXCEPT ![c] = on]
  /\ currentClientNumber' = currentClientNumber + (IF on THEN -1 ELSE 1)
  /\ m_timer' = (on /\ m_timer)
  /\ NoEmission
  /\ UNCHANGED <<clients, appId, appIds, notifyRegister, replyVars, signalVars,
                 timeoutSlots, shutdown, announced, exited, running, callVars, view>>

\* Mutant of SetNotifications: turned off without having been on.
SetNotificationsMutant(c, on) ==
  /\ Up(c) /\ (on => notifyRegister[c] < MaxNotify) /\ notifyRegister[c] > -2
  /\ notifyRegister' = [notifyRegister EXCEPT ![c] = @ + (IF on THEN 1 ELSE -1)]
  /\ NoEmission
  /\ UNCHANGED <<clients, appId, appIds, daemon, currentClientNumber, replyVars,
                 signalVars, endVars, running, callVars, view>>

(* receive(), "setNotifications(bool)".  A client that turns notifications *)
(* on asks for registeredApplications() to start from.                     *)
SetNotifications(c, on) ==
  /\ Up(c)
  /\ IF on THEN notifyRegister[c] < MaxNotify ELSE notifyRegister[c] > 0
  /\ notifyRegister' = [notifyRegister EXCEPT ![c] = @ + (IF on THEN 1 ELSE -1)]
  /\ view' = IF on /\ notifyRegister[c] = 0
               THEN [view EXCEPT ![c] = {n \in NamesTaken : appIds[n] # c}]
               ELSE view
  /\ NoEmission
  /\ UNCHANGED <<clients, appId, appIds, daemon, currentClientNumber, replyVars,
                 signalVars, endVars, running, callVars>>

-----------------------------------------------------------------------------
(* Calls between clients: processMessage().                                *)

(* DCOPCall or DCOPFind from a to the id n.  A call to an unknown id is    *)
(* answered with DCOPReplyFailed at once and changes nothing.  The server  *)
(* does not ask whether the caller has an id, but a DCOPClient has one     *)
(* before it calls another client: attach() and registerAs() register it.  *)
Call(a, n) ==
  LET b == appIds[n]
  IN /\ Up(a) /\ Registered(a) /\ b # NoConn
     /\ waitingOnReply[a][b] < MaxCalls
     /\ waitingForReply' = Append1(waitingForReply, b, a)
     /\ waitingOnReply' = Append1(waitingOnReply, a, b)
     /\ owed' = [owed EXCEPT ![b][appId[a]] = @ + 1]
     /\ blocked' = Append1(blocked, a, b)
     /\ NoEmission
     /\ UNCHANGED <<tableVars, waitingForDelayedReply, signalVars, endVars, running,
                    owedDelayed, stray, view>>

(* DCOPReply or DCOPReplyFailed from b for a call of the id n.  The caller *)
(* is looked up by id; when nobody has it the answer is dropped and the    *)
(* lists stay as they are.                                                 *)
Reply(b, n) ==
  LET a == appIds[n]
  IN /\ Up(b) /\ owed[b][n] > 0
     /\ owed' = [owed EXCEPT ![b][n] = @ - 1]
     /\ IF a = NoConn
          THEN UNCHANGED <<replyVars, blocked, stray>>
          ELSE /\ waitingForReply' = RemoveRef(waitingForReply, b, a)
               /\ waitingOnReply' = RemoveRef(waitingOnReply, a, b)
               /\ UNCHANGED waitingForDelayedReply
               /\ Deliver(a, b)
     /\ NoEmission
     /\ UNCHANGED <<tableVars, signalVars, endVars, running, owedDelayed, view>>

\* Mutant of ReplyWait: the caller stays in the list of callers to be answered now.
ReplyWaitMutant(b, n) ==
  LET a == appIds[n]
  IN /\ Up(b) /\ owed[b][n] > 0
     /\ owed' = [owed EXCEPT ![b][n] = @ - 1]
     /\ owedDelayed' = [owedDelayed EXCEPT ![b][n] = @ + 1]
     /\ waitingForDelayedReply' = IF a = NoConn THEN waitingForDelayedReply
                                  ELSE Append1(waitingForDelayedReply, b, a)
     /\ NoEmission
     /\ UNCHANGED <<tableVars, waitingOnReply, waitingForReply, signalVars, endVars,
                    running, blocked, stray, view>>

(* DCOPReplyWait from b: the answer to n will come as a DCOPReplyDelayed.  *)
ReplyWait(b, n) ==
  LET a == appIds[n]
  IN /\ Up(b) /\ owed[b][n] > 0
     /\ owed' = [owed EXCEPT ![b][n] = @ - 1]
     /\ owedDelayed' = [owedDelayed EXCEPT ![b][n] = @ + 1]
     /\ IF a = NoConn
          THEN UNCHANGED replyVars
          ELSE /\ waitingForReply' = RemoveRef(waitingForReply, b, a)
               /\ waitingForDelayedReply' = Append1(waitingForDelayedReply, b, a)
               /\ UNCHANGED waitingOnReply
     /\ NoEmission
     /\ UNCHANGED <<tableVars, signalVars, endVars, running, blocked, stray, view>>

\* Mutant of ReplyDelayed: the answered client still counts as waiting.
ReplyDelayedMutant(b, n) ==
  LET a == appIds[n]
  IN /\ Up(b) /\ owedDelayed[b][n] > 0
     /\ owedDelayed' = [owedDelayed EXCEPT ![b][n] = @ - 1]
     /\ IF a = NoConn
          THEN UNCHANGED <<replyVars, blocked, stray>>
          ELSE /\ waitingForDelayedReply' = RemoveRef(waitingForDelayedReply, b, a)
               /\ UNCHANGED <<waitingForReply, waitingOnReply>>
               /\ Deliver(a, b)
     /\ NoEmission
     /\ UNCHANGED <<tableVars, signalVars, endVars, running, owed, view>>

(* DCOPReplyDelayed from b.  waitingOnReply is only touched when b was in  *)
(* the delayed list; the message is passed on in any case.                 *)
ReplyDelayed(b, n) ==
  LET a == appIds[n]
  IN /\ Up(b) /\ owedDelayed[b][n] > 0
     /\ owedDelayed' = [owedDelayed EXCEPT ![b][n] = @ - 1]
     /\ IF a = NoConn
          THEN UNCHANGED <<replyVars, blocked, stray>>
          ELSE /\ waitingForDelayedReply' = RemoveRef(waitingForDelayedReply, b, a)
               /\ waitingOnReply' = IF waitingForDelayedReply[b][a] > 0
                                      THEN RemoveRef(waitingOnReply, a, b)
                                      ELSE waitingOnReply
               /\ UNCHANGED waitingForReply
               /\ Deliver(a, b)
     /\ NoEmission
     /\ UNCHANGED <<tableVars, signalVars, endVars, running, owed, view>>

-----------------------------------------------------------------------------
(* Signals: dcopsignals.cpp.                                               *)

(* DCOPSignals::connectSignal().  A volatile connection is tied to the     *)
(* connection that has the sender's id now.                                *)
ConnectSignal(c, sender, senderObj, signal, recvObj, slot, volatile) ==
  LET senderConn == IF volatile THEN appIds[sender] ELSE NoConn
  IN \E id \in 1..MaxConnections :
       LET k == [id |-> id, sender |-> sender, senderObj |-> senderObj,
                 senderConn |-> senderConn, signal |-> signal, recvConn |-> c,
                 recvObj |-> recvObj, slot |-> slot]
       IN /\ Up(c) /\ <<signal, slot>> \in Fits
          /\ volatile => sender \in Name /\ senderConn # NoConn
          /\ id \notin Ids /\ 1..(id - 1) \subseteq Ids
          /\ connections' = connections \cup {k}
          /\ signalList' = [x \in Conn |-> IF x \in {c, senderConn}
                                             THEN signalList[x] \cup {k}
                                             ELSE signalList[x]]
          /\ NoEmission
          /\ UNCHANGED <<tableVars, replyVars, endVars, running, callVars, view>>

(* DCOPSignals::disconnectSignal() with a sender and a signal; an empty    *)
(* object or slot matches any.                                             *)
DisconnectSignal(c, sender, senderObj, signal, recvObj, slots) ==
  LET gone == {k \in connections :
                 /\ k.signal = signal /\ k.recvConn = c
                 /\ sender = (IF k.senderConn # NoConn THEN appId[k.senderConn]
                                                       ELSE k.sender)
                 /\ senderObj \in {NoObject, k.senderObj}
                 /\ recvObj \in {NoObject, k.recvObj}
                 /\ k.slot \in slots}
  IN /\ Up(c) /\ gone # {}
     /\ connections' = connections \ gone
     /\ signalList' = [x \in Conn |->
                         {k \in signalList[x] : k \notin gone \/ x \notin {c, k.senderConn}}]
     /\ NoEmission
     /\ UNCHANGED <<tableVars, replyVars, endVars, running, callVars, view>>

(* What DCOPSignals::removeConnections(conn, obj) takes away.  With an obj *)
(* a connection is kept when either of conn's ends names another object.   *)
Severed(c, obj) ==
  {k \in signalList[c] :
     obj = NoObject \/ ~ \/ k.senderConn = c /\ k.senderObj # obj
                         \/ k.recvConn = c /\ k.recvObj # obj}

\* Mutant of RemoveConnections: the senders keep the connection in their lists.
RemoveConnectionsMutant(c, obj) ==
  LET gone == Severed(c, obj)
  IN /\ connections' = connections \ gone
     /\ signalList' = [x \in Conn |->
                         {k \in signalList[x] : k \notin gone \/ x \notin {c, k.recvConn}}]

RemoveConnections(c, obj) ==
  LET gone == Severed(c, obj)
  IN /\ connections' = connections \ gone
     /\ signalList' = [x \in Conn |->
                         {k \in signalList[x] :
                            k \notin gone \/ x \notin {c, k.senderConn, k.recvConn}}]

(* disconnectSignal() with neither a sender nor a signal.                  *)
DisconnectObject(c, obj) ==
  /\ Up(c) /\ RemoveConnections(c, obj)
  /\ NoEmission
  /\ UNCHANGED <<tableVars, replyVars, endVars, running, callVars, view>>

(* The connections DCOPSignals::emitSignal() fires.  emitter = NoConn is   *)
(* the server itself.                                                      *)
SenderMatches(k, emitter) ==
  IF k.senderConn # NoConn THEN k.senderConn = emitter
  ELSE IF k.sender # NoName
    THEN \/ emitter # NoConn /\ k.sender = appId[emitter]
         \/ k.sender = ServerName
    ELSE TRUE

Emission(emitter, signal, senderObj) ==
  heard' = [by |-> emitter,
            fired |-> {k \in connections : /\ k.signal = signal
                                           /\ SenderMatches(k, emitter)
                                           /\ k.senderObj \in {NoObject, senderObj}}]

(* receive(), obj = "emit".                                                *)
Emit(c, signal, senderObj) ==
  /\ Up(c) /\ Emission(c, signal, senderObj)
  /\ UNCHANGED <<tableVars, replyVars, connections, signalList, endVars, running,
                 callVars, view>>

-----------------------------------------------------------------------------
(* Leaving, and the end of the server.                                     *)

(* The client process of c dies or detaches; the server has not noticed.   *)
ClientGone(c) ==
  /\ Up(c) /\ running' = running \ {c}
  /\ NoEmission
  /\ UNCHANGED <<tableVars, replyVars, signalVars, endVars, callVars, view>>

\* Mutant of Failed: those who were promised a delayed reply are forgotten.
FailedMutant(c, a) == waitingForReply[c][a]

(* The answers DCOPReplyFailed that removeConnection() of c sends to a.    *)
Failed(c, a) == waitingForReply[c][a] + waitingForDelayedReply[c][a]

\* Mutant of AbortCalls: who promised c a delayed reply keeps c in that list.
AbortCallsMutant(c) ==
  /\ waitingForReply' =
       [x \in Conn |-> IF x = c THEN None
          ELSE [waitingForReply[x] EXCEPT ![c] = Minus(@, waitingOnReply[c][x])]]
  /\ waitingForDelayedReply' = [waitingForDelayedReply EXCEPT ![c] = None]
  /\ waitingOnReply' =
       [x \in Conn |-> IF x = c THEN None
          ELSE [waitingOnReply[x] EXCEPT ![c] = Minus(@, Failed(c, x))]]
  /\ blocked' = [x \in Conn |-> IF x = c THEN None
                   ELSE [blocked[x] EXCEPT ![c] = Minus(@, Failed(c, x))]]
  /\ owed' = [owed EXCEPT ![c] = NoneOwed]
  /\ owedDelayed' = [owedDelayed EXCEPT ![c] = NoneOwed]
  /\ UNCHANGED stray

(* removeConnection(), first part: every client waiting for c is sent a    *)
(* DCOPReplyFailed, and every client c was waiting for forgets c.          *)
AbortCalls(c) ==
  /\ waitingForReply' =
       [x \in Conn |-> IF x = c THEN None
          ELSE [waitingForReply[x] EXCEPT ![c] = Minus(@, waitingOnReply[c][x])]]
  /\ waitingForDelayedReply' =
       [x \in Conn |-> IF x = c THEN None
          ELSE [waitingForDelayedReply[x] EXCEPT ![c] =
                  Minus(@, Minus(waitingOnReply[c][x], waitingForReply[x][c]))]]
  /\ waitingOnReply' =
       [x \in Conn |-> IF x = c THEN None
          ELSE [waitingOnReply[x] EXCEPT ![c] = Minus(@, Failed(c, x))]]
  /\ blocked' = [x \in Conn |-> IF x = c THEN None
                   ELSE [blocked[x] EXCEPT ![c] = Minus(@, Failed(c, x))]]
  /\ stray' = (stray \/ \E x \in clients \ {c} : Failed(c, x) > blocked[x][c])
  /\ owed' = [owed EXCEPT ![c] = NoneOwed]
  /\ owedDelayed' = [owedDelayed EXCEPT ![c] = NoneOwed]

\* Mutant of TimerAfterRemoval: after SIGTERM a removal does not start the timer.
TimerAfterRemovalMutant(left, names) == m_timer \/ (Suicide /\ ~shutdown /\ left = 0)

(* removeConnection(), last part: does m_timer run afterwards.             *)
TimerAfterRemoval(left, names) ==
  \/ m_timer
  \/ Suicide /\ left = 0
  \/ shutdown /\ names = {}

(* removeConnection(), called when ICE closes the connection of c, after a *)
(* failed read (processData) or write (slotCleanDeadConnections).          *)
RemoveConnection(c) ==
  LET left == currentClientNumber - (IF Registered(c) /\ ~daemon[c] THEN 1 ELSE 0)
  IN /\ ~exited /\ c \in clients \ running
     /\ RemoveConnections(c, NoObject)
     /\ clients' = clients \ {c}
     /\ AbortCalls(c)
     /\ currentClientNumber' = left
     /\ appIds' = [n \in Name |-> IF n = appId[c] THEN NoConn ELSE appIds[n]]
     /\ view' = [x \in Conn |->
                   IF x = c THEN {}
                   ELSE IF Registered(c) /\ x \in Told(c) THEN view[x] \ {appId[c]}
                                                         ELSE view[x]]
     /\ appId' = [appId EXCEPT ![c] = NoName]
     /\ daemon' = [daemon EXCEPT ![c] = FALSE]
     /\ notifyRegister' = [notifyRegister EXCEPT ![c] = 0]
     /\ m_timer' = TimerAfterRemoval(left, NamesTaken \ {appId[c]})
     /\ NoEmission
     /\ UNCHANGED <<timeoutSlots, shutdown, announced, exited, running>>

\* Mutant of Timeout: terminateTDE() is not emitted.
TimeoutMutant ==
  /\ ~exited /\ m_timer
  /\ exited' = (timeoutSlots \cap {"slotSuicide", "slotExit"} # {})
  /\ timeoutSlots' = (timeoutSlots \ {"slotTerminate"}) \cup {"slotSuicide"}
  /\ NoEmission
  /\ UNCHANGED <<tableVars, replyVars, connections, signalList, m_timer, shutdown,
                 announced, running, callVars, view>>

(* m_timer's timeout(): slotTerminate() emits terminateTDE() and hands the *)
(* timer to slotSuicide(); slotSuicide() and slotExit() exit.  The timer   *)
(* is periodic and keeps running.                                          *)
Timeout ==
  /\ ~exited /\ m_timer
  /\ exited' = (timeoutSlots \cap {"slotSuicide", "slotExit"} # {})
  /\ IF "slotTerminate" \in timeoutSlots
       THEN /\ timeoutSlots' = (timeoutSlots \ {"slotTerminate"}) \cup {"slotSuicide"}
            /\ announced' = TRUE
            /\ Emission(NoConn, TerminateTDE, NoObject)
       ELSE UNCHANGED <<timeoutSlots, announced>> /\ NoEmission
  /\ UNCHANGED <<tableVars, replyVars, connections, signalList, m_timer, shutdown,
                 running, callVars, view>>

\* Mutant of Shutdown: the timer is not connected to slotExit().
ShutdownMutant ==
  /\ CanShutdown /\ ~exited /\ ~shutdown
  /\ shutdown' = TRUE /\ announced' = TRUE /\ m_timer' = TRUE
  /\ Emission(NoConn, TerminateTDE, NoObject)
  /\ timeoutSlots' = timeoutSlots \ {"slotTerminate"}
  /\ exited' = (NamesTaken = {})
  /\ UNCHANGED <<tableVars, replyVars, connections, signalList, running, callVars, view>>

(* SIGTERM: slotShutdown().  Only the first one counts.                    *)
Shutdown ==
  /\ CanShutdown /\ ~exited /\ ~shutdown
  /\ shutdown' = TRUE /\ announced' = TRUE /\ m_timer' = TRUE
  /\ Emission(NoConn, TerminateTDE, NoObject)
  /\ timeoutSlots' = (timeoutSlots \ {"slotTerminate"}) \cup {"slotExit"}
  /\ exited' = (NamesTaken = {})
  /\ UNCHANGED <<tableVars, replyVars, connections, signalList, running, callVars, view>>

-----------------------------------------------------------------------------
SignalStep(c) ==
  \E signal \in Signal, obj \in Object \cup {NoObject} :
    \/ Emit(c, signal, obj)
    \/ \E sender \in SenderIds, recvObj \in Object, slot \in Slot :
         \/ \E volatile \in BOOLEAN :
              ConnectSignal(c, sender, obj, signal, recvObj, slot, volatile)
         \/ \E slots \in {{slot}, Slot} :
              DisconnectSignal(c, sender, obj, signal, recvObj, slots)
    \/ DisconnectObject(c, obj)

Next ==
  \/ \E c \in Conn :
       \/ NewClient(c)
       \/ \E app \in Name : RegisterAs(c, app)
       \/ \E on \in BOOLEAN : SetDaemonMode(c, on) \/ SetNotifications(c, on)
       \/ \E n \in Name : Call(c, n) \/ Reply(c, n) \/ ReplyWait(c, n) \/ ReplyDelayed(c, n)
       \/ SignalStep(c)
       \/ ClientGone(c)
       \/ RemoveConnection(c)
  \/ Timeout
  \/ Shutdown

(* The event loop handles a closed connection and an expired timer         *)
(* eventually.  Clients are never obliged to anything.                     *)
Fairness == WF_vars(Timeout) /\ \A c \in Conn : WF_vars(RemoveConnection(c))

Spec == Init /\ [][Next]_vars /\ Fairness

-----------------------------------------------------------------------------
(* Properties.                                                             *)

\* The appIds dictionary holds exactly the registered connections, each under
\* the id it believes it has: registerAs (dcopserver.cpp:1412) and
\* removeConnection (1263) keep the two in step through renaming, unification
\* and removal, so no message is routed to a connection that lost its id.
NameTable ==
  /\ \A c \in Conn : Registered(c) => c \in clients /\ appIds[appId[c]] = c
  /\ \A n \in Name : appIds[n] # NoConn => appId[appIds[n]] = n

Counted == {c \in clients : Registered(c) /\ ~daemon[c]}

\* currentClientNumber is the number of registered clients that are not
\* daemons, whatever the order of registration, renaming, setDaemonMode and
\* removal (dcopserver.cpp:1269, 1390, 1401, 1428).
ClientCount == currentClientNumber = Cardinality(Counted)

\* The bookkeeping rule of dcopserver.h:84-93: a client waits on another
\* exactly as often as the other knows of it, as a caller to be answered now
\* or later, and no list mentions a connection that is gone.
CallBookkeeping ==
  \A a, b \in Conn :
    /\ waitingOnReply[a][b] = waitingForReply[b][a] + waitingForDelayedReply[b][a]
    /\ waitingOnReply[a][b] > 0 => {a, b} \subseteq clients

\* A client waits on a running client only while that one owes an answer: the
\* entry lasts for the duration of the call, and no longer (dcopserver.h:84).
WaitingMeansOwed ==
  \A a \in clients, b \in running :
    waitingOnReply[a][b] > 0 =>
      \E n \in Name : owed[b][n] + owedDelayed[b][n] > 0

\* No client is handed an answer to a call it did not make.
NoStrayAnswer == ~stray

\* What the server and the two of them know of a's calls to b.
PairAgrees(a, b) ==
  /\ waitingOnReply[a][b] = waitingForReply[b][a] + waitingForDelayedReply[b][a]
  /\ blocked[a][b] = waitingOnReply[a][b]
  /\ waitingOnReply[a][b] > 0 => Registered(a) /\ Registered(b)
  /\ Registered(a) => /\ owed[b][appId[a]] = waitingForReply[b][a]
                      /\ owedDelayed[b][appId[a]] = waitingForDelayedReply[b][a]

\* The three lists, what the clients wait for, and what they owe tell the same
\* story, call by call.  Together with the name table this is inductive as long
\* as a client with a call outstanding does not rename itself and no id is taken
\* over while an answer to it is due.
CallsAgree == NoStrayAnswer /\ \A a, b \in Conn : PairAgrees(a, b)

\* Every signal connection is in the list of its receiver, in the list of its
\* sender if it is volatile, and in no other list, and both are connected: the
\* pointers that removeConnections and emitSignal follow are valid.
SignalListsAgree ==
  /\ \A k \in connections : {k.recvConn, k.senderConn} \subseteq clients \cup {NoConn}
  /\ \A c \in Conn : signalList[c] = {k \in connections : c \in {k.recvConn, k.senderConn}}

\* Without SIGTERM the server's timer runs, and the server exits, only when no
\* client but daemons is left: a client that registers or leaves daemon mode
\* while termination is planned calls it off.
SuicideOnlyWhenIdle ==
  ~shutdown /\ (m_timer \/ exited) => Suicide /\ currentClientNumber = 0

\* After SIGTERM the server is never left without something that ends it: its
\* timer runs, or a client is registered whose removal starts it again.
ShutdownNeverStuck == shutdown /\ ~exited => m_timer \/ NamesTaken # {}

\* The server does not exit before terminateTDE() has been emitted.
ExitAnnounced == exited => announced

\* A client that turned notifications on and follows applicationRegistered and
\* applicationRemoved knows exactly the other registered ids.
NotificationsTrackNames ==
  \A c \in clients :
    notifyRegister[c] > 0 => view[c] = {n \in NamesTaken : appIds[n] # c}

\* Without a sender of the name "DCOPServer" among the clients, a connection to
\* the signals of the server fires for emissions of the server only.  The code
\* does not keep to this (see README).
ServerSignalsFromServer ==
  \A k \in heard.fired : k.sender = ServerName => heard.by = NoConn

\* disconnectSignal without sender and signal leaves no connection to the
\* object in the client.  The code does not keep to this (see README).
DisconnectObjectIsComplete ==
  [][\A c \in Conn, obj \in Object :
       DisconnectObject(c, obj) =>
         \A k \in connections' : k.recvConn # c \/ k.recvObj # obj]_vars

\* When a called client dies, its callers get an answer.
CalleeDeathReleases ==
  \A a, b \in Conn :
    (a \in running /\ blocked[a][b] > 0 /\ b \notin running)
      ~> (blocked[a][b] = 0 \/ exited)

\* After SIGTERM, once the last client has left the server exits, unless a
\* client registers again.
ShutdownCompletes ==
  (shutdown /\ NamesTaken = {}) ~> (exited \/ NamesTaken # {})

\* The server as a call service: what its clients wait for is what the service
\* has pending.
Service == INSTANCE CallService WITH
             connected <- clients, alive <- running, pending <- blocked, stopped <- exited

\* Every call is answered by the called client or by its removal, and only so.
ImplementsCallService == Service!Spec
=============================================================================
