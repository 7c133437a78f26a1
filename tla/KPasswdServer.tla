--------------------------- MODULE KPasswdServer ---------------------------
(***************************************************************************)
(* The password server of kded (tdeio/kpasswdserver) and the slaves that   *)
(* ask it (tdeio/tdeio/slavebase.cpp).  A slave checks whether credentials *)
(* are cached; when they are not, or the server of the site refused them,  *)
(* it queries, and the user is asked.  Dialogs run their own event loop:   *)
(* everything else can happen while one is open.                           *)
(*                                                                         *)
(* A slave blocks in its call, so it has one request at a time.  A cached  *)
(* password is known by the sequence number it got.  The long-term store   *)
(* (TDEWallet) decides no more than whether "keep password" stays set, and *)
(* may answer a check that the cache does not.                             *)
(***************************************************************************)
EXTENDS Integers, Sequences

CONSTANTS
  Client,        \* slaves
  Window, NoWindow,
  windowOf,      \* the "window-id" of each slave's job
  Info,          \* the AuthInfos that slaves check: key, realm, dir, user, verifyPath
  User, NoUser,
  None,          \* no cached item
  Leftover,      \* window ids that memory fresh from new may hold
  MaxSeqNr       \* slaves begin nothing new at this sequence number

Key == {i.key : i \in Info}
Realm == {i.realm : i \in Info}
Dir == {i.dir : i \in Info}
InfoType ==
  [key : Key, realm : Realm, dir : Dir, user : User \union {NoUser}, verifyPath : BOOLEAN]

ASSUME InfoAssumption == Info \subseteq InfoType /\ Info # {} /\ Dir \subseteq Nat
ASSUME WindowAssumption ==
  /\ NoWindow \notin Window
  /\ \A c \in Client : windowOf[c] \in Window \union {NoWindow}
  /\ Leftover \subseteq Window \union {NoWindow} /\ Leftover # {}
ASSUME BoundAssumption == MaxSeqNr \in Nat

VARIABLES
  m_authPending,  \* queries, the first one may be in processRequest()
  m_authWait,     \* checks that wait for queries
  m_authDict,     \* for each key its items
  mWindowIdList,  \* the keys that changed for each window
  m_seqNr,
  timers,         \* single-shot timers that will call processRequest()
  dialog,         \* the dialog processRequest() is in
  openWindows,
  state,          \* what each slave does
  about,          \* the AuthInfo it is doing it for
  s_seqNr,        \* SlaveBase::s_seqNr of each slave
  told            \* sequence number of the item its last answer was made from

server == <<m_authPending, m_authWait, m_authDict, mWindowIdList, m_seqNr, timers, dialog>>
slaves == <<state, about, s_seqNr, told>>
vars == <<server, openWindows, slaves>>

Windows == Window \union {NoWindow}
Query == [client : Client, info : InfoType, seqNr : Nat, errorMsg : BOOLEAN, prompt : BOOLEAN]
Check == [client : Client, info : InfoType]
Item == [realm : Realm, dir : Dir, user : User \union {NoUser}, seqNr : Nat, isCanceled : BOOLEAN,
         expire : {"never", "windowClose", "time"}, windowList : SUBSET Window]

ASSUME NoneAssumption == None \notin Item

TypeOK ==
  /\ m_authPending \in Seq(Query)
  /\ m_authWait \subseteq Check
  /\ m_authDict \in [Key -> SUBSET Item]
  /\ mWindowIdList \in [Window -> SUBSET Key]
  /\ m_seqNr \in Nat /\ timers \in Nat
  /\ dialog \in {"none", "retry", "password"}
  /\ openWindows \subseteq Window
  /\ state \in [Client -> {"idle", "checking", "answered", "querying"}]
  /\ about \in [Client -> InfoType]
  /\ s_seqNr \in [Client -> Nat] /\ told \in [Client -> Nat]

Init ==
  /\ m_authPending = << >> /\ m_authWait = {}
  /\ m_authDict = [k \in Key |-> {}] /\ mWindowIdList = [w \in Window |-> {}]
  /\ m_seqNr = 0 /\ timers = 0 /\ dialog = "none"
  /\ openWindows = Window
  /\ state = [c \in Client |-> "idle"]
  /\ about = [c \in Client |-> CHOOSE i \in Info : TRUE]
  /\ s_seqNr = [c \in Client |-> 0] /\ told = [c \in Client |-> 0]

-----------------------------------------------------------------------------
(* The cache.                                                              *)

\* An item answers for info.  A directory is the depth on one path, so that
\* startsWith() is <=.
Matches(item, info) ==
  /\ info.user \in {NoUser, item.user}
  /\ IF info.verifyPath THEN item.dir <= info.dir ELSE item.realm = info.realm

\* The list is sorted "longest path first", and of equal ones the last added.
Before(item, other) ==
  \/ item.dir > other.dir
  \/ item.dir = other.dir /\ item.seqNr >= other.seqNr

findAuthInfoItem(dict, info) ==
  LET matching == {item \in dict[info.key] : Matches(item, info)}
      first == {item \in matching : \A other \in matching : Before(item, other)}
  IN IF first = {} THEN None ELSE CHOOSE item \in first : TRUE

\* updateAuthExpire() of an item, for some windows.
Expiry(item, windows, keep) ==
  IF keep THEN [item EXCEPT !.expire = "never"]
  ELSE IF windows # {} /\ item.expire # "never"
    THEN [item EXCEPT !.expire = "windowClose", !.windowList = @ \union windows]
    ELSE item

\* Mutant of ChangedFor: the key is not remembered.
ChangedForMutant(list, k, windows) == list

\* mWindowIdList once the items of key k were used for the windows.
ChangedFor(list, k, windows) ==
  [w \in Window |-> IF w \in windows THEN list[w] \union {k} ELSE list[w]]

\* addAuthInfoItem(): the item of that realm is changed, or made new.
Added(dict, info, window, seqNr, canceled, keep) ==
  LET same == {item \in dict[info.key] : item.realm = info.realm}
      old == IF same = {} THEN [expire |-> "time", windowList |-> {}]
             ELSE LET item == CHOOSE item \in same : TRUE
                  IN [expire |-> item.expire, windowList |-> item.windowList]
      new == [realm |-> info.realm, dir |-> info.dir, user |-> info.user,
              seqNr |-> seqNr, isCanceled |-> canceled,
              expire |-> old.expire, windowList |-> old.windowList]
  IN [dict EXCEPT ![info.key] =
        (@ \ same) \union {Expiry(new, {window} \ {NoWindow}, keep /\ ~canceled)}]

\* The windows that get the item from the answers to the checks, each for the
\* window win[check].
Users(dict, item, k, checks, win) ==
  {win[q] : q \in {q \in checks : q.info.key = k /\ ~item.isCanceled
                                  /\ findAuthInfoItem(dict, q.info) = item}} \ {NoWindow}

\* The items and the keys of windows after checks were answered from the cache.
Used(dict, checks, win) ==
  [k \in Key |->
     {Expiry(item, Users(dict, item, k, checks, win), FALSE) : item \in dict[k]}]
UsedFor(list, dict, checks, win) ==
  [w \in Window |-> list[w] \union
     {k \in Key : \E item \in dict[k] : w \in Users(dict, item, k, checks, win)}]

SeqNrOf(result) == IF result = None THEN 0 ELSE result.seqNr

-----------------------------------------------------------------------------
(* Slaves.                                                                 *)

\* A slave does not know whether its window is still open.
MayBegin == m_seqNr < MaxSeqNr

\* The query q is for the same key, and for a directory above when that counts.
Covers(q, info, verifyPath) ==
  q.info.key = info.key /\ (verifyPath => q.info.dir <= info.dir)

\* What the slave makes of the answer.
UserFrom(result, user) ==
  IF result = None \/ result.isCanceled THEN user ELSE result.user

\* checkAuthInfo(), answered at once or put into the wait queue.
checkAuthInfo(c) ==
  /\ state[c] \in {"idle", "answered"} /\ MayBegin
  /\ \E info \in Info :
       LET q == [client |-> c, info |-> info]
           result == findAuthInfoItem(m_authDict, info)
           win == [x \in {q} |-> windowOf[c]]
       IN IF \E j \in DOMAIN m_authPending : Covers(m_authPending[j], info, info.verifyPath)
            THEN /\ m_authWait' = m_authWait \union {q}
                 /\ state' = [state EXCEPT ![c] = "checking"]
                 /\ about' = [about EXCEPT ![c] = info]
                 /\ UNCHANGED <<m_authDict, mWindowIdList, told>>
            ELSE /\ m_authDict' = Used(m_authDict, {q}, win)
                 /\ mWindowIdList' = UsedFor(mWindowIdList, m_authDict, {q}, win)
                 /\ state' = [state EXCEPT ![c] = "answered"]
                 /\ about' = [about EXCEPT ![c] = [info EXCEPT !.user = UserFrom(result, @)]]
                 /\ told' = [told EXCEPT ![c] = SeqNrOf(result)]
                 /\ UNCHANGED m_authWait
  /\ UNCHANGED <<m_authPending, m_seqNr, timers, dialog, openWindows, s_seqNr>>

\* queryAuthInfo(), after a check (or an earlier query) for the same realm.
queryAuthInfo(c) ==
  /\ state[c] = "answered" /\ MayBegin /\ ~about[c].verifyPath
  /\ \E errorMsg, prompt \in BOOLEAN :
       /\ errorMsg => prompt
       /\ m_authPending' = Append(m_authPending,
            [client |-> c, info |-> about[c], seqNr |-> s_seqNr[c],
             errorMsg |-> errorMsg, prompt |-> prompt])
  /\ timers' = IF Len(m_authPending') = 1 THEN timers + 1 ELSE timers
  /\ state' = [state EXCEPT ![c] = "querying"]
  /\ UNCHANGED <<m_authWait, m_authDict, mWindowIdList, m_seqNr, dialog, openWindows,
                 about, s_seqNr, told>>

\* Mutant of addAuthInfo: the credentials get no number of their own.
addAuthInfoMutant(c) ==
  /\ state[c] = "answered" /\ MayBegin
  /\ \E u \in User, keep \in BOOLEAN :
       m_authDict' = Added(m_authDict, [about[c] EXCEPT !.user = u], windowOf[c], m_seqNr, FALSE, keep)
  /\ mWindowIdList' = ChangedFor(mWindowIdList, about[c].key, {windowOf[c]})
  /\ state' = [state EXCEPT ![c] = "idle"]
  /\ UNCHANGED <<m_authPending, m_authWait, m_seqNr, timers, dialog, openWindows, about, s_seqNr, told>>

\* addAuthInfo(): the slave got in with credentials the cache may not have.
addAuthInfo(c) ==
  /\ state[c] = "answered" /\ MayBegin
  /\ m_seqNr' = m_seqNr + 1
  /\ \E u \in User, keep \in BOOLEAN :
       m_authDict' = Added(m_authDict, [about[c] EXCEPT !.user = u], windowOf[c], m_seqNr', FALSE, keep)
  /\ mWindowIdList' = ChangedFor(mWindowIdList, about[c].key, {windowOf[c]})
  /\ state' = [state EXCEPT ![c] = "idle"]
  /\ UNCHANGED <<m_authPending, m_authWait, timers, dialog, openWindows, about, s_seqNr, told>>

\* The slave is given to another host.
SwitchHost(c) ==
  /\ state[c] = "answered"
  /\ state' = [state EXCEPT ![c] = "idle"] /\ s_seqNr' = [s_seqNr EXCEPT ![c] = 0]
  /\ UNCHANGED <<server, openWindows, about, told>>

-----------------------------------------------------------------------------
(* processRequest().                                                       *)

head == Head(m_authPending)

\* Mutant of Released: the wait queue is not looked at.
ReleasedMutant(pending, verifyPath) == {}

\* The checks that no query keeps waiting any more.
Released(pending, verifyPath) ==
  {q \in m_authWait : \A j \in DOMAIN pending : ~Covers(pending[j], q.info, verifyPath[q])}

\* Mutant of StillWaiting: an answered check stays in the queue.
StillWaitingMutant(done) == m_authWait

StillWaiting(done) == m_authWait \ done

\* Mutant of TimersAfter: processRequest() does not start itself again.
TimersAfterMutant(pending, left) == left

TimersAfter(pending, left) == IF pending = << >> THEN left ELSE left + 1

\* The end of processRequest(): head is answered with the item given, and every
\* check that waited for no other query from the cache.  `info' still refers to
\* the head, which is deleted by then, so that its verifyPath may be anything;
\* the windowId of a check was never set.
Finish(dict, list, given, left) ==
  \E verifyPath \in [m_authWait -> BOOLEAN], windowId \in [m_authWait -> Leftover] :
    LET pending == Tail(m_authPending)
        done == Released(pending, verifyPath)
        \* what each slave is answered about, and from what
        Answers(c) == {<<head.info, given>> : h \in {head.client} \intersect {c}}
          \union {<<q.info, findAuthInfoItem(dict, q.info)>> : q \in {q \in done : q.client = c}}
        Answer(c) == CHOOSE a \in Answers(c) : TRUE
    IN /\ m_authPending' = pending /\ m_authWait' = StillWaiting(done)
       /\ timers' = TimersAfter(pending, left) /\ dialog' = "none"
       /\ m_authDict' = Used(dict, done, windowId)
       /\ mWindowIdList' = UsedFor(list, dict, done, windowId)
       /\ s_seqNr' = [s_seqNr EXCEPT ![head.client] = m_seqNr']
       /\ state' = [c \in Client |-> IF Answers(c) = {} THEN state[c] ELSE "answered"]
       /\ told' = [c \in Client |-> IF Answers(c) = {} THEN told[c] ELSE SeqNrOf(Answer(c)[2])]
       /\ about' = [c \in Client |-> IF Answers(c) = {} THEN about[c]
                      ELSE [Answer(c)[1] EXCEPT !.user = UserFrom(Answer(c)[2], @)]]
       /\ UNCHANGED openWindows

\* The head's item is what the user chose, or that he did not.
FinishWith(info, window, canceled, keep, left) ==
  LET dict == Added(m_authDict, info, window, m_seqNr', canceled, keep)
  IN Finish(dict, ChangedFor(mWindowIdList, info.key, {window}),
            findAuthInfoItem(dict, [info EXCEPT !.verifyPath = FALSE]), left)

\* Mutant of Canceled: a timer is taken for run out that was not there.
CanceledMutant(left) == FinishWith(head.info, NoWindow, TRUE, FALSE, left - 1)

Canceled(left) == FinishWith(head.info, NoWindow, TRUE, FALSE, left)

Cached == findAuthInfoItem(m_authDict, head.info)

\* The cached item is newer than what the slave was told last.
AutoRetry == Cached # None /\ head.seqNr < Cached.seqNr

\* A timer fires.  processRequest() returns at once if the queue is empty, but then no
\* timer runs (OneAtATime).
Begin == timers > 0 /\ m_authPending # << >>

\* The query is answered from the cache.
Retry ==
  /\ Begin /\ AutoRetry
  /\ UNCHANGED m_seqNr
  /\ LET q == [client |-> head.client, info |-> head.info]
         win == [x \in {q} |-> windowOf[head.client]]
     IN Finish(Used(m_authDict, {q}, win), UsedFor(mWindowIdList, m_authDict, {q}, win),
               Cached, timers - 1)

\* The user is asked whether to try again, or for a password, or not at all.
Ask ==
  /\ Begin /\ ~AutoRetry
  /\ m_seqNr' = m_seqNr + 1
  /\ LET warn == Cached # None /\ head.info.user # NoUser /\ head.errorMsg
     IN IF warn \/ head.prompt
          THEN /\ dialog' = IF warn THEN "retry" ELSE "password"
               /\ timers' = timers - 1
               /\ UNCHANGED <<m_authPending, m_authWait, m_authDict, mWindowIdList,
                              openWindows, slaves>>
          ELSE Canceled(timers - 1)

RetryClosed ==
  /\ dialog = "retry" /\ UNCHANGED m_seqNr
  /\ \/ /\ head.prompt /\ dialog' = "password"
        /\ UNCHANGED <<m_authPending, m_authWait, m_authDict, mWindowIdList, timers,
                       openWindows, slaves>>
     \/ Canceled(timers)

PasswordClosed ==
  /\ dialog = "password" /\ UNCHANGED m_seqNr
  /\ \/ Canceled(timers)
     \/ \E u \in User, keep \in BOOLEAN :
          FinishWith([head.info EXCEPT !.user = u], windowOf[head.client], FALSE, keep, timers)

-----------------------------------------------------------------------------
(* Time and windows.                                                       *)

\* An item without a window is forgotten after ten seconds.
Expire ==
  /\ \E k \in Key : \E item \in m_authDict[k] :
       /\ item.expire = "time"
       /\ m_authDict' = [m_authDict EXCEPT ![k] = @ \ {item}]
  /\ UNCHANGED <<m_authPending, m_authWait, mWindowIdList, m_seqNr, timers, dialog,
                 openWindows, slaves>>

Closed(item, w) ==
  IF item.expire = "windowClose" THEN [item EXCEPT !.windowList = @ \ {w}] ELSE item
Outlives(item, w) == ~(item.expire = "windowClose" /\ item.windowList = {w})

removeAuthForWindowId(w) ==
  m_authDict' = [k \in Key |->
    IF k \notin mWindowIdList[w] THEN m_authDict[k]
    ELSE {Closed(item, w) : item \in {i \in m_authDict[k] : Outlives(i, w)}}]

CloseWindow(w) ==
  /\ w \in openWindows
  /\ openWindows' = openWindows \ {w}
  /\ removeAuthForWindowId(w)
  /\ UNCHANGED <<m_authPending, m_authWait, mWindowIdList, m_seqNr, timers, dialog, slaves>>

-----------------------------------------------------------------------------
Serve == Retry \/ Ask
UserAnswers == RetryClosed \/ PasswordClosed
Slave(c) == checkAuthInfo(c) \/ queryAuthInfo(c) \/ addAuthInfo(c) \/ SwitchHost(c)

Next ==
  \/ \E c \in Client : Slave(c)
  \/ Serve \/ UserAnswers \/ Expire
  \/ \E w \in Window : CloseWindow(w)

\* Timers fire, and the user closes each dialog in the end: weak fairness of
\* Serve and UserAnswers, which are enabled exactly when a timer runs and when a
\* dialog is open.  It is written out because TLC finds out slowly whether so
\* large an action is ENABLED.
Fairness ==
  /\ []<>(timers = 0) \/ []<><<Serve>>_vars
  /\ []<>(dialog = "none") \/ []<><<UserAnswers>>_vars

Spec == Init /\ [][Next]_vars /\ Fairness

-----------------------------------------------------------------------------
(* Properties.                                                             *)

\* Each query is being processed or has exactly one timer that will see to it:
\* processRequest() never runs inside the event loop of its own dialog, and a
\* queue is never forgotten (kpasswdserver.cpp:281 and 495).
OneAtATime ==
  timers + (IF dialog = "none" THEN 0 ELSE 1) = IF m_authPending = << >> THEN 0 ELSE 1

\* A check is kept waiting only by a query for the same key that is still
\* pending, so the answer to the last query releases everybody.
WaitersHaveReason ==
  \A q \in m_authWait : \E j \in DOMAIN m_authPending : m_authPending[j].info.key = q.info.key

\* A slave that is blocked in a call has exactly one request in the queues, the
\* one of that call, and no other slave has any.
RequestsMatchCalls ==
  \A c \in Client :
    LET queries == {j \in DOMAIN m_authPending : m_authPending[j].client = c}
        checks == {q \in m_authWait : q.client = c}
    IN CASE state[c] = "querying" -> checks = {} /\ \E j \in queries : queries = {j}
         [] state[c] = "checking" -> queries = {} /\ \E q \in checks : checks = {q}
         [] OTHER -> queries = {} /\ checks = {}

\* The user is asked only when the slave has been told of the newest
\* credentials that the cache has for it ("it is not necessary to prompt the
\* user again", kpasswdserver/DESIGN).
AskedOnlyForNews ==
  [][dialog = "none" /\ dialog' # "none" =>
       (Cached # None => told[head.client] >= Cached.seqNr)]_vars

\* Credentials kept "only for the duration of the window"
\* (kpasswdserver.cpp:403) go with it: when a window is closed no item is left that
\* was kept for it alone, and those that were kept for others too forget it.
PasswordsGoWithWindows ==
  [][\A w \in openWindows \ openWindows' :
       \A k \in Key : \A item \in m_authDict'[k] :
         item.expire = "windowClose" => w \notin item.windowList /\ item.windowList # {}]_vars

\* But the server takes credentials for a window that is closed already, from a slave
\* that goes on or for a query that the user answers: these stay, so that this does
\* not hold.
NothingForClosedWindows ==
  \A k \in Key : \A item \in m_authDict[k] :
    item.expire = "windowClose" => item.windowList \subseteq openWindows

\* Every query is answered when the user closes the dialogs.
QueriesAnswered == \A c \in Client : state[c] = "querying" ~> state[c] # "querying"
=============================================================================
