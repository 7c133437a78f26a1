------------------------ MODULE KPasswdServer_proofs ------------------------
(* Proofs about the queues and the cache of the password server, for any    *)
(* slaves, windows, realms and directories.                                 *)
EXTENDS KPasswdServer, SequenceTheorems, TLAPS

-----------------------------------------------------------------------------
(* Type correctness.                                                       *)

Cache == [Key -> SUBSET Item]
Changed == [Window -> SUBSET Key]

LEMMA InfoIsTyped == Info \subseteq InfoType /\ (CHOOSE i \in Info : TRUE) \in InfoType
  BY InfoAssumption

LEMMA FoundIsItem ==
  ASSUME NEW dict \in Cache, NEW info \in InfoType
  PROVE  \/ findAuthInfoItem(dict, info) = None
         \/ findAuthInfoItem(dict, info) \in dict[info.key]
  BY DEF findAuthInfoItem

LEMMA ItemsOfCache ==
  ASSUME NEW dict \in Cache, NEW info \in InfoType
  PROVE  findAuthInfoItem(dict, info) \in Item \union {None}
  BY FoundIsItem DEF Cache, InfoType

LEMMA ExpiryIsItem ==
  ASSUME NEW item \in Item, NEW windows \in SUBSET Window, NEW keep \in BOOLEAN
  PROVE  Expiry(item, windows, keep) \in Item
  BY DEF Expiry, Item

LEMMA AddedIsCache ==
  ASSUME NEW dict \in Cache, NEW info \in InfoType, NEW window \in Windows, NEW n \in Nat,
         NEW canceled \in BOOLEAN, NEW keep \in BOOLEAN
  PROVE  Added(dict, info, window, n, canceled, keep) \in Cache
<1> DEFINE same == {item \in dict[info.key] : item.realm = info.realm}
           old == IF same = {} THEN [expire |-> "time", windowList |-> {}]
                  ELSE LET item == CHOOSE item \in same : TRUE
                       IN [expire |-> item.expire, windowList |-> item.windowList]
           new == [realm |-> info.realm, dir |-> info.dir, user |-> info.user,
                   seqNr |-> n, isCanceled |-> canceled,
                   expire |-> old.expire, windowList |-> old.windowList]
<1>1. dict[info.key] \subseteq Item /\ info.key \in Key
  BY DEF Cache, InfoType
<1>2. old.expire \in {"never", "windowClose", "time"} /\ old.windowList \in SUBSET Window
  BY <1>1 DEF Item
<1>3. new \in Item
  BY <1>2 DEF Item, InfoType
<1>4. {window} \ {NoWindow} \in SUBSET Window /\ (keep /\ ~canceled) \in BOOLEAN
  BY DEF Windows
<1> HIDE DEF new
<1>5. Expiry(new, {window} \ {NoWindow}, keep /\ ~canceled) \in Item
  BY <1>3, <1>4, ExpiryIsItem
<1>6. Added(dict, info, window, n, canceled, keep) =
        [dict EXCEPT ![info.key] =
           (@ \ same) \union {Expiry(new, {window} \ {NoWindow}, keep /\ ~canceled)}]
  BY DEF Added, new
<1> QED
  BY <1>1, <1>5, <1>6 DEF Cache

LEMMA UsersAreWindows ==
  ASSUME NEW dict, NEW item, NEW k, NEW checks, NEW win \in [checks -> Windows]
  PROVE  Users(dict, item, k, checks, win) \in SUBSET Window
  BY DEF Users, Windows

LEMMA UsedIsCache ==
  ASSUME NEW dict \in Cache, NEW list \in Changed, NEW checks, NEW win \in [checks -> Windows]
  PROVE  Used(dict, checks, win) \in Cache /\ UsedFor(list, dict, checks, win) \in Changed
<1>1. ASSUME NEW k \in Key, NEW item \in dict[k]
      PROVE  Expiry(item, Users(dict, item, k, checks, win), FALSE) \in Item
  <2>1. item \in Item
    BY DEF Cache
  <2>2. Users(dict, item, k, checks, win) \in SUBSET Window
    BY UsersAreWindows
  <2> QED
    BY <2>1, <2>2, ExpiryIsItem
<1>2. Used(dict, checks, win) \in Cache
  BY <1>1 DEF Used, Cache
<1>3. UsedFor(list, dict, checks, win) \in Changed
  BY DEF UsedFor, Changed
<1> QED
  BY <1>2, <1>3

LEMMA ChangedIsTyped ==
  ASSUME NEW list \in Changed, NEW k \in Key, NEW windows
  PROVE  ChangedFor(list, k, windows) \in Changed
  BY DEF ChangedFor, Changed

LEMMA HeadIsQuery ==
  ASSUME TypeOK, m_authPending # << >>
  PROVE  head \in Query /\ Tail(m_authPending) \in Seq(Query)
  BY HeadTailProperties DEF TypeOK, head

LEMMA FinishIsTyped ==
  ASSUME TypeOK, m_authPending # << >>, NEW dict \in Cache, NEW list \in Changed,
         NEW given \in Item \union {None}, NEW left \in Nat, m_seqNr' \in Nat,
         Finish(dict, list, given, left)
  PROVE  TypeOK'
<1>1. PICK verifyPath \in [m_authWait -> BOOLEAN], windowId \in [m_authWait -> Leftover] :
        Finish(dict, list, given, left)!(verifyPath, windowId)
  BY DEF Finish
<1> DEFINE pending == Tail(m_authPending)
           done == Released(pending, verifyPath)
           Answers(c) == {<<head.info, given>> : h \in {head.client} \intersect {c}}
             \union {<<q.info, findAuthInfoItem(dict, q.info)>> : q \in {q \in done : q.client = c}}
           Answer(c) == CHOOSE a \in Answers(c) : TRUE
<1>2. head \in Query /\ pending \in Seq(Query)
  BY HeadIsQuery
<1>3. done \subseteq m_authWait /\ m_authWait \subseteq Check
  BY DEF Released, TypeOK
<1>4. ASSUME NEW c, NEW a \in Answers(c) PROVE a[1] \in InfoType /\ a[2] \in Item \union {None}
  <2>1. CASE a = <<head.info, given>>
    BY <2>1, <1>2 DEF Query
  <2>2. CASE \E q \in done : a = <<q.info, findAuthInfoItem(dict, q.info)>>
    BY <2>2, <1>3, ItemsOfCache DEF Check
  <2> QED
    BY <2>1, <2>2
<1>5. ASSUME NEW c, Answers(c) # {}
      PROVE  /\ SeqNrOf(Answer(c)[2]) \in Nat
             /\ [Answer(c)[1] EXCEPT !.user = UserFrom(Answer(c)[2], @)] \in InfoType
  <2>1. Answer(c)[1] \in InfoType /\ Answer(c)[2] \in Item \union {None}
    BY <1>4, <1>5
  <2> HIDE DEF Answer
  <2> QED
    BY <2>1 DEF SeqNrOf, UserFrom, Item, InfoType
<1>6. m_authPending' \in Seq(Query) /\ m_authWait' \subseteq Check
  BY <1>1, <1>2, <1>3 DEF StillWaiting
<1>7. timers' \in Nat /\ dialog' = "none"
  BY <1>1 DEF TimersAfter
<1>8. m_authDict' \in Cache /\ mWindowIdList' \in Changed
  <2>1. windowId \in [done -> Windows] \/ windowId \in [m_authWait -> Windows]
    BY WindowAssumption DEF Windows
  <2> DEFINE win == [q \in done |-> windowId[q]]
  <2>2. win \in [done -> Windows]
    BY <2>1, <1>3
  <2>3. \A item, k : Users(dict, item, k, done, windowId) = Users(dict, item, k, done, win)
    BY <1>3 DEF Users
  <2> HIDE DEF done, win
  <2>4. /\ Used(dict, done, windowId) = Used(dict, done, win)
        /\ UsedFor(list, dict, done, windowId) = UsedFor(list, dict, done, win)
    BY <2>3 DEF Used, UsedFor
  <2>5. m_authDict' = Used(dict, done, windowId) /\ mWindowIdList' = UsedFor(list, dict, done, windowId)
    BY <1>1 DEF done
  <2> QED
    BY <2>2, <2>4, <2>5, UsedIsCache
<1>9. s_seqNr' \in [Client -> Nat]
  BY <1>1 DEF TypeOK
<1>10. told' \in [Client -> Nat] /\ about' \in [Client -> InfoType]
  <2>1. /\ told' = [c \in Client |-> IF Answers(c) = {} THEN told[c] ELSE SeqNrOf(Answer(c)[2])]
        /\ about' = [c \in Client |-> IF Answers(c) = {} THEN about[c]
                       ELSE [Answer(c)[1] EXCEPT !.user = UserFrom(Answer(c)[2], @)]]
    BY <1>1
  <2> HIDE DEF Answers, Answer
  <2> QED
    BY <2>1, <1>5 DEF TypeOK
<1>11. state' \in [Client -> {"idle", "checking", "answered", "querying"}] /\ openWindows' \subseteq Window
  <2>1. state' = [c \in Client |-> IF Answers(c) = {} THEN state[c] ELSE "answered"] /\ openWindows' = openWindows
    BY <1>1
  <2> HIDE DEF Answers
  <2> QED
    BY <2>1 DEF TypeOK
<1> QED
  BY <1>6, <1>7, <1>8, <1>9, <1>10, <1>11 DEF TypeOK, Cache, Changed

LEMMA TypeInit == Init => TypeOK
<1> SUFFICES ASSUME Init PROVE TypeOK
  OBVIOUS
<1>1. m_authPending \in Seq(Query) /\ m_authWait \subseteq Check
  BY DEF Init
<1>2. about \in [Client -> InfoType]
  BY InfoIsTyped DEF Init
<1> QED
  BY <1>1, <1>2 DEF Init, TypeOK

LEMMA FinishWithIsTyped ==
  ASSUME TypeOK, m_authPending # << >>, NEW info \in InfoType, NEW window \in Windows,
         NEW canceled \in BOOLEAN, NEW keep \in BOOLEAN, NEW left \in Nat, m_seqNr' \in Nat,
         FinishWith(info, window, canceled, keep, left)
  PROVE  TypeOK'
<1> DEFINE dict == Added(m_authDict, info, window, m_seqNr', canceled, keep)
           list == ChangedFor(mWindowIdList, info.key, {window})
           given == findAuthInfoItem(dict, [info EXCEPT !.verifyPath = FALSE])
<1>1. dict \in Cache
  BY AddedIsCache DEF TypeOK, Cache
<1>2. list \in Changed
  BY ChangedIsTyped DEF TypeOK, Changed, InfoType
<1>3. given \in Item \union {None}
  <2>1. [info EXCEPT !.verifyPath = FALSE] \in InfoType
    BY DEF InfoType
  <2> HIDE DEF dict
  <2> QED
    BY <1>1, <2>1, ItemsOfCache
<1>4. Finish(dict, list, given, left)
  BY DEF FinishWith
<1> HIDE DEF dict, list, given
<1> QED
  BY <1>1, <1>2, <1>3, <1>4, FinishIsTyped

LEMMA FinishKeepsOne ==
  ASSUME TypeOK, m_authPending # << >>, NEW dict, NEW list, NEW given, NEW left,
         left = 0, Finish(dict, list, given, left)
  PROVE  OneAtATime'
<1>1. m_authPending' = Tail(m_authPending) /\ dialog' = "none"
      /\ timers' = TimersAfter(Tail(m_authPending), 0)
  BY DEF Finish
<1> QED
  BY <1>1 DEF OneAtATime, TimersAfter

LEMMA OneStep == TypeOK /\ OneAtATime /\ [Next]_vars => OneAtATime'
<1> SUFFICES ASSUME TypeOK, OneAtATime, [Next]_vars PROVE OneAtATime'
  OBVIOUS
<1>0. timers \in Nat /\ (m_authPending # << >> <=> timers = 1 \/ dialog # "none")
      /\ (timers = 0 \/ (timers = 1 /\ dialog = "none"))
  <2>1. timers \in Nat
    BY DEF TypeOK
  <2>2. CASE dialog = "none"
    BY <2>1, <2>2 DEF OneAtATime
  <2>3. CASE dialog # "none"
    <3>1. timers + 1 = IF m_authPending = << >> THEN 0 ELSE 1
      BY <2>3 DEF OneAtATime
    <3>2. m_authPending # << >> /\ timers = 0
      BY <2>1, <3>1
    <3> QED
      BY <3>2, <2>3
  <2> QED
    BY <2>1, <2>2, <2>3
<1>1. ASSUME NEW c \in Client, checkAuthInfo(c) PROVE OneAtATime'
  BY <1>1 DEF checkAuthInfo, OneAtATime
<1>2. ASSUME NEW c \in Client, queryAuthInfo(c) PROVE OneAtATime'
  <2>1. PICK errorMsg \in BOOLEAN, prompt \in BOOLEAN :
          m_authPending' = Append(m_authPending,
            [client |-> c, info |-> about[c], seqNr |-> s_seqNr[c],
             errorMsg |-> errorMsg, prompt |-> prompt])
    BY <1>2 DEF queryAuthInfo
  <2>2. Len(m_authPending') = Len(m_authPending) + 1 /\ m_authPending' # << >>
        /\ (Len(m_authPending) = 0 <=> m_authPending = << >>) /\ Len(m_authPending) \in Nat
    <3> DEFINE q == [client |-> c, info |-> about[c], seqNr |-> s_seqNr[c],
                     errorMsg |-> errorMsg, prompt |-> prompt]
    <3>1. q \in Query /\ m_authPending \in Seq(Query)
      BY DEF TypeOK, Query
    <3> HIDE DEF q
    <3> QED
      BY <2>1, <3>1, AppendProperties, EmptySeq DEF q
  <2> QED
    BY <2>2, <1>0, <1>2 DEF queryAuthInfo, OneAtATime
<1>3. ASSUME NEW c \in Client, addAuthInfo(c) PROVE OneAtATime'
  BY <1>3 DEF addAuthInfo, OneAtATime
<1>4. ASSUME NEW c \in Client, SwitchHost(c) PROVE OneAtATime'
  BY <1>4 DEF SwitchHost, server, OneAtATime
<1>5. CASE Retry
  BY <1>0, <1>5, FinishKeepsOne DEF Retry, Begin
<1>6. CASE Ask
  <2>1. m_authPending # << >> /\ timers - 1 = 0
    BY <1>0, <1>6 DEF Ask, Begin
  <2>2. CASE Canceled(timers - 1)
    BY <2>1, <2>2, FinishKeepsOne DEF Canceled, FinishWith
  <2>3. CASE /\ dialog' \in {"retry", "password"} /\ timers' = timers - 1
             /\ UNCHANGED m_authPending
    BY <2>1, <2>3 DEF OneAtATime
  <2> QED
    BY <2>2, <2>3, <1>6 DEF Ask
<1>8. CASE RetryClosed
  <2>1. m_authPending # << >> /\ timers = 0
    BY <1>0, <1>8 DEF RetryClosed
  <2> QED
    BY <2>1, <1>8, FinishKeepsOne DEF RetryClosed, Canceled, FinishWith, OneAtATime
<1>9. CASE PasswordClosed
  <2>1. m_authPending # << >> /\ timers = 0
    BY <1>0, <1>9 DEF PasswordClosed
  <2> QED
    BY <2>1, <1>9, FinishKeepsOne DEF PasswordClosed, Canceled, FinishWith
<1>10. CASE Expire
  BY <1>10 DEF Expire, OneAtATime
<1>11. ASSUME NEW w \in Window, CloseWindow(w) PROVE OneAtATime'
  BY <1>11 DEF CloseWindow, OneAtATime
<1>12. CASE UNCHANGED vars
  BY <1>12 DEF vars, server, OneAtATime
<1> QED
  BY <1>1, <1>2, <1>3, <1>4, <1>5, <1>6, <1>8, <1>9, <1>10, <1>11, <1>12
     DEF Next, Slave, Serve, UserAnswers

LEMMA TypeStep == TypeOK /\ OneAtATime /\ [Next]_vars => TypeOK'
<1> SUFFICES ASSUME TypeOK, OneAtATime, [Next]_vars PROVE TypeOK'
  OBVIOUS
<1>0. m_authDict \in Cache /\ mWindowIdList \in Changed
  BY DEF TypeOK, Cache, Changed
<1>1. ASSUME NEW c \in Client, checkAuthInfo(c) PROVE TypeOK'
  <2>1. PICK info \in Info : checkAuthInfo(c)!2!(info)
    BY <1>1 DEF checkAuthInfo
  <2> DEFINE q == [client |-> c, info |-> info]
             result == findAuthInfoItem(m_authDict, info)
             win == [x \in {q} |-> windowOf[c]]
  <2>2. info \in InfoType /\ q \in Check
    BY InfoAssumption DEF Check
  <2>3. CASE \E j \in DOMAIN m_authPending : Covers(m_authPending[j], info, info.verifyPath)
    <3>1. /\ m_authWait' = m_authWait \union {q} /\ state' = [state EXCEPT ![c] = "checking"]
          /\ about' = [about EXCEPT ![c] = info] /\ UNCHANGED <<m_authDict, mWindowIdList, told>>
      BY <2>1, <2>3
    <3> QED
      BY <3>1, <2>2, <1>1 DEF checkAuthInfo, TypeOK
  <2>4. CASE ~\E j \in DOMAIN m_authPending : Covers(m_authPending[j], info, info.verifyPath)
    <3>1. /\ m_authDict' = Used(m_authDict, {q}, win)
          /\ mWindowIdList' = UsedFor(mWindowIdList, m_authDict, {q}, win)
          /\ state' = [state EXCEPT ![c] = "answered"]
          /\ about' = [about EXCEPT ![c] = [info EXCEPT !.user = UserFrom(result, @)]]
          /\ told' = [told EXCEPT ![c] = SeqNrOf(result)] /\ UNCHANGED m_authWait
      BY <2>1, <2>4
    <3>2. win \in [{q} -> Windows]
      BY WindowAssumption DEF Windows
    <3>3. result \in Item \union {None}
      BY <1>0, <2>2, ItemsOfCache
    <3> HIDE DEF q, win, result
    <3>4. m_authDict' \in Cache /\ mWindowIdList' \in Changed
      BY <1>0, <3>1, <3>2, UsedIsCache
    <3>5. [info EXCEPT !.user = UserFrom(result, @)] \in InfoType /\ SeqNrOf(result) \in Nat
      BY <2>2, <3>3 DEF UserFrom, SeqNrOf, InfoType, Item
    <3> QED
      BY <3>1, <3>4, <3>5, <1>1 DEF checkAuthInfo, TypeOK, Cache, Changed
  <2> QED
    BY <2>3, <2>4
<1>2. ASSUME NEW c \in Client, queryAuthInfo(c) PROVE TypeOK'
  <2>1. PICK errorMsg \in BOOLEAN, prompt \in BOOLEAN :
          m_authPending' = Append(m_authPending,
            [client |-> c, info |-> about[c], seqNr |-> s_seqNr[c],
             errorMsg |-> errorMsg, prompt |-> prompt])
    BY <1>2 DEF queryAuthInfo
  <2>2. m_authPending' \in Seq(Query)
    BY <2>1 DEF TypeOK, Query
  <2>3. timers' \in Nat
    BY <1>2 DEF queryAuthInfo, TypeOK
  <2> QED
    BY <2>2, <2>3, <1>2 DEF queryAuthInfo, TypeOK
<1>3. ASSUME NEW c \in Client, addAuthInfo(c) PROVE TypeOK'
  <2>1. PICK u \in User, keep \in BOOLEAN :
          m_authDict' = Added(m_authDict, [about[c] EXCEPT !.user = u], windowOf[c], m_seqNr',
                              FALSE, keep)
    BY <1>3 DEF addAuthInfo
  <2>2. about[c].key \in Key /\ [about[c] EXCEPT !.user = u] \in InfoType /\ windowOf[c] \in Windows
    BY WindowAssumption DEF TypeOK, InfoType, Windows
  <2>3. m_seqNr' \in Nat
    BY <1>3 DEF addAuthInfo, TypeOK
  <2>4. m_authDict' \in Cache
    BY <1>0, <2>1, <2>2, <2>3, AddedIsCache
  <2>5. mWindowIdList' \in Changed
    BY <1>0, <1>3, <2>2, ChangedIsTyped DEF addAuthInfo
  <2> QED
    BY <2>3, <2>4, <2>5, <1>3 DEF addAuthInfo, TypeOK, Cache, Changed
<1>4. ASSUME NEW c \in Client, SwitchHost(c) PROVE TypeOK'
  BY <1>4 DEF SwitchHost, TypeOK, server
<1>5. CASE Retry
  <2>1. timers - 1 \in Nat /\ m_authPending # << >> /\ m_seqNr' \in Nat
    BY <1>5 DEF Retry, Begin, TypeOK
  <2>2. head \in Query
    BY <2>1, HeadIsQuery
  <2> DEFINE q == [client |-> head.client, info |-> head.info]
             win == [x \in {q} |-> windowOf[head.client]]
  <2>3. win \in [{q} -> Windows]
    BY <2>2, WindowAssumption DEF Windows, Query
  <2>4. Cached \in Item \union {None}
    BY <1>0, <2>2, ItemsOfCache DEF Cached, Query
  <2>5. Finish(Used(m_authDict, {q}, win), UsedFor(mWindowIdList, m_authDict, {q}, win),
               Cached, timers - 1)
    BY <1>5 DEF Retry
  <2> HIDE DEF q, win
  <2>6. Used(m_authDict, {q}, win) \in Cache /\ UsedFor(mWindowIdList, m_authDict, {q}, win) \in Changed
    BY <1>0, <2>3, UsedIsCache
  <2> QED
    BY <2>1, <2>4, <2>5, <2>6, FinishIsTyped
<1>6. CASE Ask
  <2>1. timers - 1 \in Nat /\ m_authPending # << >> /\ m_seqNr' \in Nat
    BY <1>6 DEF Ask, Begin, TypeOK
  <2>2. head \in Query
    BY <2>1, HeadIsQuery
  <2>3. CASE Canceled(timers - 1)
    BY <2>1, <2>2, <2>3, FinishWithIsTyped DEF Canceled, Windows, Query
  <2>4. CASE /\ dialog' \in {"retry", "password"} /\ timers' = timers - 1
             /\ UNCHANGED <<m_authPending, m_authWait, m_authDict, mWindowIdList, openWindows, slaves>>
    BY <2>1, <2>4 DEF TypeOK, slaves
  <2> QED
    BY <2>3, <2>4, <1>6 DEF Ask
<1>8. CASE RetryClosed
  <2>1. m_authPending # << >> /\ m_seqNr' \in Nat /\ timers \in Nat
    BY <1>8 DEF RetryClosed, OneAtATime, TypeOK
  <2>2. head \in Query
    BY <2>1, HeadIsQuery
  <2>3. CASE Canceled(timers)
    BY <2>1, <2>2, <2>3, FinishWithIsTyped DEF Canceled, Windows, Query
  <2>4. CASE /\ dialog' = "password"
             /\ UNCHANGED <<m_authPending, m_authWait, m_authDict, mWindowIdList, timers,
                            openWindows, slaves>>
    BY <2>1, <2>4 DEF TypeOK, slaves
  <2> QED
    BY <2>3, <2>4, <1>8 DEF RetryClosed
<1>9. CASE PasswordClosed
  <2>1. m_authPending # << >> /\ m_seqNr' \in Nat /\ timers \in Nat
    BY <1>9 DEF PasswordClosed, OneAtATime, TypeOK
  <2>2. head \in Query
    BY <2>1, HeadIsQuery
  <2>3. CASE Canceled(timers)
    BY <2>1, <2>2, <2>3, FinishWithIsTyped DEF Canceled, Windows, Query
  <2>4. ASSUME NEW u \in User, NEW keep \in BOOLEAN,
               FinishWith([head.info EXCEPT !.user = u], windowOf[head.client], FALSE, keep, timers)
        PROVE  TypeOK'
    <3>1. [head.info EXCEPT !.user = u] \in InfoType /\ windowOf[head.client] \in Windows
      BY <2>2, WindowAssumption DEF Query, InfoType, Windows
    <3> QED
      BY <3>1, <2>1, <2>4, FinishWithIsTyped
  <2> QED
    BY <2>3, <2>4, <1>9 DEF PasswordClosed
<1>10. CASE Expire
  BY <1>10 DEF Expire, TypeOK, slaves
<1>11. ASSUME NEW w \in Window, CloseWindow(w) PROVE TypeOK'
  <2>1. \A item \in Item : Closed(item, w) \in Item
    BY DEF Closed, Item
  <2>2. m_authDict' \in [Key -> SUBSET Item]
    BY <1>11, <2>1 DEF CloseWindow, removeAuthForWindowId, TypeOK
  <2> QED
    BY <2>2, <1>11 DEF CloseWindow, TypeOK, slaves
<1>12. CASE UNCHANGED vars
  BY <1>12 DEF vars, server, slaves, TypeOK
<1> QED
  BY <1>1, <1>2, <1>3, <1>4, <1>5, <1>6, <1>8, <1>9, <1>10, <1>11, <1>12
     DEF Next, Slave, Serve, UserAnswers

LEMMA TypeAndOne == Spec => [](TypeOK /\ OneAtATime)
<1>1. Init => TypeOK /\ OneAtATime
  BY TypeInit DEF Init, OneAtATime
<1>2. TypeOK /\ OneAtATime /\ [Next]_vars => TypeOK' /\ OneAtATime'
  BY TypeStep, OneStep
<1> QED
  BY <1>1, <1>2, PTL DEF Spec

\* Every state the server and the slaves reach is of the declared types.
THEOREM KPasswdTypeCorrect == Spec => []TypeOK
  BY TypeAndOne, PTL

\* Each query is in processRequest() or has exactly one timer that will start it
\* (kpasswdserver.cpp:281 and 495).
THEOREM KPasswdOneAtATime == Spec => []OneAtATime
  BY TypeAndOne, PTL

-----------------------------------------------------------------------------
(* The queues and the calls of the slaves.                                 *)

\* Each query is the one of the call its slave is blocked in, and the other way
\* round.
QueriesAreCalls ==
  /\ \A j \in DOMAIN m_authPending : state[m_authPending[j].client] = "querying"
  /\ \A i, j \in DOMAIN m_authPending :
       m_authPending[i].client = m_authPending[j].client => i = j
  /\ \A c \in Client : state[c] = "querying" =>
       \E j \in DOMAIN m_authPending : m_authPending[j].client = c

\* The same of the checks that wait.
ChecksAreCalls ==
  /\ \A q \in m_authWait : state[q.client] = "checking"
  /\ \A q, r \in m_authWait : q.client = r.client => q = r
  /\ \A c \in Client : state[c] = "checking" => \E q \in m_authWait : q.client = c

\* What the end of processRequest() does to the queues and the slaves.
HeadAnswered ==
  \E verifyPath \in [m_authWait -> BOOLEAN] :
    LET done == Released(Tail(m_authPending), verifyPath)
    IN /\ m_authPending # << >> /\ m_authPending' = Tail(m_authPending)
       /\ m_authWait' = m_authWait \ done
       /\ state' = [c \in Client |->
                     IF c = head.client \/ (\E q \in done : q.client = c)
                       THEN "answered" ELSE state[c]]

LEMMA FinishAnswersHead ==
  ASSUME TypeOK, m_authPending # << >>, NEW dict, NEW list, NEW given, NEW left,
         Finish(dict, list, given, left)
  PROVE  HeadAnswered /\ UNCHANGED openWindows
<1>1. PICK verifyPath \in [m_authWait -> BOOLEAN], windowId \in [m_authWait -> Leftover] :
        Finish(dict, list, given, left)!(verifyPath, windowId)
  BY DEF Finish
<1> DEFINE done == Released(Tail(m_authPending), verifyPath)
           Answers(c) == {<<head.info, given>> : h \in {head.client} \intersect {c}}
             \union {<<q.info, findAuthInfoItem(dict, q.info)>> : q \in {q \in done : q.client = c}}
<1>2. \A c : Answers(c) = {} <=> ~(c = head.client \/ \E q \in done : q.client = c)
  OBVIOUS
<1>3. state' = [c \in Client |-> IF Answers(c) = {} THEN state[c] ELSE "answered"]
  BY <1>1
<1>4. m_authPending' = Tail(m_authPending) /\ m_authWait' = m_authWait \ done
      /\ openWindows' = openWindows
  BY <1>1 DEF StillWaiting
<1> HIDE DEF Answers
<1>5. state' = [c \in Client |->
                 IF c = head.client \/ (\E q \in done : q.client = c) THEN "answered" ELSE state[c]]
  BY <1>2, <1>3
<1> QED
  BY <1>4, <1>5 DEF HeadAnswered

LEMMA ServeStep ==
  ASSUME TypeOK, OneAtATime, Serve \/ UserAnswers
  PROVE  /\ UNCHANGED openWindows
         /\ HeadAnswered \/ UNCHANGED <<m_authPending, m_authWait, state>>
<1>0. m_authPending = << >> => dialog = "none"
  BY DEF OneAtATime, TypeOK
<1>1. CASE Retry
  BY <1>1, FinishAnswersHead DEF Retry, Begin
<1>2. CASE Ask
  BY <1>2, FinishAnswersHead DEF Ask, Begin, Canceled, FinishWith, slaves
<1>4. CASE RetryClosed
  BY <1>0, <1>4, FinishAnswersHead DEF RetryClosed, Canceled, FinishWith, slaves
<1>5. CASE PasswordClosed
  BY <1>0, <1>5, FinishAnswersHead DEF PasswordClosed, Canceled, FinishWith
<1> QED
  BY <1>1, <1>2, <1>4, <1>5 DEF Serve, UserAnswers

LEMMA TailAt ==
  ASSUME TypeOK, m_authPending # << >>
  PROVE  /\ head = m_authPending[1] /\ 1 \in DOMAIN m_authPending
         /\ \A j \in DOMAIN Tail(m_authPending) :
              j \in Nat /\ j + 1 \in DOMAIN m_authPending /\ j + 1 # 1
              /\ Tail(m_authPending)[j] = m_authPending[j + 1]
         /\ \A j \in DOMAIN m_authPending : j # 1 =>
              j - 1 \in DOMAIN Tail(m_authPending)
              /\ Tail(m_authPending)[j - 1] = m_authPending[j]
  BY HeadTailProperties DEF TypeOK, head

LEMMA QueryAppended ==
  ASSUME TypeOK, NEW c \in Client, queryAuthInfo(c)
  PROVE  /\ m_authPending' \in Seq(Query) /\ Len(m_authPending') = Len(m_authPending) + 1
         /\ m_authPending \in Seq(Query) /\ Len(m_authPending) \in Nat
         /\ m_authPending'[Len(m_authPending) + 1].client = c
         /\ \A j \in DOMAIN m_authPending : m_authPending'[j] = m_authPending[j]
         /\ DOMAIN m_authPending = 1 .. Len(m_authPending)
         /\ DOMAIN m_authPending' = 1 .. Len(m_authPending) + 1
<1>1. PICK errorMsg \in BOOLEAN, prompt \in BOOLEAN :
        m_authPending' = Append(m_authPending,
          [client |-> c, info |-> about[c], seqNr |-> s_seqNr[c],
           errorMsg |-> errorMsg, prompt |-> prompt])
  BY DEF queryAuthInfo
<1> DEFINE q == [client |-> c, info |-> about[c], seqNr |-> s_seqNr[c],
                 errorMsg |-> errorMsg, prompt |-> prompt]
<1>2. q \in Query /\ m_authPending \in Seq(Query) /\ q.client = c
  BY DEF TypeOK, Query
<1> HIDE DEF q
<1> QED
  BY <1>1, <1>2, AppendProperties DEF q

LEMMA ClientsAreTyped ==
  ASSUME TypeOK
  PROVE  /\ \A j \in DOMAIN m_authPending : m_authPending[j].client \in Client
         /\ \A q \in m_authWait : q.client \in Client
         /\ state \in [Client -> {"idle", "checking", "answered", "querying"}]
<1>1. m_authPending \in Seq(Query) /\ m_authWait \subseteq Check
  BY DEF TypeOK
<1>2. \A j \in DOMAIN m_authPending : m_authPending[j] \in Query
  BY <1>1, ElementOfSeq, LenProperties
<1> QED
  BY <1>1, <1>2 DEF Query, Check, TypeOK

LEMMA AnsweredKeepsCalls ==
  ASSUME TypeOK, QueriesAreCalls, ChecksAreCalls, HeadAnswered
  PROVE  QueriesAreCalls' /\ ChecksAreCalls'
<1>1. PICK verifyPath \in [m_authWait -> BOOLEAN] : HeadAnswered!(verifyPath)
  BY DEF HeadAnswered
<1> DEFINE done == Released(Tail(m_authPending), verifyPath)
<1>2. /\ m_authPending # << >> /\ m_authPending' = Tail(m_authPending)
      /\ m_authWait' = m_authWait \ done
      /\ state' = [c \in Client |->
                    IF c = head.client \/ (\E q \in done : q.client = c)
                      THEN "answered" ELSE state[c]]
  BY <1>1
<1>3. done \subseteq m_authWait /\ m_authWait \subseteq Check
  BY DEF Released, TypeOK
<1> HIDE DEF done
<1>4. /\ head = m_authPending[1] /\ 1 \in DOMAIN m_authPending
      /\ \A j \in DOMAIN m_authPending' :
           j \in Nat /\ j + 1 \in DOMAIN m_authPending /\ j + 1 # 1
           /\ m_authPending'[j] = m_authPending[j + 1]
      /\ \A j \in DOMAIN m_authPending : j # 1 =>
           j - 1 \in DOMAIN m_authPending' /\ m_authPending'[j - 1] = m_authPending[j]
  BY <1>2, TailAt
<1>5. \A j \in DOMAIN m_authPending : m_authPending[j].client \in Client
  BY ClientsAreTyped
<1>6. \A q \in m_authWait : q.client \in Client
  BY <1>3 DEF Check
<1>7. QueriesAreCalls'
  <2>1. ASSUME NEW j \in DOMAIN m_authPending'
        PROVE  state'[m_authPending'[j].client] = "querying"
    BY <1>2, <1>3, <1>4, <1>5 DEF QueriesAreCalls, ChecksAreCalls
  <2>2. ASSUME NEW i \in DOMAIN m_authPending', NEW j \in DOMAIN m_authPending',
               m_authPending'[i].client = m_authPending'[j].client
        PROVE  i = j
    <3>1. i + 1 = j + 1
      BY <2>2, <1>4 DEF QueriesAreCalls
    <3> QED
      BY <3>1, <1>4
  <2>3. ASSUME NEW c \in Client, state'[c] = "querying"
        PROVE  \E j \in DOMAIN m_authPending' : m_authPending'[j].client = c
    <3>1. state[c] = "querying" /\ c # head.client
      BY <2>3, <1>2
    <3> QED
      BY <3>1, <1>4 DEF QueriesAreCalls
  <2> QED
    BY <2>1, <2>2, <2>3 DEF QueriesAreCalls
<1>8. ChecksAreCalls'
  <2>1. ASSUME NEW q \in m_authWait' PROVE state'[q.client] = "checking"
    BY <1>2, <1>3, <1>4, <1>6 DEF QueriesAreCalls, ChecksAreCalls
  <2>2. ASSUME NEW q \in m_authWait', NEW r \in m_authWait', q.client = r.client PROVE q = r
    BY <1>2, <2>2 DEF ChecksAreCalls
  <2>3. ASSUME NEW c \in Client, state'[c] = "checking"
        PROVE  \E q \in m_authWait' : q.client = c
    BY <2>3, <1>2 DEF ChecksAreCalls
  <2> QED
    BY <2>1, <2>2, <2>3 DEF ChecksAreCalls
<1> QED
  BY <1>7, <1>8

LEMMA CallsStep ==
  TypeOK /\ OneAtATime /\ QueriesAreCalls /\ ChecksAreCalls /\ [Next]_vars
    => QueriesAreCalls' /\ ChecksAreCalls'
<1> SUFFICES ASSUME TypeOK, OneAtATime, QueriesAreCalls, ChecksAreCalls, [Next]_vars
             PROVE  QueriesAreCalls' /\ ChecksAreCalls'
  OBVIOUS
<1>0. /\ \A j \in DOMAIN m_authPending : m_authPending[j].client \in Client
      /\ \A q \in m_authWait : q.client \in Client
      /\ state \in [Client -> {"idle", "checking", "answered", "querying"}]
  BY ClientsAreTyped
<1>1. ASSUME NEW c \in Client, checkAuthInfo(c) PROVE QueriesAreCalls' /\ ChecksAreCalls'
  <2>1. state[c] \in {"idle", "answered"} /\ UNCHANGED m_authPending
    BY <1>1 DEF checkAuthInfo
  <2>2. PICK info \in Info :
          \/ /\ m_authWait' = m_authWait \union {[client |-> c, info |-> info]}
             /\ state' = [state EXCEPT ![c] = "checking"]
          \/ /\ state' = [state EXCEPT ![c] = "answered"]
             /\ UNCHANGED m_authWait
    BY <1>1 DEF checkAuthInfo
  <2>3. QueriesAreCalls'
    BY <1>0, <2>1, <2>2 DEF QueriesAreCalls
  <2> DEFINE new == [client |-> c, info |-> info]
  <2>4. ChecksAreCalls'
    <3>1. CASE /\ m_authWait' = m_authWait \union {new}
               /\ state' = [state EXCEPT ![c] = "checking"]
      <4>1. new.client = c /\ \A q \in m_authWait : q.client # c
        BY <2>1 DEF ChecksAreCalls
      <4> HIDE DEF new
      <4> QED
        BY <1>0, <3>1, <4>1 DEF ChecksAreCalls
    <3>2. CASE /\ state' = [state EXCEPT ![c] = "answered"]
               /\ UNCHANGED m_authWait
      BY <1>0, <2>1, <3>2 DEF ChecksAreCalls
    <3> QED
      BY <2>2, <3>1, <3>2
  <2> QED
    BY <2>3, <2>4
<1>2. ASSUME NEW c \in Client, queryAuthInfo(c) PROVE QueriesAreCalls' /\ ChecksAreCalls'
  <2>1. state[c] = "answered" /\ state' = [state EXCEPT ![c] = "querying"] /\ UNCHANGED m_authWait
    BY <1>2 DEF queryAuthInfo
  <2>2. ChecksAreCalls'
    BY <1>0, <2>1 DEF ChecksAreCalls
  <2> DEFINE n == Len(m_authPending)
  <2>3. /\ n \in Nat /\ m_authPending'[n + 1].client = c
        /\ DOMAIN m_authPending = 1 .. n /\ DOMAIN m_authPending' = 1 .. n + 1
        /\ \A j \in 1 .. n : m_authPending'[j] = m_authPending[j]
    BY <1>2, QueryAppended
  <2> HIDE DEF n
  <2>4. \A j \in 1 .. n : m_authPending'[j].client # c
    BY <1>0, <2>1, <2>3 DEF QueriesAreCalls
  <2>5. \A j \in 1 .. n + 1 : j = n + 1 \/ j \in 1 .. n
    BY <2>3
  <2>6. \A j \in DOMAIN m_authPending' : state'[m_authPending'[j].client] = "querying"
    BY <1>0, <2>1, <2>3, <2>4, <2>5 DEF QueriesAreCalls
  <2>7. \A i, j \in DOMAIN m_authPending' :
          m_authPending'[i].client = m_authPending'[j].client => i = j
    BY <2>3, <2>4, <2>5 DEF QueriesAreCalls
  <2>8. ASSUME NEW d \in Client, state'[d] = "querying"
        PROVE  \E j \in DOMAIN m_authPending' : m_authPending'[j].client = d
    <3>1. CASE d = c
      BY <3>1, <2>3
    <3>2. CASE d # c
      <4>1. PICK j \in 1 .. n : m_authPending[j].client = d
        BY <3>2, <2>1, <2>3, <2>8, <1>0 DEF QueriesAreCalls
      <4>2. j \in 1 .. n + 1 /\ m_authPending'[j].client = d
        BY <4>1, <2>3
      <4> QED
        BY <4>2, <2>3
    <3> QED
      BY <3>1, <3>2
  <2> QED
    BY <2>2, <2>6, <2>7, <2>8 DEF QueriesAreCalls
<1>3. ASSUME NEW c \in Client, addAuthInfo(c) \/ SwitchHost(c)
      PROVE  QueriesAreCalls' /\ ChecksAreCalls'
  <2>1. /\ state[c] = "answered" /\ state' = [state EXCEPT ![c] = "idle"]
        /\ UNCHANGED <<m_authPending, m_authWait>>
    BY <1>3 DEF addAuthInfo, SwitchHost, server
  <2> QED
    BY <1>0, <2>1 DEF QueriesAreCalls, ChecksAreCalls
<1>4. CASE Serve \/ UserAnswers
  <2>1. CASE HeadAnswered
    BY <2>1, AnsweredKeepsCalls
  <2>2. CASE UNCHANGED <<m_authPending, m_authWait, state>>
    BY <2>2 DEF QueriesAreCalls, ChecksAreCalls
  <2> QED
    BY <1>4, <2>1, <2>2, ServeStep
<1>5. CASE Expire \/ (\E w \in Window : CloseWindow(w)) \/ UNCHANGED vars
  BY <1>5 DEF Expire, CloseWindow, vars, server, slaves, QueriesAreCalls, ChecksAreCalls
<1> QED
  BY <1>1, <1>2, <1>3, <1>4, <1>5 DEF Next, Slave

LEMMA CallsMatch ==
  TypeOK /\ QueriesAreCalls /\ ChecksAreCalls => RequestsMatchCalls
<1> SUFFICES ASSUME TypeOK, QueriesAreCalls, ChecksAreCalls, NEW c \in Client
             PROVE  RequestsMatchCalls!(c)
  BY DEF RequestsMatchCalls
<1> DEFINE queries == {j \in DOMAIN m_authPending : m_authPending[j].client = c}
           checks == {q \in m_authWait : q.client = c}
<1>1. state[c] # "querying" => queries = {}
  BY DEF QueriesAreCalls
<1>2. state[c] # "checking" => checks = {}
  BY DEF ChecksAreCalls
<1>3. state[c] = "querying" => \E j \in queries : queries = {j}
  BY DEF QueriesAreCalls
<1>4. state[c] = "checking" => \E q \in checks : checks = {q}
  BY DEF ChecksAreCalls
<1> QED
  BY <1>1, <1>2, <1>3, <1>4

\* A slave blocked in a call has exactly the request of that call in the queues
\* (kpasswdserver.cpp:215, 270, 490 and 495).
THEOREM KPasswdRequestsMatchCalls == Spec => []RequestsMatchCalls
<1>1. Init => QueriesAreCalls /\ ChecksAreCalls
  BY DEF Init, QueriesAreCalls, ChecksAreCalls
<1>2. TypeOK /\ OneAtATime /\ QueriesAreCalls /\ ChecksAreCalls /\ [Next]_vars
        => QueriesAreCalls' /\ ChecksAreCalls'
  BY CallsStep
<1>3. TypeOK /\ QueriesAreCalls /\ ChecksAreCalls => RequestsMatchCalls
  BY CallsMatch
<1> QED
  BY <1>1, <1>2, <1>3, TypeAndOne, PTL DEF Spec

-----------------------------------------------------------------------------
(* The reason why checks wait.                                             *)

LEMMA ReasonStep ==
  TypeOK /\ OneAtATime /\ WaitersHaveReason /\ [Next]_vars => WaitersHaveReason'
<1> SUFFICES ASSUME TypeOK, OneAtATime, WaitersHaveReason, [Next]_vars
             PROVE  WaitersHaveReason'
  OBVIOUS
<1>1. ASSUME NEW c \in Client, checkAuthInfo(c) PROVE WaitersHaveReason'
  <2>1. UNCHANGED m_authPending
    BY <1>1 DEF checkAuthInfo
  <2>2. PICK info \in Info :
          \/ /\ \E j \in DOMAIN m_authPending : Covers(m_authPending[j], info, info.verifyPath)
             /\ m_authWait' = m_authWait \union {[client |-> c, info |-> info]}
          \/ UNCHANGED m_authWait
    BY <1>1 DEF checkAuthInfo
  <2> QED
    BY <2>1, <2>2 DEF WaitersHaveReason, Covers
<1>2. ASSUME NEW c \in Client, queryAuthInfo(c) PROVE WaitersHaveReason'
  <2>1. UNCHANGED m_authWait
    BY <1>2 DEF queryAuthInfo
  <2>2. \A j \in DOMAIN m_authPending :
          j \in DOMAIN m_authPending' /\ m_authPending'[j] = m_authPending[j]
    BY <1>2, QueryAppended
  <2> QED
    BY <2>1, <2>2 DEF WaitersHaveReason
<1>3. ASSUME NEW c \in Client, addAuthInfo(c) \/ SwitchHost(c) PROVE WaitersHaveReason'
  BY <1>3 DEF addAuthInfo, SwitchHost, server, WaitersHaveReason
<1>4. CASE Serve \/ UserAnswers
  <2>1. CASE HeadAnswered
    BY <2>1 DEF HeadAnswered, Released, Covers, WaitersHaveReason
  <2>2. CASE UNCHANGED <<m_authPending, m_authWait, state>>
    BY <2>2 DEF WaitersHaveReason
  <2> QED
    BY <1>4, <2>1, <2>2, ServeStep
<1>5. CASE Expire \/ (\E w \in Window : CloseWindow(w)) \/ UNCHANGED vars
  BY <1>5 DEF Expire, CloseWindow, vars, server, WaitersHaveReason
<1> QED
  BY <1>1, <1>2, <1>3, <1>4, <1>5 DEF Next, Slave

\* A check waits only for a pending query of its key, whatever the dangling
\* reference of kpasswdserver.cpp:451 reads.
THEOREM KPasswdWaitersHaveReason == Spec => []WaitersHaveReason
<1>1. Init => WaitersHaveReason
  BY DEF Init, WaitersHaveReason
<1>2. TypeOK /\ OneAtATime /\ WaitersHaveReason /\ [Next]_vars => WaitersHaveReason'
  BY ReasonStep
<1> QED
  BY <1>1, <1>2, TypeAndOne, PTL DEF Spec

-----------------------------------------------------------------------------
(* Passwords of windows.                                                   *)

\* An item kept for windows lists one at least, and each of them remembers the key, so
\* that closing it finds the item.
Kept(item, k, list) ==
  item.expire = "windowClose" =>
    item.windowList # {} /\ \A w \in item.windowList : k \in list[w]

\* An item that was not used for a window lists none.
Fresh(item) == item.expire = "time" => item.windowList = {}

GoodCache(dict, list) ==
  \A k \in Key : \A item \in dict[k] : Kept(item, k, list) /\ Fresh(item)

LEMMA ExpiryKept ==
  ASSUME NEW item \in Item, NEW k \in Key, NEW list \in Changed, NEW list2 \in Changed,
         NEW windows \in SUBSET Window, NEW keep \in BOOLEAN,
         Kept(item, k, list), Fresh(item),
         \A w \in Window : list[w] \subseteq list2[w], \A w \in windows : k \in list2[w]
  PROVE  LET e == Expiry(item, windows, keep) IN Kept(e, k, list2) /\ Fresh(e)
<1> DEFINE e == Expiry(item, windows, keep)
<1>0. item.windowList \subseteq Window /\ item.expire \in {"never", "windowClose", "time"}
  BY DEF Item
<1>1. CASE keep
  BY <1>1 DEF Expiry, Kept, Fresh, Item
<1>2. CASE ~keep /\ windows # {} /\ item.expire # "never"
  <2>1. e.expire = "windowClose" /\ e.windowList = item.windowList \union windows
    BY <1>2 DEF Expiry, Item
  <2> HIDE DEF e
  <2>2. item.windowList \subseteq Window /\ \A w \in item.windowList : k \in list2[w]
    BY <1>0, <1>2 DEF Kept, Fresh
  <2> QED
    BY <1>2, <2>1, <2>2 DEF Kept, Fresh, e
<1>3. CASE ~keep /\ (windows = {} \/ item.expire = "never")
  BY <1>0, <1>3 DEF Expiry, Kept, Fresh
<1> QED
  BY <1>1, <1>2, <1>3

LEMMA UsedKept ==
  ASSUME NEW dict \in Cache, NEW list \in Changed, NEW checks,
         NEW win, \A q \in checks : win[q] \in Windows, GoodCache(dict, list)
  PROVE  GoodCache(Used(dict, checks, win), UsedFor(list, dict, checks, win))
<1> DEFINE list2 == UsedFor(list, dict, checks, win)
<1>1. \A item, k : Users(dict, item, k, checks, win) \in SUBSET Window
  BY DEF Users, Windows
<1>2. list2 \in Changed /\ \A w \in Window : list[w] \subseteq list2[w]
  BY DEF UsedFor, Changed
<1>3. ASSUME NEW k \in Key, NEW item \in dict[k]
      PROVE  \A w \in Users(dict, item, k, checks, win) : k \in list2[w]
  BY <1>1 DEF UsedFor
<1>4. ASSUME NEW k \in Key, NEW item \in dict[k]
      PROVE  LET e == Expiry(item, Users(dict, item, k, checks, win), FALSE)
             IN Kept(e, k, list2) /\ Fresh(e)
  <2> DEFINE windows == Users(dict, item, k, checks, win)
  <2>1. item \in Item /\ Kept(item, k, list) /\ Fresh(item)
    BY DEF Cache, GoodCache
  <2>2. windows \in SUBSET Window /\ \A w \in windows : k \in list2[w]
    BY <1>1, <1>3
  <2> HIDE DEF windows, list2
  <2> QED
    BY <1>2, <2>1, <2>2, ExpiryKept DEF windows
<1> HIDE DEF list2
<1> QED
  BY <1>4 DEF GoodCache, Used, list2

LEMMA AddedKept ==
  ASSUME NEW dict \in Cache, NEW list \in Changed,
         NEW info \in InfoType, NEW window \in Windows, NEW n \in Nat,
         NEW canceled \in BOOLEAN, NEW keep \in BOOLEAN, GoodCache(dict, list)
  PROVE  GoodCache(Added(dict, info, window, n, canceled, keep),
                   ChangedFor(list, info.key, {window}))
<1> DEFINE same == {item \in dict[info.key] : item.realm = info.realm}
           old == IF same = {} THEN [expire |-> "time", windowList |-> {}]
                  ELSE LET item == CHOOSE item \in same : TRUE
                       IN [expire |-> item.expire, windowList |-> item.windowList]
           new == [realm |-> info.realm, dir |-> info.dir, user |-> info.user,
                   seqNr |-> n, isCanceled |-> canceled,
                   expire |-> old.expire, windowList |-> old.windowList]
           list2 == ChangedFor(list, info.key, {window})
           windows == {window} \ {NoWindow}
           e == Expiry(new, windows, keep /\ ~canceled)
<1>1. dict[info.key] \subseteq Item /\ info.key \in Key
  BY DEF Cache, InfoType
<1>2. old.expire \in {"never", "windowClose", "time"} /\ old.windowList \in SUBSET Window
  BY <1>1 DEF Item
<1>3. new \in Item
  BY <1>2 DEF Item, InfoType
<1>4. Kept(new, info.key, list) /\ Fresh(new)
  <2>1. CASE same = {}
    BY <2>1 DEF Kept, Fresh
  <2>2. CASE same # {}
    <3>1. PICK item \in same : old = [expire |-> item.expire, windowList |-> item.windowList]
      BY <2>2
    <3>2. Kept(item, info.key, list) /\ Fresh(item)
      BY <1>1 DEF GoodCache
    <3> QED
      BY <3>1, <3>2 DEF Kept, Fresh
  <2> QED
    BY <2>1, <2>2
<1>5. /\ list2 \in Changed /\ \A w \in Window : list[w] \subseteq list2[w]
      /\ windows \in SUBSET Window /\ \A w \in windows : info.key \in list2[w]
      /\ (keep /\ ~canceled) \in BOOLEAN
  BY <1>1 DEF ChangedFor, Changed, Windows
<1> HIDE DEF new, list2, windows
<1>6. Kept(e, info.key, list2) /\ Fresh(e)
  BY <1>1, <1>3, <1>4, <1>5, ExpiryKept
<1>7. Added(dict, info, window, n, canceled, keep) = [dict EXCEPT ![info.key] = (@ \ same) \union {e}]
  BY DEF Added, new, windows
<1> HIDE DEF e, same
<1>8. ASSUME NEW k \in Key, NEW item \in dict[k] PROVE Kept(item, k, list2) /\ Fresh(item)
  <2>1. Kept(item, k, list) /\ Fresh(item) /\ item.windowList \subseteq Window
    BY DEF GoodCache, Cache, Item
  <2> QED
    BY <2>1, <1>5 DEF Kept
<1>9. ASSUME NEW k \in Key, NEW item \in Added(dict, info, window, n, canceled, keep)[k]
      PROVE  Kept(item, k, list2) /\ Fresh(item)
  <2>1. item \in dict[k] \/ (k = info.key /\ item = e)
    BY <1>1, <1>7 DEF Cache
  <2> QED
    BY <2>1, <1>6, <1>8
<1> QED
  BY <1>9 DEF GoodCache, list2

KeptInv == GoodCache(m_authDict, mWindowIdList)

LEMMA FinishKept ==
  ASSUME TypeOK, NEW dict \in Cache, NEW list \in Changed, NEW given,
         NEW left, GoodCache(dict, list), Finish(dict, list, given, left)
  PROVE  KeptInv'
<1>1. PICK verifyPath \in [m_authWait -> BOOLEAN], windowId \in [m_authWait -> Leftover] :
        Finish(dict, list, given, left)!(verifyPath, windowId)
  BY DEF Finish
<1> DEFINE done == Released(Tail(m_authPending), verifyPath)
<1>2. /\ m_authDict' = Used(dict, done, windowId)
      /\ mWindowIdList' = UsedFor(list, dict, done, windowId)
  BY <1>1
<1>3. \A q \in done : windowId[q] \in Windows
  BY WindowAssumption DEF Released, Windows
<1> HIDE DEF done
<1>5. GoodCache(Used(dict, done, windowId), UsedFor(list, dict, done, windowId))
  BY <1>3, UsedKept
<1> QED
  BY <1>2, <1>5 DEF KeptInv

LEMMA FinishWithKept ==
  ASSUME TypeOK, KeptInv, NEW info \in InfoType,
         NEW window \in Windows, NEW canceled \in BOOLEAN,
         NEW keep \in BOOLEAN, NEW left, m_seqNr' \in Nat,
         FinishWith(info, window, canceled, keep, left)
  PROVE  KeptInv'
<1> DEFINE dict == Added(m_authDict, info, window, m_seqNr', canceled, keep)
           list == ChangedFor(mWindowIdList, info.key, {window})
           given == findAuthInfoItem(dict, [info EXCEPT !.verifyPath = FALSE])
<1>1. m_authDict \in Cache /\ mWindowIdList \in Changed
  BY DEF TypeOK, Cache, Changed
<1>2. window \in Windows /\ info.key \in Key
  BY <1>1 DEF Windows, InfoType
<1>3. dict \in Cache /\ list \in Changed
  BY <1>1, <1>2, AddedIsCache, ChangedIsTyped
<1>4. GoodCache(dict, list)
  BY <1>1, AddedKept DEF KeptInv
<1>5. Finish(dict, list, given, left)
  BY DEF FinishWith
<1> HIDE DEF dict, list, given
<1> QED
  BY <1>3, <1>4, <1>5, FinishKept

LEMMA CanceledKept ==
  ASSUME TypeOK, KeptInv, m_authPending # << >>, NEW left,
         m_seqNr' \in Nat, Canceled(left)
  PROVE  KeptInv'
  BY HeadIsQuery, FinishWithKept DEF Canceled, Query, Windows

LEMMA HeadWindow ==
  ASSUME TypeOK, m_authPending # << >>
  PROVE  head \in Query /\ windowOf[head.client] \in Windows
  BY HeadIsQuery, WindowAssumption DEF Query, Windows

LEMMA KeptStep ==
  ASSUME TypeOK, OneAtATime, KeptInv, Next
  PROVE  KeptInv'
<1>0. /\ m_authDict \in Cache /\ mWindowIdList \in Changed
      /\ m_seqNr \in Nat /\ (m_authPending = << >> => dialog = "none")
  BY DEF TypeOK, Cache, Changed, OneAtATime
<1>1. ASSUME NEW c \in Client, checkAuthInfo(c) PROVE KeptInv'
  <2>2. PICK info \in Info :
          LET q == [client |-> c, info |-> info]
              win == [x \in {q} |-> windowOf[c]]
          IN \/ UNCHANGED <<m_authDict, mWindowIdList>>
             \/ /\ m_authDict' = Used(m_authDict, {q}, win)
                /\ mWindowIdList' = UsedFor(mWindowIdList, m_authDict, {q}, win)
    BY <1>1 DEF checkAuthInfo
  <2> DEFINE q == [client |-> c, info |-> info]
             win == [x \in {q} |-> windowOf[c]]
  <2>3. \A x \in {q} : win[x] \in Windows
    BY WindowAssumption DEF Windows
  <2>4. \/ UNCHANGED <<m_authDict, mWindowIdList>>
        \/ /\ m_authDict' = Used(m_authDict, {q}, win)
           /\ mWindowIdList' = UsedFor(mWindowIdList, m_authDict, {q}, win)
    BY <2>2
  <2> HIDE DEF q, win
  <2>5. GoodCache(Used(m_authDict, {q}, win), UsedFor(mWindowIdList, m_authDict, {q}, win))
    BY <1>0, <2>3, UsedKept DEF KeptInv
  <2> QED
    BY <2>4, <2>5 DEF KeptInv
<1>2. ASSUME NEW c \in Client, queryAuthInfo(c) \/ SwitchHost(c) PROVE KeptInv'
  BY <1>2 DEF queryAuthInfo, SwitchHost, server, KeptInv
<1>3. ASSUME NEW c \in Client, addAuthInfo(c) PROVE KeptInv'
  <2>1. PICK u \in User, keep \in BOOLEAN :
          m_authDict' = Added(m_authDict, [about[c] EXCEPT !.user = u], windowOf[c], m_seqNr',
                              FALSE, keep)
    BY <1>3 DEF addAuthInfo
  <2> DEFINE info == [about[c] EXCEPT !.user = u]
  <2>2. info \in InfoType /\ info.key = about[c].key /\ m_seqNr' \in Nat
    <3>1. about[c] \in InfoType /\ m_seqNr' = m_seqNr + 1
      BY <1>3 DEF addAuthInfo, TypeOK
    <3> QED
      BY <1>0, <3>1 DEF InfoType
  <2>3. windowOf[c] \in Windows
        /\ mWindowIdList' = ChangedFor(mWindowIdList, info.key, {windowOf[c]})
    BY <2>2, <1>3, WindowAssumption DEF addAuthInfo, Windows
  <2> HIDE DEF info
  <2>4. GoodCache(Added(m_authDict, info, windowOf[c], m_seqNr', FALSE, keep),
                  ChangedFor(mWindowIdList, info.key, {windowOf[c]}))
    BY <1>0, <2>2, <2>3, AddedKept DEF KeptInv
  <2> QED
    BY <2>1, <2>3, <2>4 DEF KeptInv, info
<1>4. CASE Retry
  <2>1. m_authPending # << >>
    BY <1>4 DEF Retry, Begin
  <2> DEFINE q == [client |-> head.client, info |-> head.info]
             win == [x \in {q} |-> windowOf[head.client]]
             dict == Used(m_authDict, {q}, win)
             list == UsedFor(mWindowIdList, m_authDict, {q}, win)
  <2>2. head \in Query /\ \A x \in {q} : win[x] \in Windows
    BY <2>1, HeadWindow
  <2>3. win \in [{q} -> Windows]
    BY <2>2, WindowAssumption DEF Windows, Query
  <2>4. Finish(dict, list, Cached, timers - 1)
    BY <1>4 DEF Retry
  <2> HIDE DEF q, win
  <2>5. GoodCache(dict, list)
    BY <1>0, <2>2, UsedKept DEF KeptInv
  <2>6. dict \in Cache /\ list \in Changed
    BY <1>0, <2>3, UsedIsCache
  <2> HIDE DEF dict, list
  <2> QED
    BY <2>4, <2>5, <2>6, FinishKept
<1>5. CASE Ask
  <2>1. m_authPending # << >> /\ m_seqNr' \in Nat
    BY <1>0, <1>5 DEF Ask, Begin
  <2>2. Canceled(timers - 1) \/ UNCHANGED <<m_authDict, mWindowIdList>>
    BY <1>5 DEF Ask
  <2> QED
    BY <2>1, <2>2, CanceledKept DEF KeptInv
<1>7. CASE RetryClosed
  <2>1. m_authPending # << >> /\ m_seqNr' \in Nat
    BY <1>0, <1>7 DEF RetryClosed
  <2>2. Canceled(timers) \/ UNCHANGED <<m_authDict, mWindowIdList>>
    BY <1>7 DEF RetryClosed
  <2> QED
    BY <2>1, <2>2, CanceledKept DEF KeptInv
<1>8. CASE PasswordClosed
  <2>1. m_authPending # << >> /\ m_seqNr' \in Nat
    BY <1>0, <1>8 DEF PasswordClosed
  <2>2. ASSUME NEW u \in User, NEW keep \in BOOLEAN,
               FinishWith([head.info EXCEPT !.user = u], windowOf[head.client], FALSE, keep, timers)
        PROVE  KeptInv'
    <3>1. [head.info EXCEPT !.user = u] \in InfoType
          /\ windowOf[head.client] \in Windows
      BY <2>1, HeadWindow DEF Query, InfoType
    <3> QED
      BY <3>1, <2>1, <2>2, FinishWithKept
  <2> QED
    BY <2>1, <2>2, <1>8, CanceledKept DEF PasswordClosed
<1>9. CASE Expire
  <2>1. \A k \in Key : m_authDict'[k] \subseteq m_authDict[k]
    BY <1>0, <1>9 DEF Expire, Cache
  <2>2. UNCHANGED mWindowIdList
    BY <1>9 DEF Expire
  <2> QED
    BY <2>1, <2>2 DEF KeptInv, GoodCache
<1>10. ASSUME NEW w \in Window, CloseWindow(w) PROVE KeptInv'
  <2>1. /\ UNCHANGED mWindowIdList
        /\ m_authDict' = [k \in Key |->
             IF k \notin mWindowIdList[w] THEN m_authDict[k]
             ELSE {Closed(item, w) : item \in {i \in m_authDict[k] : Outlives(i, w)}}]
    BY <1>10 DEF CloseWindow, removeAuthForWindowId
  <2>2. ASSUME NEW k \in Key, NEW new \in m_authDict'[k]
        PROVE  Kept(new, k, mWindowIdList) /\ Fresh(new)
    <3>1. CASE k \notin mWindowIdList[w]
      <4>1. new \in m_authDict[k] /\ Kept(new, k, mWindowIdList) /\ Fresh(new)
        BY <2>1, <3>1 DEF KeptInv, GoodCache
      <4> QED
        BY <3>1, <4>1 DEF Kept
    <3>2. CASE k \in mWindowIdList[w]
      <4>1. PICK item \in m_authDict[k] : Outlives(item, w) /\ new = Closed(item, w)
        BY <2>1, <3>2
      <4>2. item \in Item /\ Kept(item, k, mWindowIdList) /\ Fresh(item)
        BY <1>0 DEF KeptInv, GoodCache, Cache
      <4>3. CASE item.expire = "windowClose"
        <5>1. new.expire = "windowClose" /\ new.windowList = item.windowList \ {w}
          BY <4>1, <4>2, <4>3 DEF Closed, Item
        <5>2. item.windowList # {w} /\ item.windowList # {}
          BY <4>1, <4>2, <4>3 DEF Outlives, Kept
        <5> QED
          BY <4>2, <4>3, <5>1, <5>2 DEF Kept, Fresh
      <4>4. CASE item.expire # "windowClose"
        BY <4>1, <4>2, <4>4 DEF Closed, Kept
      <4> QED
        BY <4>3, <4>4
    <3> QED
      BY <3>1, <3>2
  <2> QED
    BY <2>1, <2>2 DEF KeptInv, GoodCache
<1> QED
  BY <1>1, <1>2, <1>3, <1>4, <1>5, <1>7, <1>8, <1>9, <1>10 DEF Next, Slave, Serve, UserAnswers

\* A window is closed: every item that it keeps is of a key that it remembers.
LEMMA WindowForgotten ==
  ASSUME TypeOK, KeptInv, NEW w \in Window, CloseWindow(w), NEW k \in Key,
         NEW new \in m_authDict'[k], new.expire = "windowClose"
  PROVE  w \notin new.windowList /\ new.windowList # {}
<1>1. m_authDict' = [j \in Key |->
             IF j \notin mWindowIdList[w] THEN m_authDict[j]
             ELSE {Closed(item, w) : item \in {i \in m_authDict[j] : Outlives(i, w)}}]
  BY DEF CloseWindow, removeAuthForWindowId
<1>2. CASE k \notin mWindowIdList[w]
  BY <1>1, <1>2 DEF KeptInv, GoodCache, Kept
<1>3. CASE k \in mWindowIdList[w]
  <2>1. PICK item \in m_authDict[k] : Outlives(item, w) /\ new = Closed(item, w)
    BY <1>1, <1>3
  <2>2. item \in Item /\ Kept(item, k, mWindowIdList)
    BY DEF KeptInv, GoodCache, TypeOK
  <2>3. item.expire = "windowClose" /\ new.windowList = item.windowList \ {w}
    BY <2>1, <2>2 DEF Closed, Item
  <2> QED
    BY <2>1, <2>2, <2>3 DEF Outlives, Kept
<1> QED
  BY <1>2, <1>3

LEMMA OnlyCloseWindowCloses ==
  ASSUME TypeOK, OneAtATime, Next
  PROVE  openWindows' = openWindows
         \/ \E w \in Window : openWindows' = openWindows \ {w} /\ CloseWindow(w)
<1>1. ASSUME NEW c \in Client, Slave(c) PROVE openWindows' = openWindows
  BY <1>1 DEF Slave, checkAuthInfo, queryAuthInfo, addAuthInfo, SwitchHost
<1>2. CASE Serve \/ UserAnswers
  BY <1>2, ServeStep
<1>3. CASE Expire
  BY <1>3 DEF Expire
<1>4. ASSUME NEW w \in Window, CloseWindow(w) PROVE openWindows' = openWindows \ {w}
  BY <1>4 DEF CloseWindow
<1> QED
  BY <1>1, <1>2, <1>3, <1>4 DEF Next

\* When a window is closed, what was kept for it alone is gone and what was kept for
\* others too forgets it, however its slaves and its queries go on: a key under which
\* there is an item for a window is in that window's list (KeptInv), through checks that
\* are answered late, items that are replaced and windowIds that nobody set.
THEOREM KPasswdWindows == Spec => PasswordsGoWithWindows
<1> DEFINE Inv == TypeOK /\ OneAtATime /\ KeptInv
<1>1. Init => Inv
  <2>1. Init => KeptInv
    BY DEF Init, KeptInv, GoodCache
  <2>2. Init => OneAtATime
    BY DEF Init, OneAtATime
  <2> QED
    BY <2>1, <2>2, TypeInit
<1>2. Inv /\ [Next]_vars => Inv'
  <2>1. CASE Next
    BY <2>1, TypeStep, OneStep, KeptStep
  <2>2. CASE UNCHANGED vars
    <3>1. KeptInv' <=> KeptInv
      BY <2>2 DEF vars, server, KeptInv
    <3> QED
      BY <2>2, <3>1, TypeStep, OneStep
  <2> QED
    BY <2>1, <2>2
<1>3. Inv /\ [Next]_vars =>
        [\A w \in openWindows \ openWindows' :
           \A k \in Key : \A item \in m_authDict'[k] :
             item.expire = "windowClose" => w \notin item.windowList /\ item.windowList # {}]_vars
  <2> SUFFICES ASSUME Inv, Next, NEW w \in openWindows \ openWindows', NEW k \in Key,
                      NEW item \in m_authDict'[k], item.expire = "windowClose"
               PROVE  w \notin item.windowList /\ item.windowList # {}
    OBVIOUS
  <2>1. PICK v \in Window : openWindows' = openWindows \ {v} /\ CloseWindow(v)
    BY OnlyCloseWindowCloses
  <2>2. w = v
    BY <2>1
  <2> QED
    BY <2>1, <2>2, WindowForgotten
<1> QED
  BY <1>1, <1>2, <1>3, PTL DEF Spec, PasswordsGoWithWindows

-----------------------------------------------------------------------------
(* What slaves were told.  A slave's number (s_seqNr) tells the server how  *)
(* much of the cache it has seen; told is what it really saw.  The          *)
(* invariant NewsInv: of the items that would answer a slave, the ones it   *)
(* was not told of are newer than its number.  It rests on three facts:     *)
(* items of a key are known by their realm, so that a query has one answer  *)
(* at most; no item is newer than the server's number; and while a dialog   *)
(* is open that number is newer than every slave's, so that what the user   *)
(* enters is news to everybody.                                             *)

Unique(dict) == \A k \in Key : \A i, j \in dict[k] : i.realm = j.realm => i = j

Older(dict, n) == \A k \in Key : \A i \in dict[k] : i.seqNr <= n

NewsFor(dict, info, n, s) ==
  \A item \in dict[info.key] : Matches(item, info) => item.seqNr <= n \/ item.seqNr > s

\* The item j is i, for other windows perhaps; every item of dict2 comes from dict.
SameCore(i, j) ==
  i.realm = j.realm /\ i.dir = j.dir /\ i.user = j.user /\ i.seqNr = j.seqNr
Derived(dict2, dict) ==
  \A k \in Key : \A j \in dict2[k] : \E i \in dict[k] : SameCore(i, j)

LEMMA ExpiryKeepsCore ==
  ASSUME NEW item \in Item, NEW windows, NEW keep
  PROVE  SameCore(item, Expiry(item, windows, keep))
  BY DEF Expiry, Item, SameCore

LEMMA DerivedIsOlder ==
  ASSUME NEW dict, NEW dict2, NEW n, Older(dict, n), Derived(dict2, dict)
  PROVE  Older(dict2, n)
  BY DEF Older, Derived, SameCore

LEMMA DerivedNews ==
  ASSUME NEW dict, NEW dict2, NEW info \in InfoType, NEW n, NEW s,
         NewsFor(dict, info, n, s), Derived(dict2, dict)
  PROVE  NewsFor(dict2, info, n, s)
<1>1. info.key \in Key
  BY DEF InfoType
<1>2. ASSUME NEW j \in dict2[info.key], Matches(j, info)
      PROVE  j.seqNr <= n \/ j.seqNr > s
  <2>1. PICK i \in dict[info.key] : SameCore(i, j)
    BY <1>1 DEF Derived
  <2>2. Matches(i, info)
    BY <1>2, <2>1 DEF SameCore, Matches
  <2> QED
    BY <2>1, <2>2 DEF NewsFor, SameCore
<1> QED
  BY <1>2 DEF NewsFor

LEMMA UsedIsDerived ==
  ASSUME NEW dict \in Cache, NEW checks, NEW win, Unique(dict)
  PROVE  Unique(Used(dict, checks, win)) /\ Derived(Used(dict, checks, win), dict)
<1> DEFINE used == Used(dict, checks, win)
<1>1. ASSUME NEW k \in Key, NEW j \in used[k]
      PROVE  \E i \in dict[k] : /\ j = Expiry(i, Users(dict, i, k, checks, win), FALSE)
                                /\ SameCore(i, j)
  <2>1. PICK i \in dict[k] : j = Expiry(i, Users(dict, i, k, checks, win), FALSE)
    BY <1>1 DEF Used
  <2>2. i \in Item
    BY DEF Cache
  <2> QED
    BY <2>1, <2>2, ExpiryKeepsCore
<1> HIDE DEF used
<1>2. Derived(used, dict)
  BY <1>1 DEF Derived
<1>3. ASSUME NEW k \in Key, NEW j1 \in used[k], NEW j2 \in used[k], j1.realm = j2.realm
      PROVE  j1 = j2
  <2>1. PICK i1 \in dict[k] : /\ j1 = Expiry(i1, Users(dict, i1, k, checks, win), FALSE)
                              /\ SameCore(i1, j1)
    BY <1>1
  <2>2. PICK i2 \in dict[k] : /\ j2 = Expiry(i2, Users(dict, i2, k, checks, win), FALSE)
                              /\ SameCore(i2, j2)
    BY <1>1
  <2>3. i1 = i2
    BY <1>3, <2>1, <2>2 DEF Unique, SameCore
  <2> QED
    BY <2>1, <2>2, <2>3
<1> QED
  BY <1>2, <1>3 DEF Unique, used

\* Items are known by their realm: at most one answers.
LEMMA FoundIsOnly ==
  ASSUME NEW dict \in Cache, NEW info \in InfoType, ~info.verifyPath, Unique(dict),
         NEW item \in dict[info.key], Matches(item, info)
  PROVE  findAuthInfoItem(dict, info) = item
<1> DEFINE matching == {i \in dict[info.key] : Matches(i, info)}
           first == {i \in matching : \A other \in matching : Before(i, other)}
<1>1. info.key \in Key /\ dict[info.key] \subseteq Item
  BY DEF Cache, InfoType
<1>2. \A i \in matching : i = item
  BY <1>1 DEF Unique, Matches
<1>3. item \in matching
  OBVIOUS
<1>4. Before(item, item)
  BY <1>1, InfoAssumption DEF Before, Item
<1>5. first = {item}
  BY <1>2, <1>3, <1>4
<1>6. findAuthInfoItem(dict, info) = IF first = {} THEN None ELSE CHOOSE i \in first : TRUE
  BY DEF findAuthInfoItem
<1> HIDE DEF first, matching
<1> QED
  BY <1>5, <1>6

LEMMA FoundIsNews ==
  ASSUME NEW dict \in Cache, NEW info \in InfoType, ~info.verifyPath, Unique(dict),
         NEW item \in dict[info.key],
         Matches(item, [info EXCEPT !.user = UserFrom(findAuthInfoItem(dict, info), @)])
  PROVE  item.seqNr <= SeqNrOf(findAuthInfoItem(dict, info))
<1> DEFINE f == findAuthInfoItem(dict, info)
<1>1. info.key \in Key /\ dict[info.key] \subseteq Item
  BY DEF Cache, InfoType
<1>2. f = None \/ (f \in dict[info.key] /\ Matches(f, info))
  BY DEF findAuthInfoItem
<1> HIDE DEF f
<1>3. CASE f = None
  <2>1. [info EXCEPT !.user = UserFrom(f, @)] = info
    BY <1>3 DEF UserFrom, InfoType
  <2>2. f = item
    BY <2>1, FoundIsOnly DEF f
  <2> QED
    BY <1>1, <1>3, <2>2, NoneAssumption
<1>4. CASE f # None /\ f \in dict[info.key] /\ Matches(f, info)
  <2>1. f.realm = info.realm /\ item.realm = info.realm
    BY <1>4 DEF Matches, f, InfoType
  <2>2. f = item
    BY <1>1, <1>4, <2>1 DEF Unique
  <2>3. item.seqNr \in Nat
    BY <1>1 DEF Item
  <2> QED
    BY <1>4, <2>2, <2>3 DEF SeqNrOf, f
<1> QED
  BY <1>2, <1>3, <1>4

\* addAuthInfoItem() puts one item in place of that of the realm.
LEMMA AddedIsUnique ==
  ASSUME NEW dict \in Cache, NEW info \in InfoType, NEW window \in Windows, NEW n \in Nat,
         NEW canceled \in BOOLEAN, NEW keep \in BOOLEAN, Unique(dict)
  PROVE  LET dict2 == Added(dict, info, window, n, canceled, keep)
         IN /\ Unique(dict2)
            /\ \A k \in Key : \A i \in dict2[k] : i \in dict[k] \/ i.seqNr = n
            /\ \E i \in dict2[info.key] :
                 i.realm = info.realm /\ i.dir = info.dir /\ i.user = info.user /\ i.seqNr = n
<1> DEFINE same == {item \in dict[info.key] : item.realm = info.realm}
           old == IF same = {} THEN [expire |-> "time", windowList |-> {}]
                  ELSE LET item == CHOOSE item \in same : TRUE
                       IN [expire |-> item.expire, windowList |-> item.windowList]
           new == [realm |-> info.realm, dir |-> info.dir, user |-> info.user,
                   seqNr |-> n, isCanceled |-> canceled,
                   expire |-> old.expire, windowList |-> old.windowList]
           put == Expiry(new, {window} \ {NoWindow}, keep /\ ~canceled)
           dict2 == [dict EXCEPT ![info.key] = (@ \ same) \union {put}]
<1>1. dict[info.key] \subseteq Item /\ info.key \in Key
  BY DEF Cache, InfoType
<1>2. old.expire \in {"never", "windowClose", "time"} /\ old.windowList \in SUBSET Window
  BY <1>1 DEF Item
<1>3. new \in Item
  BY <1>2 DEF Item, InfoType
<1>4. new.realm = info.realm /\ new.dir = info.dir /\ new.user = info.user /\ new.seqNr = n
  OBVIOUS
<1> HIDE DEF new
<1>5. SameCore(new, put)
  BY <1>3, ExpiryKeepsCore
<1>6. put.realm = info.realm /\ put.dir = info.dir /\ put.user = info.user /\ put.seqNr = n
  BY <1>4, <1>5 DEF SameCore
<1>7. Added(dict, info, window, n, canceled, keep) = dict2
  BY DEF Added, new
<1> HIDE DEF put
<1>8. /\ dict2[info.key] = (dict[info.key] \ same) \union {put}
      /\ \A k \in Key : k # info.key => dict2[k] = dict[k]
  BY <1>1 DEF Cache
<1> HIDE DEF dict2
<1>9. Unique(dict2)
  <2>1. ASSUME NEW k \in Key, NEW i \in dict2[k], NEW j \in dict2[k], i.realm = j.realm
        PROVE  i = j
    <3>1. CASE k # info.key
      BY <1>8, <2>1, <3>1 DEF Unique
    <3>2. CASE k = info.key
      <4>1. \A x \in dict2[k] : x = put \/ (x \in dict[k] /\ x.realm # info.realm)
        BY <1>8, <3>2
      <4> QED
        BY <1>6, <2>1, <4>1 DEF Unique
    <3> QED
      BY <3>1, <3>2
  <2> QED
    BY <2>1 DEF Unique
<1>10. \A k \in Key : \A i \in dict2[k] : i \in dict[k] \/ i.seqNr = n
  BY <1>6, <1>8
<1> QED
  BY <1>6, <1>7, <1>8, <1>9, <1>10

NewsOf(dict, c) ==
  state[c] \in {"answered", "querying"} /\ ~about[c].verifyPath =>
    NewsFor(dict, about[c], told[c], s_seqNr[c])

\* A query carries what its slave was told about and what it knew.
QueriesCarry ==
  \A j \in DOMAIN m_authPending :
    LET q == m_authPending[j]
    IN q.seqNr = s_seqNr[q.client] /\ q.info = about[q.client] /\ ~q.info.verifyPath

\* While the user is asked the next number is newer than all that were given.
Numbered ==
  \A c \in Client : s_seqNr[c] <= m_seqNr /\ (dialog # "none" => s_seqNr[c] < m_seqNr)

NewsInv ==
  /\ Unique(m_authDict) /\ Older(m_authDict, m_seqNr)
  /\ \A c \in Client : NewsOf(m_authDict, c)
  /\ QueriesCarry /\ Numbered

\* An answer made from the item that was found.
AnswerIsNews(dict, info, result) ==
  \A item \in dict[info.key] :
    Matches(item, [info EXCEPT !.user = UserFrom(result, @)]) => item.seqNr <= SeqNrOf(result)

LEMMA AnswerNews ==
  ASSUME NEW dict \in Cache, NEW info \in InfoType, NEW result \in Item \union {None},
         AnswerIsNews(dict, info, result), NEW s
  PROVE  NewsFor(dict, [info EXCEPT !.user = UserFrom(result, @)], SeqNrOf(result), s)
<1> DEFINE info2 == [info EXCEPT !.user = UserFrom(result, @)]
<1>1. info2.key = info.key
  BY DEF InfoType
<1>2. \A item \in dict[info.key] : Matches(item, info2) => item.seqNr <= SeqNrOf(result)
  BY DEF AnswerIsNews
<1> HIDE DEF info2
<1>3. NewsFor(dict, info2, SeqNrOf(result), s)
  BY <1>1, <1>2 DEF NewsFor
<1> QED
  BY <1>3 DEF info2

LEMMA FoundAnswerIsNews ==
  ASSUME NEW dict \in Cache, NEW info \in InfoType, ~info.verifyPath, Unique(dict)
  PROVE  AnswerIsNews(dict, info, findAuthInfoItem(dict, info))
  BY FoundIsNews DEF AnswerIsNews

\* The end of processRequest().
LEMMA FinishKeepsNews ==
  ASSUME TypeOK, QueriesAreCalls, ChecksAreCalls, QueriesCarry,
         m_authPending # << >>, m_seqNr' \in Nat, m_seqNr' >= m_seqNr,
         \A c \in Client : s_seqNr[c] <= m_seqNr,
         NEW dict \in Cache, NEW list, NEW given \in Item \union {None}, NEW left,
         Unique(dict), Older(dict, m_seqNr'),
         \A c \in Client : NewsOf(dict, c),
         AnswerIsNews(dict, head.info, given),
         Finish(dict, list, given, left)
  PROVE  NewsInv'
<1>1. PICK verifyPath \in [m_authWait -> BOOLEAN], windowId \in [m_authWait -> Leftover] :
        Finish(dict, list, given, left)!(verifyPath, windowId)
  BY DEF Finish
<1> DEFINE pending == Tail(m_authPending)
           done == Released(pending, verifyPath)
           Answers(c) == {<<head.info, given>> : h \in {head.client} \intersect {c}}
             \union {<<q.info, findAuthInfoItem(dict, q.info)>> : q \in {q \in done : q.client = c}}
           Answer(c) == CHOOSE a \in Answers(c) : TRUE
<1>2. /\ m_authPending' = pending /\ dialog' = "none" /\ m_authDict' = Used(dict, done, windowId)
      /\ s_seqNr' = [s_seqNr EXCEPT ![head.client] = m_seqNr']
      /\ state' = [c \in Client |-> IF Answers(c) = {} THEN state[c] ELSE "answered"]
      /\ told' = [c \in Client |-> IF Answers(c) = {} THEN told[c] ELSE SeqNrOf(Answer(c)[2])]
      /\ about' = [c \in Client |-> IF Answers(c) = {} THEN about[c]
                     ELSE [Answer(c)[1] EXCEPT !.user = UserFrom(Answer(c)[2], @)]]
  BY <1>1
<1>3. Unique(m_authDict') /\ Derived(m_authDict', dict)
  BY <1>2, UsedIsDerived
<1>4. Older(m_authDict', m_seqNr')
  BY <1>3, DerivedIsOlder
<1>5. head \in Query /\ head = m_authPending[1] /\ 1 \in DOMAIN m_authPending
  BY HeadIsQuery, TailAt
<1>6. head.client \in Client /\ head.info \in InfoType /\ ~head.info.verifyPath
      /\ state[head.client] = "querying"
  BY <1>5 DEF Query, QueriesCarry, QueriesAreCalls
<1>7. done \subseteq m_authWait /\ m_authWait \subseteq Check
  BY DEF Released, TypeOK
<1>8. \A q \in m_authWait : q.info \in InfoType /\ q.client \in Client /\ state[q.client] = "checking"
  BY <1>7 DEF Check, ChecksAreCalls
<1> HIDE DEF done, pending
\* Each slave has one answer at most.
<1>9. Answers(head.client) = {<<head.info, given>>}
  <2>1. \A q \in done : q.client # head.client
    BY <1>6, <1>7, <1>8
  <2> QED
    BY <2>1
<1>10. ASSUME NEW q \in done
       PROVE  Answers(q.client) = {<<q.info, findAuthInfoItem(dict, q.info)>>}
  <2>1. q.client # head.client /\ \A r \in done : r.client = q.client => r = q
    BY <1>6, <1>7, <1>8 DEF ChecksAreCalls
  <2> QED
    BY <2>1
<1>11. ASSUME NEW c \in Client, c # head.client, \A q \in done : q.client # c
       PROVE  Answers(c) = {}
  BY <1>11
<1>12. ASSUME NEW c, NEW info, NEW result, Answers(c) = {<<info, result>>}
       PROVE  Answers(c) # {} /\ Answer(c)[1] = info /\ Answer(c)[2] = result
  <2>1. Answer(c) = <<info, result>>
    BY <1>12
  <2> QED
    BY <1>12, <2>1
<1> HIDE DEF Answers, Answer
<1>13. ASSUME NEW c \in Client, Answers(c) = {}
       PROVE  /\ state'[c] = state[c] /\ told'[c] = told[c] /\ about'[c] = about[c]
              /\ c # head.client /\ s_seqNr'[c] = s_seqNr[c]
  <2>1. c # head.client
    BY <1>9, <1>13
  <2>2. s_seqNr'[c] = s_seqNr[c]
    BY <1>2, <2>1 DEF TypeOK
  <2> QED
    BY <1>2, <1>13, <2>1, <2>2
<1>14. ASSUME NEW c \in Client, NEW info \in InfoType, NEW result \in Item \union {None},
              Answers(c) = {<<info, result>>}, ~info.verifyPath => AnswerIsNews(dict, info, result)
       PROVE  NewsOf(m_authDict, c)'
  <2>1. told'[c] = SeqNrOf(result) /\ about'[c] = [info EXCEPT !.user = UserFrom(result, @)]
    BY <1>2, <1>12, <1>14
  <2>2. about'[c].verifyPath = info.verifyPath /\ about'[c] \in InfoType
    BY <2>1 DEF InfoType, UserFrom, Item
  <2>3. ASSUME ~about'[c].verifyPath
        PROVE  NewsFor(m_authDict', about'[c], told'[c], s_seqNr'[c])
    <3>1. NewsFor(dict, about'[c], told'[c], s_seqNr'[c])
      BY <1>14, <2>1, <2>2, <2>3, AnswerNews
    <3> QED
      BY <1>3, <2>2, <3>1, DerivedNews
  <2> QED
    BY <2>3 DEF NewsOf
<1>15. ASSUME NEW c \in Client PROVE NewsOf(m_authDict, c)'
  <2>1. CASE c = head.client
    BY <1>6, <1>9, <1>14, <2>1
  <2>2. CASE \E q \in done : q.client = c
    <3>1. PICK q \in done : q.client = c
      BY <2>2
    <3>2. q.info \in InfoType
      BY <1>7, <1>8
    <3>3. findAuthInfoItem(dict, q.info) \in Item \union {None}
      BY <3>2, ItemsOfCache
    <3>4. ~q.info.verifyPath => AnswerIsNews(dict, q.info, findAuthInfoItem(dict, q.info))
      BY <3>2, FoundAnswerIsNews
    <3> QED
      BY <1>10, <1>14, <3>1, <3>2, <3>3, <3>4
  <2>3. CASE c # head.client /\ \A q \in done : q.client # c
    <3>1. Answers(c) = {}
      BY <1>11, <2>3
    <3>2. /\ state'[c] = state[c] /\ told'[c] = told[c] /\ about'[c] = about[c]
          /\ s_seqNr'[c] = s_seqNr[c]
      BY <1>13, <3>1
    <3>3. about[c] \in InfoType
      BY DEF TypeOK
    <3>4. ASSUME state[c] \in {"answered", "querying"}, ~about[c].verifyPath
          PROVE  NewsFor(m_authDict', about[c], told[c], s_seqNr[c])
      BY <1>3, <3>3, <3>4, DerivedNews DEF NewsOf
    <3> QED
      BY <3>2, <3>4 DEF NewsOf
  <2> QED
    BY <2>1, <2>2, <2>3
<1>16. QueriesCarry'
  <2>1. ASSUME NEW j \in DOMAIN m_authPending'
        PROVE  LET q == m_authPending'[j]
               IN q.seqNr = s_seqNr'[q.client] /\ q.info = about'[q.client] /\ ~q.info.verifyPath
    <3>1. /\ j + 1 \in DOMAIN m_authPending /\ j + 1 # 1
          /\ m_authPending'[j] = m_authPending[j + 1]
      BY <1>2, TailAt DEF pending
    <3> DEFINE q == m_authPending[j + 1]
    <3>2. q.client \in Client /\ state[q.client] = "querying" /\ q.client # head.client
      BY <1>5, <3>1, ClientsAreTyped DEF QueriesAreCalls
    <3>3. Answers(q.client) = {}
      <4>1. \A r \in done : r.client # q.client
        BY <1>7, <1>8, <3>2
      <4> QED
        BY <1>11, <3>2, <4>1
    <3>4. about'[q.client] = about[q.client] /\ s_seqNr'[q.client] = s_seqNr[q.client]
      BY <1>13, <3>2, <3>3
    <3>5. q.seqNr = s_seqNr[q.client] /\ q.info = about[q.client] /\ ~q.info.verifyPath
      BY <3>1 DEF QueriesCarry
    <3> QED
      BY <3>1, <3>4, <3>5
  <2> QED
    BY <2>1 DEF QueriesCarry
<1>17. Numbered'
  <2>1. ASSUME NEW c \in Client PROVE s_seqNr'[c] <= m_seqNr'
    <3>1. s_seqNr'[c] = IF c = head.client THEN m_seqNr' ELSE s_seqNr[c]
      BY <1>2, <1>6 DEF TypeOK
    <3>2. s_seqNr[c] \in Nat /\ m_seqNr \in Nat /\ s_seqNr[c] <= m_seqNr
      BY DEF TypeOK
    <3> QED
      BY <3>1, <3>2
  <2> QED
    BY <1>2, <2>1 DEF Numbered
<1> QED
  BY <1>3, <1>4, <1>15, <1>16, <1>17 DEF NewsInv

\* A new item is newer than what any slave knows.
LEMMA AddedKeepsNews ==
  ASSUME TypeOK, NEW info \in InfoType, NEW window \in Windows, NEW n \in Nat,
         NEW canceled \in BOOLEAN, NEW keep \in BOOLEAN,
         Unique(m_authDict), Older(m_authDict, m_seqNr), m_seqNr <= n
  PROVE  LET dict == Added(m_authDict, info, window, n, canceled, keep)
         IN /\ dict \in Cache /\ Unique(dict) /\ Older(dict, n)
            /\ \A c \in Client : NewsOf(m_authDict, c) /\ s_seqNr[c] < n => NewsOf(dict, c)
<1> DEFINE dict == Added(m_authDict, info, window, n, canceled, keep)
<1>1. m_authDict \in Cache
  BY DEF TypeOK, Cache
<1>2. dict \in Cache
  BY <1>1, AddedIsCache
<1>3. /\ Unique(dict)
      /\ \A k \in Key : \A i \in dict[k] : i \in m_authDict[k] \/ i.seqNr = n
  BY <1>1, AddedIsUnique
<1> HIDE DEF dict
<1>4. Older(dict, n)
  <2>1. ASSUME NEW k \in Key, NEW i \in dict[k] PROVE i.seqNr <= n
    <3>1. i.seqNr \in Nat
      BY <1>2, <2>1 DEF Cache, Item
    <3>2. i.seqNr = n \/ i.seqNr <= m_seqNr
      BY <1>3, <2>1 DEF Older
    <3> QED
      BY <3>1, <3>2 DEF TypeOK
  <2> QED
    BY <2>1 DEF Older
<1>5. ASSUME NEW c \in Client, NewsOf(m_authDict, c), s_seqNr[c] < n PROVE NewsOf(dict, c)
  <2>1. about[c].key \in Key
    BY DEF TypeOK, InfoType
  <2> QED
    BY <1>3, <1>5, <2>1 DEF NewsOf, NewsFor
<1> QED
  BY <1>2, <1>3, <1>4, <1>5 DEF dict

LEMMA FinishWithKeepsNews ==
  ASSUME TypeOK, QueriesAreCalls, ChecksAreCalls, NewsInv,
         m_authPending # << >>, m_seqNr' \in Nat, m_seqNr' >= m_seqNr,
         \A c \in Client : s_seqNr[c] < m_seqNr',
         NEW u \in User \union {NoUser}, NEW window \in Windows,
         NEW canceled \in BOOLEAN, NEW keep \in BOOLEAN, NEW left,
         FinishWith([head.info EXCEPT !.user = u], window, canceled, keep, left)
  PROVE  NewsInv'
<1> DEFINE info == [head.info EXCEPT !.user = u]
           dict == Added(m_authDict, info, window, m_seqNr', canceled, keep)
           list == ChangedFor(mWindowIdList, info.key, {window})
           given == findAuthInfoItem(dict, [info EXCEPT !.verifyPath = FALSE])
<1>1. head \in Query /\ head = m_authPending[1] /\ 1 \in DOMAIN m_authPending
  BY HeadIsQuery, TailAt
<1>2. head.info \in InfoType /\ ~head.info.verifyPath
  BY <1>1 DEF Query, NewsInv, QueriesCarry
<1>3. /\ info \in InfoType /\ ~info.verifyPath /\ info.user = u /\ info.key = head.info.key
      /\ [info EXCEPT !.verifyPath = FALSE] = info
  BY <1>2 DEF InfoType
<1>4. Finish(dict, list, given, left)
  BY DEF FinishWith
<1> HIDE DEF info
<1>5. /\ dict \in Cache /\ Unique(dict) /\ Older(dict, m_seqNr')
      /\ \A c \in Client : NewsOf(dict, c)
  BY <1>3, AddedKeepsNews DEF NewsInv
<1>6. PICK put \in dict[info.key] :
        put.realm = info.realm /\ put.dir = info.dir /\ put.user = info.user /\ put.seqNr = m_seqNr'
  <2>1. m_authDict \in Cache
    BY DEF TypeOK, Cache
  <2> QED
    BY <1>3, <2>1, AddedIsUnique DEF NewsInv
<1> HIDE DEF dict
<1>7. Matches(put, info)
  BY <1>3, <1>6 DEF Matches
<1>8. given = put
  BY <1>3, <1>5, <1>6, <1>7, FoundIsOnly
<1>9. put \in Item
  BY <1>3, <1>5, <1>6 DEF Cache, InfoType
<1>10. SeqNrOf(given) = m_seqNr'
  BY <1>6, <1>8, <1>9, NoneAssumption DEF SeqNrOf
<1>11. AnswerIsNews(dict, head.info, given)
  BY <1>3, <1>5, <1>10 DEF AnswerIsNews, Older, InfoType
<1>12. \A c \in Client : s_seqNr[c] <= m_seqNr
  BY DEF NewsInv, Numbered
<1> HIDE DEF given, list
<1> QED
  BY <1>4, <1>5, <1>8, <1>9, <1>11, <1>12, FinishKeepsNews DEF NewsInv

LEMMA CanceledKeepsNews ==
  ASSUME TypeOK, QueriesAreCalls, ChecksAreCalls, NewsInv,
         m_authPending # << >>, m_seqNr' \in Nat, m_seqNr' >= m_seqNr,
         \A c \in Client : s_seqNr[c] < m_seqNr', NEW left, Canceled(left)
  PROVE  NewsInv'
<1>1. head.info \in InfoType
  BY HeadIsQuery DEF Query
<1>2. head.info.user \in User \union {NoUser} /\ [head.info EXCEPT !.user = head.info.user] = head.info
  BY <1>1 DEF InfoType
<1>3. FinishWith([head.info EXCEPT !.user = head.info.user], NoWindow, TRUE, FALSE, left)
  BY <1>2 DEF Canceled
<1>4. NoWindow \in Windows
  BY DEF Windows
<1> QED
  BY <1>2, <1>3, <1>4, FinishWithKeepsNews

LEMMA RetryKeepsNews ==
  ASSUME TypeOK, QueriesAreCalls, ChecksAreCalls, NewsInv, Retry
  PROVE  NewsInv'
<1> DEFINE q == [client |-> head.client, info |-> head.info]
           win == [x \in {q} |-> windowOf[head.client]]
           dict == Used(m_authDict, {q}, win)
<1>0. m_authPending # << >> /\ m_seqNr' = m_seqNr /\ Cached # None
      /\ Finish(dict, UsedFor(mWindowIdList, m_authDict, {q}, win), Cached, timers - 1)
  BY DEF Retry, Begin, AutoRetry
<1>1. head \in Query /\ head = m_authPending[1] /\ 1 \in DOMAIN m_authPending
  BY <1>0, HeadIsQuery, TailAt
<1>2. head.info \in InfoType /\ ~head.info.verifyPath
  BY <1>1 DEF Query, NewsInv, QueriesCarry
<1>3. m_authDict \in Cache /\ mWindowIdList \in Changed
  BY DEF TypeOK, Cache, Changed
<1>4. win \in [{q} -> Windows]
  BY <1>0, HeadWindow
<1> HIDE DEF q, win
<1>5. dict \in Cache /\ Unique(dict) /\ Derived(dict, m_authDict)
  BY <1>3, <1>4, UsedIsCache, UsedIsDerived DEF NewsInv
<1>6. Older(dict, m_seqNr')
  BY <1>0, <1>5, DerivedIsOlder DEF NewsInv
<1> HIDE DEF dict
<1>7. ASSUME NEW c \in Client PROVE NewsOf(dict, c)
  <2>1. about[c] \in InfoType /\ NewsOf(m_authDict, c)
    BY DEF TypeOK, NewsInv
  <2> QED
    BY <1>5, <2>1, DerivedNews DEF NewsOf
<1>8. Cached \in Item \union {None}
  BY <1>2, <1>3, ItemsOfCache DEF Cached
<1>9. Cached \in m_authDict[head.info.key] /\ Cached.realm = head.info.realm
  BY <1>0, <1>2 DEF Cached, findAuthInfoItem, Matches
<1>10. AnswerIsNews(dict, head.info, Cached)
  <2>1. ASSUME NEW item \in dict[head.info.key],
               Matches(item, [head.info EXCEPT !.user = UserFrom(Cached, @)])
        PROVE  item.seqNr <= SeqNrOf(Cached)
    <3>1. item.realm = head.info.realm
      BY <1>2, <2>1 DEF Matches, InfoType
    <3>2. head.info.key \in Key
      BY <1>2 DEF InfoType
    <3>3. PICK i \in m_authDict[head.info.key] : SameCore(i, item)
      BY <1>5, <3>2 DEF Derived
    <3>4. i = Cached
      BY <1>9, <3>1, <3>2, <3>3 DEF NewsInv, Unique, SameCore
    <3>5. Cached.seqNr \in Nat
      BY <1>0, <1>8 DEF Item
    <3> QED
      BY <1>0, <3>3, <3>4, <3>5 DEF SameCore, SeqNrOf
  <2> QED
    BY <2>1 DEF AnswerIsNews
<1>11. m_seqNr' \in Nat /\ m_seqNr' >= m_seqNr /\ \A c \in Client : s_seqNr[c] <= m_seqNr
  BY <1>0 DEF TypeOK, NewsInv, Numbered
<1> QED
  BY <1>0, <1>5, <1>6, <1>7, <1>8, <1>10, <1>11, FinishKeepsNews DEF NewsInv

LEMMA AskKeepsNews ==
  ASSUME TypeOK, QueriesAreCalls, ChecksAreCalls, NewsInv, Ask
  PROVE  NewsInv'
<1>1. m_seqNr \in Nat /\ m_seqNr' = m_seqNr + 1 /\ m_authPending # << >>
  BY DEF TypeOK, Ask, Begin
<1>2. \A c \in Client : s_seqNr[c] \in Nat /\ s_seqNr[c] <= m_seqNr
  BY DEF TypeOK, NewsInv, Numbered
<1>3. \A c \in Client : s_seqNr[c] < m_seqNr' /\ s_seqNr[c] <= m_seqNr'
  BY <1>1, <1>2
<1>4. CASE Canceled(timers - 1)
  BY <1>1, <1>3, <1>4, CanceledKeepsNews
<1>5. CASE UNCHANGED <<m_authPending, m_authWait, m_authDict, mWindowIdList, openWindows, slaves>>
  <2>1. Older(m_authDict, m_seqNr')
    <3>1. ASSUME NEW k \in Key, NEW i \in m_authDict[k] PROVE i.seqNr <= m_seqNr'
      <4>1. i.seqNr \in Nat /\ i.seqNr <= m_seqNr
        BY <3>1 DEF TypeOK, Item, NewsInv, Older
      <4> QED
        BY <1>1, <4>1
    <3> QED
      BY <3>1 DEF Older
  <2> QED
    BY <1>3, <1>5, <2>1 DEF NewsInv, NewsOf, QueriesCarry, Numbered, slaves
<1> QED
  BY <1>4, <1>5 DEF Ask

LEMMA ClosedKeepsNews ==
  ASSUME TypeOK, OneAtATime, QueriesAreCalls, ChecksAreCalls, NewsInv, RetryClosed \/ PasswordClosed
  PROVE  NewsInv'
<1>0. dialog # "none"
  BY DEF RetryClosed, PasswordClosed
<1>1. m_authPending # << >>
  BY <1>0 DEF OneAtATime, TypeOK
<1>2. m_seqNr' = m_seqNr /\ m_seqNr \in Nat /\ dialog # "none"
  BY DEF RetryClosed, PasswordClosed, TypeOK
<1>3. \A c \in Client : s_seqNr[c] < m_seqNr'
  BY <1>2 DEF NewsInv, Numbered
<1>4. m_seqNr' \in Nat /\ m_seqNr' >= m_seqNr
  BY <1>2
<1>5. CASE Canceled(timers)
  BY <1>1, <1>3, <1>4, <1>5, CanceledKeepsNews
<1>6. ASSUME NEW u \in User, NEW keep \in BOOLEAN,
             FinishWith([head.info EXCEPT !.user = u], windowOf[head.client], FALSE, keep, timers)
      PROVE  NewsInv'
  BY <1>1, <1>3, <1>4, <1>6, HeadWindow, FinishWithKeepsNews
<1>7. CASE UNCHANGED <<m_authPending, m_authWait, m_authDict, mWindowIdList, timers, openWindows, slaves>>
  BY <1>2, <1>7 DEF NewsInv, NewsOf, QueriesCarry, Numbered, slaves
<1> QED
  BY <1>5, <1>6, <1>7 DEF RetryClosed, PasswordClosed

LEMMA DerivedKeepsNews ==
  ASSUME TypeOK, NewsInv, NEW dict, Unique(dict), Derived(dict, m_authDict)
  PROVE  Older(dict, m_seqNr) /\ \A c \in Client : NewsOf(dict, c)
<1>1. Older(dict, m_seqNr)
  BY DerivedIsOlder DEF NewsInv
<1>2. ASSUME NEW c \in Client PROVE NewsOf(dict, c)
  <2>1. about[c] \in InfoType /\ NewsOf(m_authDict, c)
    BY DEF TypeOK, NewsInv
  <2> QED
    BY <2>1, DerivedNews DEF NewsOf
<1> QED
  BY <1>1, <1>2

LEMMA checkKeepsNews ==
  ASSUME TypeOK, QueriesAreCalls, NewsInv, NEW c \in Client, checkAuthInfo(c)
  PROVE  NewsInv'
<1>0. /\ state[c] \in {"idle", "answered"}
      /\ UNCHANGED <<m_authPending, m_seqNr, timers, dialog, openWindows, s_seqNr>>
      /\ state \in [Client -> {"idle", "checking", "answered", "querying"}]
      /\ about \in [Client -> InfoType] /\ told \in [Client -> Nat]
  BY DEF checkAuthInfo, TypeOK
<1>1. Numbered'
  BY <1>0 DEF NewsInv, Numbered
<1>2. ASSUME NEW j \in DOMAIN m_authPending
      PROVE  m_authPending[j].client \in Client /\ m_authPending[j].client # c
  BY <1>0, ClientsAreTyped DEF QueriesAreCalls
<1>3. (\A d \in Client : d # c => about'[d] = about[d]) => QueriesCarry'
  BY <1>0, <1>2 DEF NewsInv, QueriesCarry
<1>4. PICK info \in Info :
       LET q == [client |-> c, info |-> info]
           result == findAuthInfoItem(m_authDict, info)
           win == [x \in {q} |-> windowOf[c]]
       IN \/ /\ state' = [state EXCEPT ![c] = "checking"]
             /\ about' = [about EXCEPT ![c] = info]
             /\ UNCHANGED <<m_authDict, mWindowIdList, told>>
          \/ /\ m_authDict' = Used(m_authDict, {q}, win)
             /\ state' = [state EXCEPT ![c] = "answered"]
             /\ about' = [about EXCEPT ![c] = [info EXCEPT !.user = UserFrom(result, @)]]
             /\ told' = [told EXCEPT ![c] = SeqNrOf(result)]
  BY DEF checkAuthInfo
<1> DEFINE q == [client |-> c, info |-> info]
           result == findAuthInfoItem(m_authDict, info)
           win == [x \in {q} |-> windowOf[c]]
<1>5. info \in InfoType
  BY InfoAssumption
<1>6. CASE /\ state' = [state EXCEPT ![c] = "checking"]
           /\ about' = [about EXCEPT ![c] = info]
           /\ UNCHANGED <<m_authDict, mWindowIdList, told>>
  <2>1. \A d \in Client : d # c => about'[d] = about[d] /\ state'[d] = state[d]
    BY <1>0, <1>6
  <2>2. state'[c] = "checking"
    BY <1>0, <1>6
  <2>3. \A d \in Client : NewsOf(m_authDict, d)'
    BY <1>0, <1>6, <2>1, <2>2 DEF NewsInv, NewsOf
  <2> QED
    BY <1>0, <1>1, <1>3, <1>6, <2>1, <2>3 DEF NewsInv
<1>7. CASE /\ m_authDict' = Used(m_authDict, {q}, win)
           /\ state' = [state EXCEPT ![c] = "answered"]
           /\ about' = [about EXCEPT ![c] = [info EXCEPT !.user = UserFrom(result, @)]]
           /\ told' = [told EXCEPT ![c] = SeqNrOf(result)]
  <2>1. m_authDict \in Cache
    BY DEF TypeOK, Cache
  <2>2. Unique(m_authDict') /\ Derived(m_authDict', m_authDict)
    BY <1>7, <2>1, UsedIsDerived DEF NewsInv
  <2>3. Older(m_authDict', m_seqNr) /\ \A d \in Client : NewsOf(m_authDict', d)
    BY <2>2, DerivedKeepsNews
  <2>4. \A d \in Client : d # c => about'[d] = about[d] /\ state'[d] = state[d] /\ told'[d] = told[d]
    BY <1>0, <1>7
  <2>5. about'[c] = [info EXCEPT !.user = UserFrom(result, @)] /\ told'[c] = SeqNrOf(result)
    BY <1>0, <1>7
  <2>6. result \in Item \union {None}
    BY <1>5, <2>1, ItemsOfCache
  <2>7. about'[c].verifyPath = info.verifyPath /\ about'[c] \in InfoType
    BY <1>5, <2>5, <2>6 DEF InfoType, UserFrom, Item
  <2>8. ASSUME ~info.verifyPath PROVE NewsFor(m_authDict', about'[c], told'[c], s_seqNr[c])
    <3>1. AnswerIsNews(m_authDict, info, result)
      BY <1>5, <2>1, <2>8, FoundAnswerIsNews DEF NewsInv
    <3> HIDE DEF result
    <3>2. NewsFor(m_authDict, about'[c], told'[c], s_seqNr[c])
      BY <1>5, <2>1, <2>5, <2>6, <3>1, AnswerNews
    <3> QED
      BY <2>2, <2>7, <3>2, DerivedNews
  <2>9. ASSUME NEW d \in Client PROVE NewsOf(m_authDict, d)'
    <3>1. CASE d = c
      BY <1>0, <2>7, <2>8, <3>1 DEF NewsOf
    <3>2. CASE d # c
      BY <1>0, <2>3, <2>4, <3>2 DEF NewsOf
    <3> QED
      BY <3>1, <3>2
  <2> QED
    BY <1>0, <1>1, <1>3, <2>2, <2>3, <2>4, <2>9 DEF NewsInv
<1> QED
  BY <1>4, <1>6, <1>7

LEMMA queryKeepsNews ==
  ASSUME TypeOK, NewsInv, NEW c \in Client, queryAuthInfo(c)
  PROVE  NewsInv'
<1>0. /\ state[c] = "answered" /\ ~about[c].verifyPath
      /\ state' = [state EXCEPT ![c] = "querying"]
      /\ UNCHANGED <<m_authWait, m_authDict, mWindowIdList, m_seqNr, dialog, openWindows,
                     about, s_seqNr, told>>
  BY DEF queryAuthInfo
<1>1. PICK errorMsg \in BOOLEAN, prompt \in BOOLEAN :
        m_authPending' = Append(m_authPending,
          [client |-> c, info |-> about[c], seqNr |-> s_seqNr[c],
           errorMsg |-> errorMsg, prompt |-> prompt])
  BY DEF queryAuthInfo
<1> DEFINE q == [client |-> c, info |-> about[c], seqNr |-> s_seqNr[c],
                 errorMsg |-> errorMsg, prompt |-> prompt]
           n == Len(m_authPending)
<1>2. /\ q \in Query /\ m_authPending \in Seq(Query)
      /\ q.client = c /\ q.info = about[c] /\ q.seqNr = s_seqNr[c]
  BY DEF TypeOK, Query
<1> HIDE DEF q
<1>3. /\ n \in Nat /\ m_authPending'[n + 1] = q
      /\ DOMAIN m_authPending = 1 .. n /\ DOMAIN m_authPending' = 1 .. n + 1
      /\ \A j \in 1 .. n : m_authPending'[j] = m_authPending[j]
  BY <1>1, <1>2, AppendProperties DEF q
<1> HIDE DEF n
<1>4. QueriesCarry'
  <2>1. ASSUME NEW j \in 1 .. n + 1
        PROVE  LET x == m_authPending'[j]
               IN x.seqNr = s_seqNr'[x.client] /\ x.info = about'[x.client] /\ ~x.info.verifyPath
    <3>1. CASE j = n + 1
      BY <1>0, <1>2, <1>3, <3>1
    <3>2. CASE j \in 1 .. n
      BY <1>0, <1>3, <3>2 DEF NewsInv, QueriesCarry
    <3> QED
      BY <1>3, <3>1, <3>2
  <2> QED
    BY <1>3, <2>1 DEF QueriesCarry
<1>5. \A d \in Client : NewsOf(m_authDict, d)'
  BY <1>0 DEF NewsInv, NewsOf, TypeOK
<1> QED
  BY <1>0, <1>4, <1>5 DEF NewsInv, Numbered

LEMMA addKeepsNews ==
  ASSUME TypeOK, QueriesAreCalls, NewsInv, NEW c \in Client, addAuthInfo(c)
  PROVE  NewsInv'
<1>0. /\ state' = [state EXCEPT ![c] = "idle"] /\ m_seqNr' = m_seqNr + 1
      /\ UNCHANGED <<m_authPending, m_authWait, timers, dialog, openWindows, about, s_seqNr, told>>
      /\ state \in [Client -> {"idle", "checking", "answered", "querying"}]
  BY DEF addAuthInfo, TypeOK
<1>1. PICK u \in User, keep \in BOOLEAN :
        m_authDict' = Added(m_authDict, [about[c] EXCEPT !.user = u], windowOf[c], m_seqNr', FALSE, keep)
  BY DEF addAuthInfo
<1> DEFINE info == [about[c] EXCEPT !.user = u]
<1>2. info \in InfoType /\ windowOf[c] \in Windows /\ m_seqNr \in Nat
  BY WindowAssumption DEF TypeOK, InfoType, Windows
<1> HIDE DEF info
<1>3. m_seqNr' \in Nat /\ m_seqNr <= m_seqNr'
      /\ \A d \in Client : s_seqNr[d] < m_seqNr' /\ s_seqNr[d] <= m_seqNr'
  BY <1>0, <1>2 DEF TypeOK, NewsInv, Numbered
<1>4. /\ Unique(m_authDict') /\ Older(m_authDict', m_seqNr')
      /\ \A d \in Client : NewsOf(m_authDict, d) /\ s_seqNr[d] < m_seqNr' => NewsOf(m_authDict', d)
  BY <1>1, <1>2, <1>3, AddedKeepsNews DEF NewsInv, info
<1>5. \A d \in Client : NewsOf(m_authDict', d)
  BY <1>3, <1>4 DEF NewsInv
<1>6. \A d \in Client : state'[d] \in {"answered", "querying"} => state[d] \in {"answered", "querying"}
  BY <1>0
<1>7. \A d \in Client : NewsOf(m_authDict, d)'
  BY <1>0, <1>5, <1>6 DEF NewsOf
<1> QED
  BY <1>0, <1>3, <1>4, <1>7 DEF NewsInv, QueriesCarry, Numbered

LEMMA SwitchKeepsNews ==
  ASSUME TypeOK, QueriesAreCalls, NewsInv, NEW c \in Client, SwitchHost(c)
  PROVE  NewsInv'
<1>0. /\ state[c] = "answered"
      /\ state' = [state EXCEPT ![c] = "idle"] /\ s_seqNr' = [s_seqNr EXCEPT ![c] = 0]
      /\ UNCHANGED <<m_authPending, m_authDict, m_seqNr, dialog, about, told>>
      /\ state \in [Client -> {"idle", "checking", "answered", "querying"}]
      /\ s_seqNr \in [Client -> Nat] /\ m_seqNr \in Nat
  BY DEF SwitchHost, server, TypeOK
<1>1. \A d \in Client : d # c => s_seqNr'[d] = s_seqNr[d] /\ state'[d] = state[d]
  BY <1>0
<1>2. state'[c] = "idle" /\ s_seqNr'[c] = 0
  BY <1>0
<1>3. \A d \in Client : NewsOf(m_authDict, d)'
  BY <1>0, <1>1, <1>2 DEF NewsInv, NewsOf
<1>4. \A j \in DOMAIN m_authPending : m_authPending[j].client \in Client \ {c}
  BY <1>0, ClientsAreTyped DEF QueriesAreCalls
<1>5. QueriesCarry'
  BY <1>0, <1>1, <1>4 DEF NewsInv, QueriesCarry
<1>6. Numbered'
  <2>1. ASSUME NEW d \in Client
        PROVE  s_seqNr'[d] <= m_seqNr /\ (dialog # "none" => s_seqNr'[d] < m_seqNr)
    <3>1. /\ s_seqNr[d] \in Nat /\ s_seqNr[d] <= m_seqNr
          /\ (dialog # "none" => s_seqNr[d] < m_seqNr)
      BY <1>0 DEF NewsInv, Numbered
    <3> QED
      BY <1>0, <1>1, <1>2, <3>1
  <2> QED
    BY <1>0, <2>1 DEF Numbered
<1> QED
  BY <1>0, <1>3, <1>5, <1>6 DEF NewsInv

LEMMA ForgetKeepsNews ==
  ASSUME TypeOK, NewsInv, Expire \/ \E w \in Window : CloseWindow(w)
  PROVE  NewsInv'
<1>0. UNCHANGED <<m_authPending, m_seqNr, dialog, slaves>>
  BY DEF Expire, CloseWindow
<1>1. m_authDict \in Cache /\ Unique(m_authDict)
  BY DEF TypeOK, Cache, NewsInv
<1>2. CASE Expire
  <2>1. \A k \in Key : m_authDict'[k] \subseteq m_authDict[k]
    BY <1>1, <1>2 DEF Expire, Cache
  <2>2. Unique(m_authDict')
    BY <1>1, <2>1 DEF Unique
  <2>3. Derived(m_authDict', m_authDict)
    BY <2>1 DEF Derived, SameCore
  <2>4. Older(m_authDict', m_seqNr) /\ \A d \in Client : NewsOf(m_authDict', d)
    BY <2>2, <2>3, DerivedKeepsNews
  <2> QED
    BY <1>0, <2>2, <2>4 DEF NewsInv, NewsOf, QueriesCarry, Numbered, slaves
<1>3. ASSUME NEW w \in Window, CloseWindow(w) PROVE NewsInv'
  <2>1. ASSUME NEW k \in Key, NEW j \in m_authDict'[k]
        PROVE  \E i \in m_authDict[k] : (j = i \/ j = Closed(i, w)) /\ SameCore(i, j)
                                        /\ (k \in mWindowIdList[w] => j = Closed(i, w))
                                        /\ (k \notin mWindowIdList[w] => j = i)
    <3>1. m_authDict'[k] = IF k \notin mWindowIdList[w] THEN m_authDict[k]
                           ELSE {Closed(item, w) : item \in {i \in m_authDict[k] : Outlives(i, w)}}
      BY <1>3 DEF CloseWindow, removeAuthForWindowId
    <3>2. CASE k \notin mWindowIdList[w]
      BY <2>1, <3>1, <3>2 DEF SameCore
    <3>3. CASE k \in mWindowIdList[w]
      <4>1. PICK i \in m_authDict[k] : j = Closed(i, w)
        BY <2>1, <3>1, <3>3
      <4>2. i \in Item
        BY <1>1 DEF Cache
      <4>3. SameCore(i, j)
        BY <4>1, <4>2 DEF SameCore, Closed, Item
      <4> QED
        BY <3>3, <4>1, <4>3
    <3> QED
      BY <3>2, <3>3
  <2>2. Derived(m_authDict', m_authDict)
    BY <2>1 DEF Derived
  <2>3. Unique(m_authDict')
    <3>1. ASSUME NEW k \in Key, NEW j1 \in m_authDict'[k], NEW j2 \in m_authDict'[k],
                 j1.realm = j2.realm
          PROVE  j1 = j2
      <4>1. PICK i1 \in m_authDict[k] : SameCore(i1, j1)
              /\ (k \in mWindowIdList[w] => j1 = Closed(i1, w))
              /\ (k \notin mWindowIdList[w] => j1 = i1)
        BY <2>1
      <4>2. PICK i2 \in m_authDict[k] : SameCore(i2, j2)
              /\ (k \in mWindowIdList[w] => j2 = Closed(i2, w))
              /\ (k \notin mWindowIdList[w] => j2 = i2)
        BY <2>1
      <4>3. i1 = i2
        BY <1>1, <3>1, <4>1, <4>2 DEF Unique, SameCore
      <4> QED
        BY <4>1, <4>2, <4>3
    <3> QED
      BY <3>1 DEF Unique
  <2>4. Older(m_authDict', m_seqNr) /\ \A d \in Client : NewsOf(m_authDict', d)
    BY <2>2, <2>3, DerivedKeepsNews
  <2> QED
    BY <1>0, <2>3, <2>4 DEF NewsInv, NewsOf, QueriesCarry, Numbered, slaves
<1> QED
  BY <1>2, <1>3

LEMMA NewsStep ==
  TypeOK /\ OneAtATime /\ QueriesAreCalls /\ ChecksAreCalls /\ NewsInv /\ [Next]_vars => NewsInv'
<1> SUFFICES ASSUME TypeOK, OneAtATime, QueriesAreCalls, ChecksAreCalls, NewsInv, [Next]_vars
             PROVE  NewsInv'
  OBVIOUS
<1>1. CASE UNCHANGED vars
  BY <1>1 DEF vars, server, slaves, NewsInv, NewsOf, QueriesCarry, Numbered
<1>2. ASSUME NEW c \in Client, Slave(c) PROVE NewsInv'
  BY <1>2, checkKeepsNews, queryKeepsNews, addKeepsNews, SwitchKeepsNews DEF Slave
<1> QED
  BY <1>1, <1>2, RetryKeepsNews, AskKeepsNews, ClosedKeepsNews, ForgetKeepsNews
     DEF Next, Serve, UserAnswers

\* The user is asked only when the slave that asks was told of the newest credentials
\* the cache has for it, though items are added, changed and forgotten and other queries
\* are answered between its last answer and the moment its query is looked at
\* (kpasswdserver.cpp:325).
THEOREM KPasswdAskedOnlyForNews == Spec => AskedOnlyForNews
<1> DEFINE Inv == TypeOK /\ OneAtATime /\ QueriesAreCalls /\ ChecksAreCalls /\ NewsInv
<1>1. Init => Inv
  <2>1. Init => QueriesAreCalls /\ ChecksAreCalls /\ OneAtATime
    BY DEF Init, QueriesAreCalls, ChecksAreCalls, OneAtATime
  <2>2. Init => NewsInv
    BY DEF Init, NewsInv, Unique, Older, NewsOf, QueriesCarry, Numbered
  <2> QED
    BY <2>1, <2>2, TypeInit
<1>2. Inv /\ [Next]_vars => Inv'
  BY TypeStep, OneStep, CallsStep, NewsStep
<1>3. Inv /\ [Next]_vars =>
        [dialog = "none" /\ dialog' # "none" =>
           (Cached # None => told[head.client] >= Cached.seqNr)]_vars
  <2> SUFFICES ASSUME Inv, Next, dialog = "none", dialog' # "none", Cached # None
               PROVE  told[head.client] >= Cached.seqNr
    BY Zenon
  <2>1. Ask
    BY DEF Next, Slave, checkAuthInfo, queryAuthInfo, addAuthInfo, SwitchHost, server, Serve,
           UserAnswers, Retry, Finish, RetryClosed, PasswordClosed, Expire, CloseWindow
  <2>2. m_authPending # << >> /\ ~(head.seqNr < Cached.seqNr)
    BY <2>1 DEF Ask, Begin, AutoRetry
  <2>3. head \in Query /\ head = m_authPending[1] /\ 1 \in DOMAIN m_authPending
    BY <2>2, HeadIsQuery, TailAt
  <2> DEFINE c == head.client
  <2>4. /\ c \in Client /\ head.info \in InfoType /\ ~head.info.verifyPath
        /\ head.info = about[c] /\ head.seqNr = s_seqNr[c] /\ state[c] = "querying"
    BY <2>3 DEF Query, NewsInv, QueriesCarry, QueriesAreCalls
  <2>5. Cached \in m_authDict[head.info.key] /\ Matches(Cached, head.info)
    BY DEF Cached, findAuthInfoItem
  <2>6. Cached.seqNr \in Nat
    BY <2>4, <2>5 DEF TypeOK, Item, InfoType
  <2>7. Cached.seqNr <= told[c] \/ Cached.seqNr > s_seqNr[c]
    <3>1. NewsFor(m_authDict, about[c], told[c], s_seqNr[c])
      BY <2>4 DEF NewsInv, NewsOf
    <3> QED
      BY <2>4, <2>5, <3>1 DEF NewsFor
  <2>8. told[c] \in Nat /\ s_seqNr[c] \in Nat
    BY <2>4 DEF TypeOK
  <2> QED
    BY <2>2, <2>4, <2>6, <2>7, <2>8
<1> QED
  BY <1>1, <1>2, <1>3, PTL DEF Spec, AskedOnlyForNews
=============================================================================
