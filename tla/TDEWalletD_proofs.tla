-------------------------- MODULE TDEWalletD_proofs --------------------------
(* Proofs about the open wallets of the wallet daemon, for any clients,     *)
(* wallets, settings and number of requests.                                *)
EXTENDS TDEWalletD, SequenceTheorems, FiniteSetTheorems, TLAPS

-----------------------------------------------------------------------------
(* Type correctness.  A dialog of processTransactions() is about the first  *)
(* request, so that there is one when it is answered.                       *)

Held == [App -> [Handle -> Nat]]

WalletsTyped ==
  /\ open \in [Handle -> Wallet \union {None}] /\ refs \in [Handle -> Int]
  /\ tried \subseteq Handle /\ handles \in Held
  /\ timers \subseteq Handle

QueueTyped == transactions \in Seq(Transaction) /\ dialogs \in Seq(Dialog)

Shown ==
  /\ \A i, j \in DOMAIN dialogs :
       dialogs[i].for = "transaction" /\ dialogs[j].for = "transaction" => i = j
  /\ \A i \in DOMAIN dialogs : dialogs[i].for = "transaction" => transactions # << >>
  /\ \A i \in DOMAIN dialogs :
       dialogs[i].ask = "newPassword" => dialogs[i].for = "transaction" /\ dialogs[i].h # 0

\* A part of the dialogs that are shown, from the first on.
Part(below) ==
  /\ below \in Seq(Dialog) /\ Len(below) <= Len(dialogs)
  /\ \A i \in 1 .. Len(below) : below[i] = dialogs[i]

\* Who may answer: openPath(), or processTransactions() when it shows no other dialog.
Calls(for, below) ==
  \/ for = "openPath"
  \/ /\ for = "transaction" /\ transactions # << >>
     /\ \A i \in 1 .. Len(below) : dialogs[i].for # "transaction"

LEMMA DialogsArePart ==
  ASSUME TypeOK
  PROVE  Part(dialogs)
  BY DEF TypeOK, Part

LEMMA BelowIsPart ==
  ASSUME TypeOK, dialogs # << >>
  PROVE  /\ Part(Below) /\ Len(Below) = Len(dialogs) - 1
         /\ Top \in Dialog /\ Len(dialogs) \in DOMAIN dialogs
<1> DEFINE k == Len(dialogs) - 1
<1>1. dialogs \in Seq(Dialog) /\ Len(dialogs) \in Nat /\ Len(dialogs) >= 1 /\ k \in Nat
      /\ DOMAIN dialogs = 1 .. Len(dialogs)
  BY EmptySeq, LenProperties DEF TypeOK
<1>2. /\ \A i \in 1 .. k : dialogs[i] \in Dialog
      /\ Top \in Dialog
  BY <1>1, ElementOfSeq DEF Top
<1>3. /\ SubSeq(dialogs, 1, k) \in Seq(Dialog)
      /\ Len(SubSeq(dialogs, 1, k)) = IF 1 <= k THEN k - 1 + 1 ELSE 0
      /\ \A i \in 1 .. k - 1 + 1 : SubSeq(dialogs, 1, k)[i] = dialogs[1 + i - 1]
  BY <1>1, <1>2, SubSeqProperties
<1>4. Below = SubSeq(dialogs, 1, k)
  BY DEF Below
<1> HIDE DEF k
<1>5. \A i \in 1 .. k : 1 + i - 1 = i
  BY <1>1
<1>6. Below \in Seq(Dialog) /\ Len(Below) = k /\ \A i \in 1 .. k : Below[i] = dialogs[i]
  BY <1>1, <1>3, <1>4, <1>5
<1> QED
  BY <1>1, <1>2, <1>6 DEF Part, k

LEMMA TopCalls ==
  ASSUME TypeOK, Shown, dialogs # << >>
  PROVE  Calls(Top.for, Below)
<1>1. Top \in Dialog /\ Len(dialogs) \in DOMAIN dialogs /\ Len(Below) = Len(dialogs) - 1
  BY BelowIsPart
<1>2. Len(dialogs) \in Nat /\ DOMAIN dialogs = 1 .. Len(dialogs)
  BY DEF TypeOK
<1>3. CASE Top.for = "openPath"
  BY <1>3 DEF Calls
<1>4. CASE Top.for = "transaction"
  <2>1. transactions # << >>
    BY <1>1, <1>4 DEF Shown, Top
  <2>2. ASSUME NEW i \in 1 .. Len(Below), dialogs[i].for = "transaction" PROVE FALSE
    BY <1>1, <1>2, <1>4, <2>2 DEF Shown, Top
  <2> QED
    BY <1>4, <2>1, <2>2 DEF Calls
<1> QED
  BY <1>1, <1>3, <1>4 DEF Dialog

LEMMA RemoveIsTyped ==
  ASSUME TypeOK, NEW H \in SUBSET Handle, NEW hs \in Held, Remove(H, hs)
  PROVE  WalletsTyped'
  BY DEF TypeOK, Remove, WalletsTyped

LEMMA InvalidatedIsTyped ==
  ASSUME TypeOK, NEW H
  PROVE  Invalidated(H) \in Held
  BY DEF TypeOK, Invalidated, Held

LEMMA InsertIsTyped ==
  ASSUME TypeOK, NEW c \in Client, NEW w \in Wallet, Insert(NameOf[c], w)
  PROVE  /\ WalletsTyped' /\ passwords' \subseteq Wallet
         /\ given' \in 0 .. MaxRequests /\ given + 1 \in Handle
<1>1. NameOf[c] \in App
  BY ClientAssumption
<1>2. given + 1 \in Handle /\ given' = given + 1 /\ given' \in 0 .. MaxRequests
  BY BoundAssumption DEF TypeOK, Insert, Enter, Handle
<1> HIDE DEF Handle
<1>3. handles' \in Held
  BY <1>1, <1>2 DEF TypeOK, Insert, Held
<1>4. open' \in [Handle -> Wallet \union {None}] /\ refs' \in [Handle -> Int]
      /\ timers' \subseteq Handle /\ tried' \subseteq Handle /\ passwords' \subseteq Wallet
  BY <1>2 DEF TypeOK, Insert, Enter
<1> QED
  BY <1>2, <1>3, <1>4 DEF WalletsTyped

LEMMA AddReferenceIsTyped ==
  ASSUME TypeOK, NEW c \in Client, NEW h \in Handle, AddReference(NameOf[c], h)
  PROVE  /\ WalletsTyped' /\ passwords' \subseteq Wallet
         /\ given' \in 0 .. MaxRequests
<1>1. NameOf[c] \in App
  BY ClientAssumption
<1>2. handles' \in Held
  BY <1>1 DEF TypeOK, AddReference, Held
<1> QED
  BY <1>2 DEF TypeOK, AddReference, WalletsTyped

LEMMA FailingIsTyped ==
  ASSUME TypeOK, NEW x, NEW alike
  PROVE  Failing(x, alike) \in Seq(Transaction) /\ Len(Failing(x, alike)) = Len(transactions)
<1>1. transactions \in Seq(Transaction) /\ DOMAIN transactions = 1 .. Len(transactions)
      /\ Len(transactions) \in Nat
  BY DEF TypeOK
<1>2. ASSUME NEW i \in 1 .. Len(transactions) PROVE Failing(x, alike)[i] \in Transaction
  <2>1. transactions[i] \in Transaction
    BY <1>1, ElementOfSeq
  <2>2. [transactions[i] EXCEPT !.what = "openFail"] \in Transaction
    BY <2>1 DEF Transaction
  <2> QED
    BY <1>1, <2>1, <2>2 DEF Failing
<1>3. DOMAIN Failing(x, alike) = 1 .. Len(transactions)
      /\ Failing(x, alike) = [i \in 1 .. Len(transactions) |-> Failing(x, alike)[i]]
  BY <1>1 DEF Failing
<1>4. Failing(x, alike) \in [1 .. Len(transactions) -> Transaction]
  BY <1>2, <1>3
<1>5. Failing(x, alike) \in Seq(Transaction)
  BY <1>1, <1>4, SeqDef
<1> QED
  BY <1>1, <1>3, <1>5, LenProperties

LEMMA AppendDialog ==
  ASSUME TypeOK, Shown, NEW below, Part(below), NEW d \in Dialog, dialogs' = Append(below, d),
         Calls(d.for, below), transactions' = transactions,
         d.ask = "newPassword" => d.for = "transaction" /\ d.h # 0
  PROVE  QueueTyped' /\ Shown'
<1>1. /\ dialogs' \in Seq(Dialog) /\ Len(dialogs') = Len(below) + 1 /\ Len(below) \in Nat
      /\ dialogs'[Len(below) + 1] = d
      /\ \A i \in 1 .. Len(below) : dialogs'[i] = dialogs[i]
      /\ DOMAIN dialogs' = 1 .. Len(below) + 1
      /\ 1 .. Len(below) \subseteq DOMAIN dialogs
  BY AppendProperties DEF Part, TypeOK
<1>2. QueueTyped'
  BY <1>1 DEF TypeOK, QueueTyped
<1>3. ASSUME NEW i \in DOMAIN dialogs'
      PROVE  \/ i \in 1 .. Len(below) /\ i \in DOMAIN dialogs /\ dialogs'[i] = dialogs[i]
             \/ i = Len(below) + 1 /\ dialogs'[i] = d
  BY <1>1
<1>4. ASSUME NEW i \in DOMAIN dialogs', NEW j \in DOMAIN dialogs',
             dialogs'[i].for = "transaction", dialogs'[j].for = "transaction"
      PROVE  i = j
  BY <1>3, <1>4 DEF Shown, Calls
<1>5. ASSUME NEW i \in DOMAIN dialogs', dialogs'[i].for = "transaction" PROVE transactions # << >>
  BY <1>3, <1>5 DEF Shown, Calls
<1>6. ASSUME NEW i \in DOMAIN dialogs', dialogs'[i].ask = "newPassword"
      PROVE  dialogs'[i].for = "transaction" /\ dialogs'[i].h # 0
  BY <1>3, <1>6 DEF Shown
<1> QED
  BY <1>2, <1>4, <1>5, <1>6 DEF Shown

LEMMA PopDialogs ==
  ASSUME TypeOK, Shown, NEW below, Part(below), dialogs' = below, NEW for, Calls(for, below),
         transactions' \in Seq(Transaction), for = "openPath" => transactions' = transactions
  PROVE  QueueTyped' /\ Shown'
<1>1. \A i \in DOMAIN below : i \in DOMAIN dialogs /\ below[i] = dialogs[i] /\ i \in 1 .. Len(below)
  BY DEF Part, TypeOK
<1>2. CASE for = "openPath"
  BY <1>1, <1>2 DEF Shown, QueueTyped, Part
<1>3. CASE for # "openPath"
  <2>1. \A i \in DOMAIN below : below[i].for # "transaction"
    BY <1>1, <1>3 DEF Calls
  <2> QED
    BY <1>1, <2>1 DEF Shown, QueueTyped, Part
<1> QED
  BY <1>2, <1>3

LEMMA ReturnsIsTyped ==
  ASSUME TypeOK, Shown, NEW for \in {"transaction", "openPath"}, NEW c \in Client, NEW w \in Wallet,
         NEW h \in Handle \union {0}, NEW below, Part(below), Calls(for, below),
         Returns(for, c, w, h, below)
  PROVE  QueueTyped' /\ Shown'
<1>1. CASE for = "openPath"
  BY <1>1, PopDialogs DEF Returns, TypeOK
<1>2. CASE for = "transaction"
  <2> DEFINE x == Head(transactions)
             d == [for |-> for, ask |-> "newPassword", client |-> c, wallet |-> w, h |-> h,
                   reclose |-> TRUE]
  <2>1. transactions # << >>
    BY <1>2 DEF Calls
  <2>2. CASE x.what = "changePassword" /\ h # 0
    <3>1. d \in Dialog
      BY DEF Dialog
    <3>2. dialogs' = Append(below, d) /\ transactions' = transactions
      BY <1>2, <2>2 DEF Returns
    <3> QED
      BY <1>2, <2>2, <3>1, <3>2, AppendDialog
  <2>3. CASE ~(x.what = "changePassword" /\ h # 0)
    <3>1. /\ dialogs' = below
          /\ \E alike \in SUBSET DOMAIN transactions :
               transactions' = Tail(IF x.what = "open" /\ h = 0 THEN Failing(x, alike)
                                    ELSE transactions)
      BY <1>2, <2>3 DEF Returns
    <3>0. PICK alike \in SUBSET DOMAIN transactions :
          transactions' = Tail(IF x.what = "open" /\ h = 0 THEN Failing(x, alike)
                               ELSE transactions)
      BY <3>1
    <3>2. Failing(x, alike) \in Seq(Transaction) /\ Failing(x, alike) # << >>
      BY <2>1, FailingIsTyped, EmptySeq DEF TypeOK
    <3>3. transactions' \in Seq(Transaction)
      BY <2>1, <3>0, <3>2, HeadTailProperties DEF TypeOK
    <3> QED
      BY <1>2, <3>1, <3>3, PopDialogs
  <2> QED
    BY <2>2, <2>3
<1> QED
  BY <1>1, <1>2

LEMMA ShowsIsTyped ==
  ASSUME TypeOK, Shown, NEW for \in {"transaction", "openPath"},
         NEW ask \in {"password", "authorize", "newPassword"}, NEW c \in Client, NEW w \in Wallet,
         NEW h \in Handle \union {0}, Calls(for, dialogs),
         ask = "newPassword" => for = "transaction" /\ h # 0,
         Shows(for, ask, c, w, h)
  PROVE  QueueTyped' /\ Shown' /\ WalletsTyped' /\ passwords' \subseteq Wallet
         /\ given' \in 0 .. MaxRequests
<1> DEFINE d == [for |-> for, ask |-> ask, client |-> c, wallet |-> w, h |-> h, reclose |-> FALSE]
<1>1. d \in Dialog
  BY DEF Dialog
<1>2. dialogs' = Append(dialogs, d) /\ UNCHANGED <<walletVars, given, transactions>>
  BY DEF Shows
<1>3. QueueTyped' /\ Shown'
  BY <1>1, <1>2, DialogsArePart, AppendDialog
<1> QED
  BY <1>2, <1>3 DEF TypeOK, WalletsTyped, Held, walletVars

LEMMA internalOpenIsTyped ==
  ASSUME TypeOK, Shown, NEW for \in {"transaction", "openPath"}, NEW c \in Client, NEW w \in Wallet,
         Calls(for, dialogs), internalOpen(for, c, w)
  PROVE  QueueTyped' /\ Shown' /\ WalletsTyped' /\ passwords' \subseteq Wallet
         /\ given' \in 0 .. MaxRequests
<1>1. CASE Returns(for, c, w, 0, dialogs) /\ UNCHANGED <<walletVars, given>>
  <2>1. QueueTyped' /\ Shown'
    BY <1>1, DialogsArePart, ReturnsIsTyped
  <2> QED
    BY <1>1, <2>1 DEF TypeOK, WalletsTyped, Held, walletVars
<1>2. CASE \E h \in OpenAs(w) : AddReference(NameOf[c], h) /\ Returns(for, c, w, h, dialogs)
  BY <1>2, DialogsArePart, ReturnsIsTyped, AddReferenceIsTyped DEF OpenAs
<1>3. CASE \E h \in OpenAs(w) : Shows(for, "authorize", c, w, h)
  BY <1>3, ShowsIsTyped DEF OpenAs
<1>4. CASE Insert(NameOf[c], w) /\ Returns(for, c, w, given + 1, dialogs)
  BY <1>4, DialogsArePart, ReturnsIsTyped, InsertIsTyped
<1>5. CASE \E ask \in {"password", "authorize"} : Shows(for, ask, c, w, 0)
  BY <1>5, ShowsIsTyped
<1> QED
  BY <1>1, <1>2, <1>3, <1>4, <1>5 DEF internalOpen

LEMMA AnswerIsTyped ==
  ASSUME TypeOK, Shown, dialogs # << >>, NEW h \in Handle \union {0}, TopReturns(h)
  PROVE  QueueTyped' /\ Shown'
<1>1. Part(Below) /\ Top \in Dialog
  BY BelowIsPart
<1>2. Calls(Top.for, Below)
  BY TopCalls
<1>3. /\ Top.for \in {"transaction", "openPath"} /\ Top.client \in Client /\ Top.wallet \in Wallet
      /\ Returns(Top.for, Top.client, Top.wallet, h, Below)
  BY <1>1 DEF Dialog, TopReturns
<1> QED
  BY <1>1, <1>2, <1>3, ReturnsIsTyped

LEMMA ChangeEndsIsTyped ==
  ASSUME TypeOK, Shown, Answers("newPassword"), NEW reclose \in BOOLEAN,
         NEW known \in SUBSET Wallet, ChangeEnds(reclose, known)
  PROVE  QueueTyped' /\ Shown' /\ WalletsTyped' /\ passwords' \subseteq Wallet
<1>1. Part(Below) /\ Top \in Dialog /\ dialogs # << >> /\ Len(dialogs) \in DOMAIN dialogs
  BY BelowIsPart DEF Answers
<1>2. Top.for = "transaction" /\ Top.h \in Handle /\ Calls("transaction", Below)
  BY <1>1, TopCalls DEF Answers, Shown, Dialog, Top
<1>3. transactions' \in Seq(Transaction) /\ dialogs' = Below
  BY <1>2, HeadTailProperties DEF ChangeEnds, TypeOK, Calls
<1>4. QueueTyped' /\ Shown'
  BY <1>1, <1>2, <1>3, PopDialogs
<1>5. CASE Remove({Top.h}, Invalidated({Top.h})) /\ passwords' = known \ {Top.wallet}
  BY <1>2, <1>4, <1>5, RemoveIsTyped, InvalidatedIsTyped
<1>6. CASE UNCHANGED <<open, refs, tried, handles, timers>> /\ passwords' = known
  BY <1>4, <1>6 DEF WalletsTyped, Held, TypeOK
<1> QED
  BY <1>5, <1>6 DEF ChangeEnds

LEMMA closeWalletIsTyped ==
  ASSUME TypeOK, NEW H \in SUBSET Handle, closeWallet(H)
  PROVE  WalletsTyped' /\ passwords' \subseteq Wallet
  BY RemoveIsTyped, InvalidatedIsTyped DEF closeWallet, Shut, TypeOK

LEMMA SameQueue ==
  ASSUME TypeOK, Shown, UNCHANGED <<transactions, dialogs>>
  PROVE  QueueTyped' /\ Shown'
  BY DEF TypeOK, Shown, QueueTyped

\* What a request leaves when the queue and the rest are typed.
LEMMA TypeOKFrom ==
  ASSUME TypeOK, WalletsTyped', passwords' \subseteq Wallet, QueueTyped',
         running' \subseteq Client, config' \in [enabled : BOOLEAN, closeIdle : BOOLEAN],
         asked' \in 0 .. MaxRequests, given' \in 0 .. MaxRequests,
         timer' \in BOOLEAN, processing' \in BOOLEAN, crashed' \in BOOLEAN
  PROVE  TypeOK'
  BY DEF TypeOK, WalletsTyped, QueueTyped, Held

LEMMA AppendRequest ==
  ASSUME TypeOK, Shown, NEW x \in Transaction, transactions' = Append(transactions, x),
         dialogs' = dialogs
  PROVE  QueueTyped' /\ Shown'
<1>1. transactions' \in Seq(Transaction) /\ Len(transactions') = Len(transactions) + 1
      /\ Len(transactions) \in Nat
  BY AppendProperties DEF TypeOK
<1>2. transactions' # << >>
  BY <1>1, EmptySeq
<1> QED
  BY <1>1, <1>2 DEF TypeOK, Shown, QueueTyped

LEMMA AskIsTyped ==
  ASSUME TypeOK, NEW c \in Client, Ask(c)
  PROVE  asked' \in 0 .. MaxRequests
  BY BoundAssumption DEF Ask, TypeOK

LEMMA WalletsStay ==
  ASSUME TypeOK, UNCHANGED walletVars
  PROVE  WalletsTyped' /\ passwords' \subseteq Wallet
  BY DEF TypeOK, WalletsTyped, Held, walletVars

LEMMA closeIsTyped ==
  ASSUME TypeOK, NEW c \in Client, NEW h \in Handle, NEW force \in BOOLEAN, close(c, h, force)
  PROVE  WalletsTyped' /\ passwords' \subseteq Wallet
<1> DEFINE app == NameOf[c]
           own == handles[app][h] > 0
           hs == IF own THEN [handles EXCEPT ![app][h] = @ - 1] ELSE handles
           left == IF own THEN refs[h] - 1 ELSE refs[h]
<1>1. app \in App
  BY ClientAssumption
<1>2. hs \in Held
  <2>1. handles \in [App -> [Handle -> Nat]] /\ handles[app][h] \in Nat
    BY <1>1 DEF TypeOK
  <2>2. own => handles[app][h] - 1 \in Nat
    BY <2>1
  <2> QED
    BY <1>1, <2>1, <2>2 DEF Held
<1>3. left \in Int
  BY DEF TypeOK
<1> HIDE DEF hs, left
<1>4. CASE closeWallet({h})
  BY <1>4, closeWalletIsTyped
<1>5. CASE Shut({h}, hs)
  BY <1>2, <1>5, RemoveIsTyped DEF Shut, TypeOK
<1>6. CASE handles' = hs /\ refs' = [refs EXCEPT ![h] = left] /\ UNCHANGED <<open, tried, passwords, timers>>
  BY <1>2, <1>3, <1>6 DEF WalletsTyped, TypeOK
<1> QED
  BY <1>4, <1>5, <1>6 DEF close, hs, left

LEMMA disconnectApplicationIsTyped ==
  ASSUME TypeOK, NEW c \in Client, NEW w \in Wallet, NEW app \in App,
         disconnectApplication(c, w, app)
  PROVE  WalletsTyped' /\ passwords' \subseteq Wallet
<1>1. PICK h \in OpenAs(w) : disconnectApplication(c, w, app)!2!(h)
  BY DEF disconnectApplication
<1>2. h \in Handle
  BY DEF OpenAs
<1>3. CASE closeWallet({h})
  BY <1>2, <1>3, closeWalletIsTyped
<1>4. CASE /\ handles' = [handles EXCEPT ![app][h] = 0] /\ refs' = [refs EXCEPT ![h] = @ - 1]
           /\ UNCHANGED <<open, tried, passwords, timers>>
  <2>1. handles' \in Held
    BY <1>2, <1>4 DEF Held, TypeOK
  <2> QED
    BY <1>2, <1>4, <2>1 DEF WalletsTyped, TypeOK
<1> QED
  BY <1>1, <1>3, <1>4

LEMMA AppUnregisteredIsTyped ==
  ASSUME TypeOK, NEW app \in App, AppUnregistered(app)
  PROVE  WalletsTyped' /\ passwords' \subseteq Wallet
<1> DEFINE held == {h \in Handle : handles[app][h] > 0}
           freed == IF LeaveOpen THEN {} ELSE {h \in held : open[h] # None}
           last == {h \in freed : refs[h] \in 1 .. handles[app][h]}
<1>1. handles' = [Invalidated(last) EXCEPT ![app] = [h \in Handle |-> 0]]
  BY DEF AppUnregistered
<1>2. handles' \in Held
  BY <1>1, InvalidatedIsTyped DEF Held
<1>3. \A h \in Handle : refs[h] \in Int /\ handles[app][h] \in Int
  BY DEF TypeOK
<1>4. refs' \in [Handle -> Int]
  BY <1>3 DEF AppUnregistered
<1>5. open' \in [Handle -> Wallet \union {None}]
  BY DEF AppUnregistered, TypeOK
<1>6. tried' \subseteq Handle /\ timers' \subseteq Handle /\ passwords' \subseteq Wallet
  BY DEF AppUnregistered, TypeOK
<1> QED
  BY <1>2, <1>4, <1>5, <1>6 DEF WalletsTyped

LEMMA reconfigureIsTyped ==
  ASSUME TypeOK, NEW new \in Settings, reconfigure(new)
  PROVE  WalletsTyped' /\ passwords' \subseteq Wallet
         /\ config' \in [enabled : BOOLEAN, closeIdle : BOOLEAN]
<1> DEFINE H == IF new.enabled THEN {} ELSE Opened
<1>1. handles' \in Held
  BY InvalidatedIsTyped DEF reconfigure
<1>2. H \subseteq Handle /\ Opened \subseteq Handle
  BY DEF Opened
<1>3. timers' \subseteq Handle /\ tried' \subseteq Handle
  BY <1>2 DEF reconfigure, TypeOK
<1>4. open' \in [Handle -> Wallet \union {None}] /\ refs' \in [Handle -> Int]
      /\ passwords' \subseteq Wallet
  BY DEF reconfigure, TypeOK
<1>5. config' \in [enabled : BOOLEAN, closeIdle : BOOLEAN]
  BY SettingsAssumption DEF reconfigure
<1> QED
  BY <1>1, <1>3, <1>4, <1>5 DEF WalletsTyped

LEMMA InitTyped ==
  ASSUME Init
  PROVE  TypeOK /\ Shown
<1>1. dialogs = << >> /\ transactions = << >>
  BY DEF Init
<1>2. dialogs \in Seq(Dialog) /\ transactions \in Seq(Transaction) /\ DOMAIN dialogs = {}
  BY <1>1
<1>3. handles \in [App -> [Handle -> Nat]]
  BY DEF Init
<1>4. asked \in 0 .. MaxRequests /\ given \in 0 .. MaxRequests
  BY BoundAssumption DEF Init
<1>5. config \in [enabled : BOOLEAN, closeIdle : BOOLEAN]
  BY SettingsAssumption DEF Init
<1>6. open \in [Handle -> Wallet \union {None}] /\ refs \in [Handle -> Int]
  BY DEF Init
<1>7. running \subseteq Client /\ tried \subseteq Handle /\ passwords \subseteq Wallet
      /\ timers \subseteq Handle /\ {timer, processing, crashed} \subseteq BOOLEAN
  BY DEF Init
<1>8. TypeOK
  BY <1>2, <1>3, <1>4, <1>5, <1>6, <1>7 DEF TypeOK
<1> QED
  BY <1>2, <1>8 DEF Shown

LEMMA StepTyped ==
  ASSUME TypeOK, Shown, [Next]_vars
  PROVE  TypeOK' /\ Shown'
<1>0. running \subseteq Client /\ config \in [enabled : BOOLEAN, closeIdle : BOOLEAN]
      /\ asked \in 0 .. MaxRequests /\ given \in 0 .. MaxRequests
      /\ timer \in BOOLEAN /\ processing \in BOOLEAN /\ crashed \in BOOLEAN
  BY DEF TypeOK
<1> DEFINE Wallets == WalletsTyped' /\ passwords' \subseteq Wallet /\ given' \in 0 .. MaxRequests
           Queue == QueueTyped' /\ Shown'
<1>1. ASSUME NEW c \in Client, NEW w \in Wallet, OpenLater(c, w) \/ changePassword(c, w)
      PROVE  TypeOK' /\ Shown'
  <2>1. \E what \in {"open", "changePassword"} :
          transactions' = Append(transactions, [what |-> what, client |-> c, wallet |-> w])
    BY <1>1 DEF OpenLater, changePassword
  <2>2. Queue
    BY <1>1, <2>1, AppendRequest DEF OpenLater, changePassword, Transaction
  <2>3. Wallets /\ asked' \in 0 .. MaxRequests
    BY <1>0, <1>1, WalletsStay, AskIsTyped DEF OpenLater, changePassword
  <2> QED
    BY <1>0, <1>1, <2>2, <2>3, TypeOKFrom DEF OpenLater, changePassword
<1>2. ASSUME NEW c \in Client, NEW w \in Wallet, openPath(c, w) PROVE TypeOK' /\ Shown'
  <2>1. Calls("openPath", dialogs) /\ internalOpen("openPath", c, w)
    BY <1>2 DEF openPath, Calls
  <2>2. Queue /\ Wallets
    BY <2>1, internalOpenIsTyped
  <2>3. asked' \in 0 .. MaxRequests
    BY <1>2, AskIsTyped DEF openPath
  <2> QED
    BY <1>0, <1>2, <2>2, <2>3, TypeOKFrom DEF openPath
<1>3. ASSUME NEW c \in Client, NEW w \in Wallet, tryOpen(c, w) PROVE TypeOK' /\ Shown'
  <2>1. given + 1 \in Handle /\ given' = given + 1 /\ given' \in 0 .. MaxRequests
    BY <1>3, BoundAssumption DEF TypeOK, tryOpen, Enter, Handle
  <2>2. open' \in [Handle -> Wallet \union {None}] /\ refs' \in [Handle -> Int]
        /\ tried' \subseteq Handle /\ passwords' \subseteq Wallet
    BY <1>3, <2>1 DEF TypeOK, tryOpen, Enter
  <2>3. Wallets
    BY <1>3, <2>1, <2>2 DEF TypeOK, tryOpen, WalletsTyped, Held
  <2>4. asked' \in 0 .. MaxRequests
    BY <1>3, AskIsTyped DEF tryOpen
  <2>5. Queue
    BY <1>3, SameQueue DEF tryOpen
  <2> QED
    BY <1>0, <1>3, <2>3, <2>4, <2>5, TypeOKFrom DEF tryOpen
<1>4. ASSUME NEW c \in Client, NEW w \in Wallet, NEW force \in BOOLEAN, closeByName(c, w, force)
      PROVE  TypeOK' /\ Shown'
  <2>1. PICK h \in OpenAs(w) : closeWallet({h})
    BY <1>4 DEF closeByName
  <2>2. WalletsTyped' /\ passwords' \subseteq Wallet
    BY <2>1, closeWalletIsTyped DEF OpenAs
  <2>3. Queue
    BY <1>4, SameQueue DEF closeByName, others, queueVars
  <2> QED
    BY <1>0, <1>4, <2>2, <2>3, TypeOKFrom DEF closeByName, others, queueVars
<1>5. ASSUME NEW c \in Client, NEW w \in Wallet, NEW app \in App, disconnectApplication(c, w, app)
      PROVE  TypeOK' /\ Shown'
  <2>1. WalletsTyped' /\ passwords' \subseteq Wallet
    BY <1>5, disconnectApplicationIsTyped
  <2>2. Queue
    BY <1>5, SameQueue DEF disconnectApplication, others, queueVars
  <2> QED
    BY <1>0, <1>5, <2>1, <2>2, TypeOKFrom DEF disconnectApplication, others, queueVars
<1>6. ASSUME NEW c \in Client, NEW h \in Handle, NEW force \in BOOLEAN, close(c, h, force)
      PROVE  TypeOK' /\ Shown'
  <2>1. WalletsTyped' /\ passwords' \subseteq Wallet
    BY <1>6, closeIsTyped
  <2>2. Queue
    BY <1>6, SameQueue DEF close, others, queueVars
  <2> QED
    BY <1>0, <1>6, <2>1, <2>2, TypeOKFrom DEF close, others, queueVars
<1>7. ASSUME NEW c \in Client, Leave(c) \/ Start(c) PROVE TypeOK' /\ Shown'
  <2>1. NameOf[c] \in App
    BY ClientAssumption
  <2>2. WalletsTyped' /\ passwords' \subseteq Wallet
    BY <1>7, <2>1, AppUnregisteredIsTyped, WalletsStay DEF Leave, Start
  <2>3. Queue
    BY <1>7, SameQueue DEF Leave, Start, queueVars
  <2> QED
    BY <1>0, <1>7, <2>2, <2>3, TypeOKFrom DEF Leave, Start, queueVars
<1>8. ASSUME processTransactions PROVE TypeOK' /\ Shown'
  BY <1>0, <1>8, WalletsStay, SameQueue, TypeOKFrom DEF processTransactions
<1>9. ASSUME ProcessNext PROVE TypeOK' /\ Shown'
  <2>1. \A i \in 1 .. Len(dialogs) : dialogs[i].for # "transaction"
    BY <1>9 DEF ProcessNext, ShownFor, TypeOK
  <2>2. CASE UNCHANGED <<walletVars, given, transactions, dialogs>> /\ processing' = FALSE
    BY <1>0, <1>9, <2>2, WalletsStay, SameQueue, TypeOKFrom DEF ProcessNext
  <2>3. CASE transactions # << >>
    <3> DEFINE x == Head(transactions)
    <3>1. x \in Transaction /\ Calls("transaction", dialogs) /\ Calls("transaction", dialogs)
          /\ Tail(transactions) \in Seq(Transaction)
      BY <2>1, <2>3, HeadTailProperties DEF TypeOK, Calls
    <3>2. CASE transactions' = Tail(transactions) /\ UNCHANGED <<walletVars, given, dialogs>>
      <4>1. Queue
        BY <3>1, <3>2, DialogsArePart, PopDialogs
      <4> QED
        BY <1>0, <1>9, <3>2, <4>1, WalletsStay, TypeOKFrom DEF ProcessNext
    <3>3. CASE internalOpen("transaction", x.client, x.wallet)
      <4>1. Queue /\ Wallets
        BY <3>1, <3>3, internalOpenIsTyped DEF Transaction
      <4> QED
        BY <1>0, <1>9, <2>3, <4>1, TypeOKFrom DEF ProcessNext
    <3>4. CASE \E h \in OpenAs(x.wallet) : Shows("transaction", "newPassword", x.client, x.wallet, h)
      <4>1. PICK h \in OpenAs(x.wallet) : Shows("transaction", "newPassword", x.client, x.wallet, h)
        BY <3>4
      <4>2. h \in Handle /\ h # 0
        BY DEF OpenAs, Handle
      <4>3. Queue /\ Wallets
        BY <3>1, <4>1, <4>2, ShowsIsTyped DEF Transaction
      <4> QED
        BY <1>0, <1>9, <2>3, <4>3, TypeOKFrom DEF ProcessNext
    <3> QED
      BY <1>9, <2>3, <3>2, <3>3, <3>4 DEF ProcessNext
  <2> QED
    BY <1>9, <2>2, <2>3 DEF ProcessNext
<1>10. ASSUME Refuse PROVE TypeOK' /\ Shown'
  <2>1. dialogs # << >> /\ TopReturns(0)
    BY <1>10 DEF Refuse, Answers
  <2>2. Queue
    BY <2>1, AnswerIsTyped
  <2> QED
    BY <1>0, <1>10, <2>2, WalletsStay, TypeOKFrom DEF Refuse
<1>11. ASSUME Accept PROVE TypeOK' /\ Shown'
  <2>1. dialogs # << >> /\ Insert(NameOf[Top.client], Top.wallet) /\ TopReturns(given + 1)
    BY <1>11 DEF Accept, Answers
  <2>2. Top.client \in Client /\ Top.wallet \in Wallet
    BY <2>1, BelowIsPart DEF Dialog
  <2>3. Wallets /\ given + 1 \in Handle
    BY <2>1, <2>2, InsertIsTyped
  <2>4. Queue
    BY <2>1, <2>3, AnswerIsTyped
  <2> QED
    BY <1>0, <1>11, <2>3, <2>4, TypeOKFrom DEF Accept
<1>12. ASSUME Authorize PROVE TypeOK' /\ Shown'
  <2>1. dialogs # << >> /\ Top.client \in Client /\ Top.wallet \in Wallet /\ Top.h \in Handle
    BY <1>12, BelowIsPart DEF Authorize, Answers, Dialog
  <2>2. CASE AddReference(NameOf[Top.client], Top.h) /\ TopReturns(Top.h)
    <3>1. Wallets
      BY <2>1, <2>2, AddReferenceIsTyped
    <3>2. Queue
      BY <2>1, <2>2, AnswerIsTyped
    <3> QED
      BY <1>0, <1>12, <3>1, <3>2, TypeOKFrom DEF Authorize
  <2>3. CASE /\ handles' = [handles EXCEPT ![NameOf[Top.client]][Top.h] = @ + 1] /\ crashed' = TRUE
             /\ UNCHANGED <<open, refs, tried, passwords, timers, given, transactions, dialogs>>
    <3>1. NameOf[Top.client] \in App
      BY <2>1, ClientAssumption
    <3>2. handles' \in Held
      BY <2>1, <2>3, <3>1 DEF TypeOK, Held
    <3>3. Wallets
      BY <1>0, <2>3, <3>2 DEF WalletsTyped, TypeOK
    <3>4. Queue
      BY <2>3, SameQueue
    <3> QED
      BY <1>0, <1>12, <2>3, <3>3, <3>4, TypeOKFrom DEF Authorize
  <2> QED
    BY <1>12, <2>2, <2>3 DEF Authorize
<1>13. ASSUME KeepPassword PROVE TypeOK' /\ Shown'
  <2>1. Answers("newPassword") /\ ChangeEnds(Top.reclose, passwords)
    BY <1>13 DEF KeepPassword
  <2>2. Top.reclose \in BOOLEAN /\ passwords \in SUBSET Wallet
    BY <2>1, BelowIsPart DEF Answers, Dialog, TypeOK
  <2>3. Queue /\ WalletsTyped' /\ passwords' \subseteq Wallet
    BY <2>1, <2>2, ChangeEndsIsTyped
  <2> QED
    BY <1>0, <1>13, <2>3, TypeOKFrom DEF KeepPassword, ChangeEnds
<1>14. ASSUME NewPassword PROVE TypeOK' /\ Shown'
  <2> DEFINE known == passwords \union {Top.wallet}
  <2>1. Answers("newPassword") /\ dialogs # << >>
    BY <1>14 DEF NewPassword, Answers
  <2>2. Top.reclose \in BOOLEAN /\ known \in SUBSET Wallet
    BY <2>1, BelowIsPart DEF Dialog, TypeOK
  <2>3. ASSUME NEW failed \in BOOLEAN, ChangeEnds(Top.reclose \/ failed, known)
        PROVE  TypeOK' /\ Shown'
    <3>1. Queue /\ WalletsTyped' /\ passwords' \subseteq Wallet
      BY <2>1, <2>2, <2>3, ChangeEndsIsTyped
    <3> QED
      BY <1>0, <1>14, <2>3, <3>1, TypeOKFrom DEF NewPassword, ChangeEnds
  <2>4. CASE /\ crashed' = TRUE /\ passwords' = known
             /\ UNCHANGED <<open, refs, tried, handles, timers, dialogs, transactions>>
    <3>1. Wallets
      BY <1>0, <1>14, <2>2, <2>4 DEF WalletsTyped, TypeOK, Held, NewPassword
    <3>2. Queue
      BY <2>4, SameQueue
    <3> QED
      BY <1>0, <1>14, <2>4, <3>1, <3>2, TypeOKFrom DEF NewPassword
  <2> QED
    BY <1>14, <2>3, <2>4 DEF NewPassword
<1>15. ASSUME closeAllWallets PROVE TypeOK' /\ Shown'
  <2>1. WalletsTyped' /\ passwords' \subseteq Wallet
    BY <1>15, RemoveIsTyped, InvalidatedIsTyped DEF closeAllWallets, Opened
  <2>2. Queue
    BY <1>15, SameQueue DEF closeAllWallets, others, queueVars
  <2> QED
    BY <1>0, <1>15, <2>1, <2>2, TypeOKFrom DEF closeAllWallets, others, queueVars
<1>16. ASSUME NEW h \in Handle, timedOut(h) PROVE TypeOK' /\ Shown'
  <2>1. WalletsTyped' /\ passwords' \subseteq Wallet
    BY <1>16, closeWalletIsTyped DEF timedOut
  <2>2. Queue
    BY <1>16, SameQueue DEF timedOut, others, queueVars
  <2> QED
    BY <1>0, <1>16, <2>1, <2>2, TypeOKFrom DEF timedOut, others, queueVars
<1>17. ASSUME NEW new \in Settings, reconfigure(new) PROVE TypeOK' /\ Shown'
  <2>1. WalletsTyped' /\ passwords' \subseteq Wallet
        /\ config' \in [enabled : BOOLEAN, closeIdle : BOOLEAN]
    BY <1>17, reconfigureIsTyped
  <2>2. Queue
    BY <1>17, SameQueue DEF reconfigure, queueVars
  <2> QED
    BY <1>0, <1>17, <2>1, <2>2, TypeOKFrom DEF reconfigure, queueVars
<1>18. CASE UNCHANGED vars
  <2>1. Wallets /\ Queue
    BY <1>0, <1>18, WalletsStay, SameQueue DEF vars, queueVars
  <2> QED
    BY <1>0, <1>18, <2>1, TypeOKFrom DEF vars, queueVars
<1> QED
  BY <1>1, <1>2, <1>3, <1>4, <1>5, <1>6, <1>7, <1>8, <1>9, <1>10, <1>11, <1>12, <1>13, <1>14,
     <1>15, <1>16, <1>17, <1>18 DEF Next

\* The tables of kded keep their types, and a dialog that processTransactions() shows is
\* always about the first request of its list.
THEOREM WalletTypeCorrect == Spec => []TypeOK
<1>1. Init => TypeOK /\ Shown
  BY InitTyped
<1>2. TypeOK /\ Shown /\ [Next]_vars => TypeOK' /\ Shown'
  BY StepTyped
<1> QED
  BY <1>1, <1>2, PTL DEF Spec

-----------------------------------------------------------------------------
(* Timers.                                                                 *)

LEMMA RemoveKeepsTimers ==
  ASSUME TypeOK, TimersMatch, NEW H \in SUBSET Handle, NEW hs, Remove(H, hs), config' = config
  PROVE  TimersMatch'
<1>1. Opened' = Opened \ H
  BY DEF Opened, Remove
<1>2. CASE config.closeIdle
  BY <1>1, <1>2 DEF TimersMatch, Remove
<1>3. CASE ~config.closeIdle
  BY <1>1, <1>3 DEF TimersMatch, Remove
<1> QED
  BY <1>2, <1>3

LEMMA InsertKeepsTimers ==
  ASSUME TypeOK, TimersMatch, NEW app, NEW w \in Wallet, Insert(app, w), config' = config
  PROVE  TimersMatch'
<1>1. given + 1 \in Handle
  BY BoundAssumption DEF TypeOK, Insert, Enter, Handle
<1>2. Opened' = Opened \union {given + 1}
  BY <1>1, WalletAssumption DEF Opened, Insert, Enter, TypeOK
<1> QED
  BY <1>2 DEF TimersMatch, Insert

LEMMA SameTimers ==
  ASSUME TimersMatch, UNCHANGED <<open, tried, timers, config>>
  PROVE  TimersMatch'
  BY DEF TimersMatch, Opened

LEMMA internalOpenKeepsTimers ==
  ASSUME TypeOK, TimersMatch, NEW for, NEW c, NEW w \in Wallet, internalOpen(for, c, w),
         config' = config
  PROVE  TimersMatch'
<1>1. CASE Insert(NameOf[c], w)
  BY <1>1, InsertKeepsTimers
<1>2. CASE UNCHANGED <<open, tried, timers>>
  BY <1>2, SameTimers
<1> QED
  BY <1>1, <1>2 DEF internalOpen, AddReference, Shows, walletVars

LEMMA StepKeepsTimers ==
  ASSUME TypeOK, Shown, TimersMatch, [Next]_vars
  PROVE  TimersMatch'
<1>1. ASSUME NEW c \in Client, NEW w \in Wallet, OpenLater(c, w) \/ changePassword(c, w)
      PROVE  TimersMatch'
  BY <1>1, SameTimers DEF OpenLater, changePassword, walletVars
<1>2. ASSUME NEW c \in Client, NEW w \in Wallet, openPath(c, w) PROVE TimersMatch'
  BY <1>2, internalOpenKeepsTimers DEF openPath
<1>3. ASSUME NEW c \in Client, NEW w \in Wallet, tryOpen(c, w) PROVE TimersMatch'
  <2>1. given + 1 \in Handle
    BY <1>3, BoundAssumption DEF TypeOK, tryOpen, Enter, Handle
  <2>2. Opened' = Opened \union {given + 1} /\ tried' = tried \union {given + 1}
        /\ UNCHANGED <<timers, config>>
    BY <1>3, <2>1, WalletAssumption DEF Opened, tryOpen, Enter, TypeOK
  <2> QED
    BY <2>2 DEF TimersMatch
<1>4. ASSUME NEW c \in Client, NEW w \in Wallet, NEW force \in BOOLEAN, closeByName(c, w, force)
      PROVE  TimersMatch'
  BY <1>4, RemoveKeepsTimers DEF closeByName, others, closeWallet, Shut, OpenAs
<1>5. ASSUME NEW c \in Client, NEW w \in Wallet, NEW app \in App, disconnectApplication(c, w, app)
      PROVE  TimersMatch'
  <2>1. config' = config
    BY <1>5 DEF disconnectApplication, others
  <2>2. \/ \E h \in Handle : closeWallet({h})
        \/ UNCHANGED <<open, tried, passwords, timers>>
    BY <1>5 DEF disconnectApplication, OpenAs
  <2> QED
    BY <2>1, <2>2, RemoveKeepsTimers, SameTimers DEF closeWallet, Shut
<1>6. ASSUME NEW c \in Client, NEW h \in Handle, NEW force \in BOOLEAN, close(c, h, force)
      PROVE  TimersMatch'
  <2>1. config' = config
    BY <1>6 DEF close, others
  <2>2. \/ \E hs : Remove({h}, hs)
        \/ UNCHANGED <<open, tried, passwords, timers>>
    BY <1>6 DEF close, closeWallet, Shut
  <2> QED
    BY <2>1, <2>2, RemoveKeepsTimers, SameTimers
<1>7. ASSUME NEW c \in Client, Leave(c) \/ Start(c) PROVE TimersMatch'
  <2>1. CASE AppUnregistered(NameOf[c])
    <3> DEFINE held == {h \in Handle : handles[NameOf[c]][h] > 0}
               freed == IF LeaveOpen THEN {} ELSE {h \in held : open[h] # None}
               last == {h \in freed : refs[h] \in 1 .. handles[NameOf[c]][h]}
    <3>1. open' = [h \in Handle |-> IF h \in last THEN None ELSE open[h]]
          /\ tried' = tried \ last
          /\ timers' = IF config.closeIdle THEN timers \ last ELSE timers
      BY <2>1 DEF AppUnregistered
    <3>2. last \subseteq Handle /\ config' = config
      BY <1>7 DEF Leave, Start
    <3> HIDE DEF last
    <3>3. Opened' = Opened \ last
      BY <3>1, <3>2 DEF Opened
    <3> QED
      BY <3>1, <3>2, <3>3 DEF TimersMatch
  <2>2. CASE UNCHANGED walletVars
    BY <1>7, <2>2, SameTimers DEF Leave, Start, walletVars
  <2> QED
    BY <1>7, <2>1, <2>2 DEF Leave, Start
<1>8. ASSUME processTransactions PROVE TimersMatch'
  BY <1>8, SameTimers DEF processTransactions, walletVars
<1>9. ASSUME ProcessNext PROVE TimersMatch'
  <2>1. CASE UNCHANGED walletVars
    BY <1>9, <2>1, SameTimers DEF ProcessNext, walletVars
  <2>2. CASE /\ transactions # << >>
             /\ internalOpen("transaction", Head(transactions).client, Head(transactions).wallet)
    <3>1. Head(transactions).wallet \in Wallet
      <4>1. Head(transactions) \in Transaction
        BY <2>2, HeadTailProperties DEF TypeOK
      <4> QED
        BY <4>1 DEF Transaction
    <3> QED
      BY <1>9, <2>2, <3>1, internalOpenKeepsTimers DEF ProcessNext
  <2> QED
    BY <1>9, <2>1, <2>2 DEF ProcessNext, Shows
<1>10. ASSUME Refuse PROVE TimersMatch'
  BY <1>10, SameTimers DEF Refuse, walletVars
<1>11. ASSUME Accept PROVE TimersMatch'
  <2>1. Top.wallet \in Wallet
    BY <1>11, BelowIsPart DEF Accept, Answers, Dialog
  <2> QED
    BY <1>11, <2>1, InsertKeepsTimers DEF Accept
<1>12. ASSUME Authorize PROVE TimersMatch'
  BY <1>12, SameTimers DEF Authorize, AddReference
<1>13. ASSUME NEW reclose, NEW known, Answers("newPassword"), ChangeEnds(reclose, known), config' = config
       PROVE  TimersMatch'
  <2>1. Top.h \in Handle
    BY <1>13, BelowIsPart DEF Answers, Dialog, Shown, Top
  <2>2. (\E hs : Remove({Top.h}, hs)) \/ UNCHANGED <<open, tried, timers>>
    BY <1>13 DEF ChangeEnds
  <2> QED
    BY <1>13, <2>1, <2>2, RemoveKeepsTimers, SameTimers
<1>14. ASSUME KeepPassword \/ NewPassword PROVE TimersMatch'
  <2>1. Answers("newPassword") /\ config' = config
    BY <1>14 DEF KeepPassword, NewPassword
  <2>2. (\E reclose, known : ChangeEnds(reclose, known)) \/ UNCHANGED <<open, tried, timers>>
    BY <1>14 DEF KeepPassword, NewPassword
  <2> QED
    BY <1>13, <2>1, <2>2, SameTimers
<1>15. ASSUME closeAllWallets PROVE TimersMatch'
  BY <1>15, RemoveKeepsTimers DEF closeAllWallets, others, Opened
<1>16. ASSUME NEW h \in Handle, timedOut(h) PROVE TimersMatch'
  BY <1>16, RemoveKeepsTimers DEF timedOut, others, closeWallet, Shut
<1>17. ASSUME NEW new \in Settings, reconfigure(new) PROVE TimersMatch'
  <2> DEFINE H == IF new.enabled THEN {} ELSE Opened
  <2>1. /\ open' = [h \in Handle |-> IF h \in H THEN None ELSE open[h]]
        /\ tried' = tried \ H /\ config' = new
        /\ timers' = CASE ~new.closeIdle -> {}
                        [] new.closeIdle /\ config.closeIdle -> timers \ H
                        [] OTHER -> (timers \union Opened) \ H
    BY <1>17 DEF reconfigure
  <2>2. Opened' = Opened \ H
    BY <2>1 DEF Opened
  <2> HIDE DEF H
  <2>3. timers \subseteq Opened /\ (config.closeIdle => Opened \ tried \subseteq timers)
    BY DEF TimersMatch
  <2>4. CASE ~new.closeIdle
    BY <2>1, <2>4 DEF TimersMatch
  <2>5. CASE new.closeIdle /\ config.closeIdle
    <3>1. timers' = timers \ H
      BY <2>1, <2>5
    <3> QED
      BY <2>1, <2>2, <2>3, <2>5, <3>1 DEF TimersMatch
  <2>6. CASE new.closeIdle /\ ~config.closeIdle
    <3>1. timers' = (timers \union Opened) \ H
      BY <2>1, <2>6
    <3> QED
      BY <2>1, <2>2, <2>3, <2>6, <3>1 DEF TimersMatch
  <2>7. new.closeIdle \in BOOLEAN /\ config.closeIdle \in BOOLEAN
    BY SettingsAssumption DEF TypeOK
  <2> QED
    BY <2>4, <2>5, <2>6, <2>7
<1>18. CASE UNCHANGED vars
  BY <1>18, SameTimers DEF vars, walletVars
<1> QED
  BY <1>1, <1>2, <1>3, <1>4, <1>5, <1>6, <1>7, <1>8, <1>9, <1>10, <1>11, <1>12, <1>14,
     <1>15, <1>16, <1>17, <1>18 DEF Next

\* However "Close When Idle" is switched, whoever opens, shares and closes wallets and
\* whichever dialog is shown meanwhile: every wallet that internalOpen() opened has its
\* idle timer, and no timer is left for a wallet that is closed.
THEOREM WalletTimers == Spec => []TimersMatch
<1>1. Init => TimersMatch
  BY DEF Init, TimersMatch, Opened
<1>2. TypeOK /\ Shown /\ TimersMatch /\ [Next]_vars => TimersMatch'
  BY StepKeepsTimers
<1>3. Init => TypeOK /\ Shown
  BY InitTyped
<1>4. TypeOK /\ Shown /\ [Next]_vars => TypeOK' /\ Shown'
  BY StepTyped
<1> QED
  BY <1>1, <1>2, <1>3, <1>4, PTL DEF Spec

-----------------------------------------------------------------------------
(* Passwords.  closeWallet() forgets the password by the name of the        *)
(* wallet: another handle of the same wallet would be left without it.  So  *)
(* a wallet is open under one handle only, which holds as long as two       *)
(* requests never open it at once.  The invariant Sound says of the tables  *)
(* o, the handles given g, the dialogs ds and the requests ts:              *)
(*   - a handle is not used again, and a dialog about one names its wallet; *)
(*   - each open wallet has one handle;                                     *)
(*   - a wallet that a dialog is to open is closed, and it has one dialog;  *)
(*   - while openPath() asks for a wallet no other request will open it.    *)

Fresh(o, g, ds) ==
  /\ \A h \in Handle : h > g => o[h] = None
  /\ \A i \in DOMAIN ds : ds[i].h # 0 => ds[i].h <= g /\ o[ds[i].h] \in {None, ds[i].wallet}

Single(o, ds, ts) ==
  /\ \A h1, h2 \in Handle : o[h1] # None /\ o[h1] = o[h2] => h1 = h2
  /\ \A i \in DOMAIN ds : ds[i].h = 0 => \A h \in Handle : o[h] # ds[i].wallet
  /\ \A i, j \in DOMAIN ds :
       ds[i].h = 0 /\ ds[j].h = 0 /\ ds[i].wallet = ds[j].wallet => i = j
  /\ \A i \in DOMAIN ds : ds[i].h = 0 /\ ds[i].for = "openPath" =>
       \A k \in DOMAIN ts : ts[k].wallet = ds[i].wallet =>
         k = 1 /\ \E j \in DOMAIN ds : j < i /\ ds[j].for = "transaction"

Sound(o, g, ds, ts) == Fresh(o, g, ds) /\ Single(o, ds, ts)

Tables == [Handle -> Wallet \union {None}]

LEMMA CloseIsSound ==
  ASSUME NEW o \in Tables, NEW g \in Nat, NEW ds \in Seq(Dialog), NEW ts,
         Sound(o, g, ds, ts), NEW H
  PROVE  Sound([h \in Handle |-> IF h \in H THEN None ELSE o[h]], g, ds, ts)
<1> DEFINE o2 == [h \in Handle |-> IF h \in H THEN None ELSE o[h]]
<1>1. \A h \in Handle : o2[h] = None \/ o2[h] = o[h]
  OBVIOUS
<1>2. \A i \in DOMAIN ds : ds[i] \in Dialog
  BY ElementOfSeq
<1> HIDE DEF o2
<1>3. Fresh(o2, g, ds)
  <2>1. ASSUME NEW i \in DOMAIN ds, ds[i].h # 0 PROVE ds[i].h \in Handle
    BY <1>2, <2>1 DEF Dialog
  <2> QED
    BY <1>1, <2>1 DEF Sound, Fresh
<1>4. \A i \in DOMAIN ds : ds[i].wallet # None
  BY <1>2, WalletAssumption DEF Dialog
<1>5. Single(o2, ds, ts)
  BY <1>1, <1>4 DEF Sound, Single
<1> QED
  BY <1>3, <1>5 DEF Sound, o2

LEMMA EnterIsSound ==
  ASSUME NEW o \in Tables, NEW g \in Nat, NEW ds \in Seq(Dialog), NEW ts,
         Sound(o, g, ds, ts), NEW w \in Wallet, g + 1 \in Handle,
         \A h \in Handle : o[h] # w,
         \A i \in DOMAIN ds : ds[i].h = 0 => ds[i].wallet # w
  PROVE  Sound([o EXCEPT ![g + 1] = w], g + 1, ds, ts)
<1> DEFINE o2 == [o EXCEPT ![g + 1] = w]
<1>1. o2[g + 1] = w /\ \A h \in Handle : h # g + 1 => o2[h] = o[h]
  BY DEF Tables
<1>2. \A i \in DOMAIN ds : ds[i] \in Dialog
  BY ElementOfSeq
<1>3. \A h \in Handle : h \in Nat
  BY DEF Handle
<1> HIDE DEF o2, Handle
<1>4. Fresh(o2, g + 1, ds)
  <2>1. ASSUME NEW h \in Handle, h > g + 1 PROVE o2[h] = None
    <3>1. h > g /\ h # g + 1
      BY <1>3, <2>1
    <3> QED
      BY <1>1, <3>1 DEF Sound, Fresh
  <2>2. ASSUME NEW i \in DOMAIN ds, ds[i].h # 0
        PROVE  ds[i].h <= g + 1 /\ o2[ds[i].h] \in {None, ds[i].wallet}
    <3>1. ds[i].h \in Handle /\ ds[i].h <= g /\ ds[i].h \in Nat
      BY <1>2, <1>3, <2>2 DEF Dialog, Sound, Fresh
    <3>2. ds[i].h # g + 1 /\ ds[i].h <= g + 1
      BY <3>1
    <3> QED
      BY <1>1, <2>2, <3>1, <3>2 DEF Sound, Fresh
  <2> QED
    BY <2>1, <2>2 DEF Fresh
<1>5. Single(o2, ds, ts)
  <2>1. ASSUME NEW h1 \in Handle, NEW h2 \in Handle, o2[h1] # None, o2[h1] = o2[h2] PROVE h1 = h2
    BY <1>1, <2>1 DEF Sound, Single
  <2>2. ASSUME NEW i \in DOMAIN ds, ds[i].h = 0, NEW h \in Handle PROVE o2[h] # ds[i].wallet
    BY <1>1, <2>2 DEF Sound, Single
  <2> QED
    BY <2>1, <2>2 DEF Sound, Single
<1> QED
  BY <1>4, <1>5 DEF Sound, o2

LEMMA PartIsSound ==
  ASSUME TypeOK, NEW o, NEW g, Sound(o, g, dialogs, transactions), NEW below, Part(below)
  PROVE  Sound(o, g, below, transactions)
<1>0. Len(below) \in Nat /\ DOMAIN below = 1 .. Len(below) /\ Len(dialogs) \in Nat
      /\ DOMAIN dialogs = 1 .. Len(dialogs) /\ Len(below) <= Len(dialogs)
  BY LenProperties DEF Part, TypeOK
<1>1. \A i \in DOMAIN below : i \in DOMAIN dialogs /\ below[i] = dialogs[i]
  BY <1>0 DEF Part
<1>2. \A i \in DOMAIN below, j \in DOMAIN dialogs : j < i => j \in DOMAIN below
  BY <1>0
<1>3. Fresh(o, g, below)
  BY <1>1 DEF Sound, Fresh
<1>4. Single(o, below, transactions)
  <2>1. ASSUME NEW i \in DOMAIN below, below[i].h = 0, below[i].for = "openPath",
               NEW k \in DOMAIN transactions, transactions[k].wallet = below[i].wallet
        PROVE  k = 1 /\ \E j \in DOMAIN below : j < i /\ below[j].for = "transaction"
    <3>1. k = 1 /\ \E j \in DOMAIN dialogs : j < i /\ dialogs[j].for = "transaction"
      BY <1>1, <2>1 DEF Sound, Single
    <3> QED
      BY <1>1, <1>2, <3>1
  <2> QED
    BY <1>1, <2>1 DEF Sound, Single
<1> QED
  BY <1>3, <1>4 DEF Sound

LEMMA TailIsSound ==
  ASSUME NEW o, NEW g, NEW ds, NEW ts \in Seq(Transaction), Sound(o, g, ds, ts),
         \A i \in DOMAIN ds : ds[i].for # "transaction",
         NEW ts2 \in Seq(Transaction), ts2 # << >>, Len(ts2) = Len(ts),
         \A k \in DOMAIN ts : ts2[k].wallet = ts[k].wallet
  PROVE  Sound(o, g, ds, Tail(ts2))
<1>1. ASSUME NEW i \in DOMAIN ds, ds[i].h = 0, ds[i].for = "openPath",
             NEW k \in DOMAIN Tail(ts2), Tail(ts2)[k].wallet = ds[i].wallet
      PROVE  FALSE
  <2>1. Len(ts2) \in Nat /\ Len(Tail(ts2)) = Len(ts2) - 1 /\ Tail(ts2) \in Seq(Transaction)
        /\ \A j \in 1 .. Len(Tail(ts2)) : Tail(ts2)[j] = ts2[j + 1]
    BY HeadTailProperties
  <2>2. k \in 1 .. Len(Tail(ts2)) /\ k \in Nat
    BY <2>1
  <2>3. k + 1 \in DOMAIN ts /\ k + 1 # 1 /\ Tail(ts2)[k] = ts2[k + 1]
    BY <2>1, <2>2
  <2> QED
    BY <1>1, <2>3 DEF Sound, Single
<1> QED
  BY <1>1 DEF Sound, Single

\* One more dialog.
LEMMA DialogIsSound ==
  ASSUME NEW o \in Tables, NEW g \in Nat, NEW ds \in Seq(Dialog), NEW ts, Sound(o, g, ds, ts),
         NEW d \in Dialog,
         d.h # 0 => d.h <= g /\ o[d.h] \in {None, d.wallet},
         d.h = 0 => /\ \A h \in Handle : o[h] # d.wallet
                    /\ \A i \in DOMAIN ds : ds[i].h = 0 => ds[i].wallet # d.wallet,
         d.h = 0 /\ d.for = "openPath" =>
           \A k \in DOMAIN ts : ts[k].wallet = d.wallet =>
             k = 1 /\ \E j \in DOMAIN ds : ds[j].for = "transaction"
  PROVE  Sound(o, g, Append(ds, d), ts)
<1> DEFINE ds2 == Append(ds, d)
<1>1. /\ Len(ds) \in Nat /\ DOMAIN ds2 = 1 .. Len(ds) + 1 /\ ds2[Len(ds) + 1] = d
      /\ \A i \in DOMAIN ds : ds2[i] = ds[i] /\ i \in DOMAIN ds2 /\ i < Len(ds) + 1
      /\ DOMAIN ds = 1 .. Len(ds)
  BY AppendProperties
<1> HIDE DEF ds2
<1>2. ASSUME NEW i \in DOMAIN ds2
      PROVE  (i \in DOMAIN ds /\ ds2[i] = ds[i]) \/ (i = Len(ds) + 1 /\ ds2[i] = d)
  BY <1>1
<1>3. Fresh(o, g, ds2)
  BY <1>2 DEF Sound, Fresh
<1>4. ASSUME NEW i \in DOMAIN ds2, ds2[i].h = 0 PROVE \A h \in Handle : o[h] # ds2[i].wallet
  BY <1>2, <1>4 DEF Sound, Single
<1>5. ASSUME NEW i \in DOMAIN ds2, NEW j \in DOMAIN ds2, ds2[i].h = 0, ds2[j].h = 0,
             ds2[i].wallet = ds2[j].wallet
      PROVE  i = j
  BY <1>2, <1>5 DEF Sound, Single
<1>6. ASSUME NEW i \in DOMAIN ds2, ds2[i].h = 0, ds2[i].for = "openPath",
             NEW k \in DOMAIN ts, ts[k].wallet = ds2[i].wallet
      PROVE  k = 1 /\ \E j \in DOMAIN ds2 : j < i /\ ds2[j].for = "transaction"
  <2>1. CASE i \in DOMAIN ds /\ ds2[i] = ds[i]
    <3>1. k = 1 /\ \E j \in DOMAIN ds : j < i /\ ds[j].for = "transaction"
      BY <1>6, <2>1 DEF Sound, Single
    <3> QED
      BY <1>1, <3>1
  <2>2. CASE i = Len(ds) + 1 /\ ds2[i] = d
    <3>1. k = 1 /\ \E j \in DOMAIN ds : ds[j].for = "transaction"
      BY <1>6, <2>2
    <3> QED
      BY <1>1, <2>2, <3>1
  <2> QED
    BY <1>2, <2>1, <2>2
<1>7. Single(o, ds2, ts)
  BY <1>4, <1>5, <1>6 DEF Sound, Single
<1> QED
  BY <1>3, <1>7 DEF Sound, ds2

\* One more request, when openPath() shows no dialog.
LEMMA RequestIsSound ==
  ASSUME NEW o, NEW g, NEW ds, NEW ts, Sound(o, g, ds, ts), NEW ts2,
         \A i \in DOMAIN ds : ds[i].for # "openPath"
  PROVE  Sound(o, g, ds, ts2)
  BY DEF Sound, Single

LEMMA ReturnsIsSound ==
  ASSUME TypeOK, NEW for \in {"transaction", "openPath"}, NEW c \in Client, NEW w \in Wallet,
         NEW h \in Handle \union {0}, NEW below, Part(below), Calls(for, below),
         Returns(for, c, w, h, below), NEW o \in Tables, NEW g \in Nat,
         Sound(o, g, below, transactions), h # 0 => h <= g /\ o[h] \in {None, w}
  PROVE  Sound(o, g, dialogs', transactions')
<1>1. CASE for = "openPath"
  BY <1>1 DEF Returns
<1>2. CASE for = "transaction"
  <2> DEFINE x == Head(transactions)
             d == [for |-> for, ask |-> "newPassword", client |-> c, wallet |-> w, h |-> h,
                   reclose |-> TRUE]
  <2>1. transactions # << >> /\ transactions \in Seq(Transaction) /\ below \in Seq(Dialog)
    BY <1>2 DEF Calls, TypeOK, Part
  <2>2. CASE x.what = "changePassword" /\ h # 0
    <3>1. d \in Dialog /\ d.h = h /\ d.wallet = w
      BY DEF Dialog
    <3>2. dialogs' = Append(below, d) /\ transactions' = transactions
      BY <1>2, <2>2 DEF Returns
    <3> HIDE DEF d
    <3>3. Sound(o, g, Append(below, d), transactions)
      BY <2>1, <2>2, <3>1, DialogIsSound
    <3> QED
      BY <3>2, <3>3
  <2>3. CASE ~(x.what = "changePassword" /\ h # 0)
    <3>a. /\ dialogs' = below
          /\ \E alike \in SUBSET DOMAIN transactions :
               transactions' = Tail(IF x.what = "open" /\ h = 0 THEN Failing(x, alike)
                                    ELSE transactions)
      BY <1>2, <2>3 DEF Returns
    <3>b. PICK alike \in SUBSET DOMAIN transactions :
            transactions' = Tail(IF x.what = "open" /\ h = 0 THEN Failing(x, alike)
                                 ELSE transactions)
      BY <3>a
    <3> DEFINE ts2 == IF x.what = "open" /\ h = 0 THEN Failing(x, alike) ELSE transactions
    <3>1. dialogs' = below /\ transactions' = Tail(ts2)
      BY <3>a, <3>b
    <3>2. Failing(x, alike) \in Seq(Transaction) /\ Len(Failing(x, alike)) = Len(transactions)
      BY FailingIsTyped
    <3>3. ASSUME NEW k \in DOMAIN transactions PROVE Failing(x, alike)[k].wallet = transactions[k].wallet
      <4>1. transactions[k] \in Transaction
        BY <2>1, ElementOfSeq
      <4> QED
        BY <4>1 DEF Failing, Transaction
    <3>4. /\ ts2 \in Seq(Transaction) /\ Len(ts2) = Len(transactions)
          /\ \A k \in DOMAIN transactions : ts2[k].wallet = transactions[k].wallet
      BY <2>1, <3>2, <3>3
    <3>5. ts2 # << >>
      BY <2>1, <3>4, EmptySeq
    <3>6. \A i \in DOMAIN below : below[i].for # "transaction"
      <4>1. DOMAIN below = 1 .. Len(below)
        BY <2>1, LenProperties
      <4> QED
        BY <1>2, <4>1 DEF Calls, Part
    <3> HIDE DEF ts2
    <3>7. Sound(o, g, below, Tail(ts2))
      BY <2>1, <3>4, <3>5, <3>6, TailIsSound
    <3> QED
      BY <3>1, <3>7
  <2> QED
    BY <2>2, <2>3
<1> QED
  BY <1>1, <1>2

SoundTables == Sound(open, given, dialogs, transactions)

\* Nothing else is about to open w.
Free(w, ds) == \A i \in DOMAIN ds : ds[i].h = 0 => ds[i].wallet # w

LEMMA TablesTyped ==
  ASSUME TypeOK
  PROVE  open \in Tables /\ given \in Nat /\ \A h \in Handle : h \in Nat /\ h # 0
  BY BoundAssumption DEF TypeOK, Tables, Handle

LEMMA InsertIsSound ==
  ASSUME TypeOK, NEW w \in Wallet, Enter(w), NEW ds \in Seq(Dialog),
         Sound(open, given, ds, transactions), OpenAs(w) = {}, Free(w, ds)
  PROVE  /\ Sound(open', given', ds, transactions) /\ open' \in Tables /\ given' \in Nat
         /\ given' = given + 1 /\ open'[given + 1] = w /\ given + 1 \in Handle /\ given + 1 # 0
<1>1. given + 1 \in Handle /\ given \in Nat /\ given + 1 # 0
  BY BoundAssumption DEF TypeOK, Enter, Handle
<1>2. open' = [open EXCEPT ![given + 1] = w] /\ given' = given + 1
  BY DEF Enter
<1>3. \A h \in Handle : open[h] # w
  BY DEF OpenAs
<1>4. Sound([open EXCEPT ![given + 1] = w], given + 1, ds, transactions)
  BY <1>1, <1>3, EnterIsSound, TablesTyped DEF Free
<1> QED
  BY <1>1, <1>2, <1>4, TablesTyped DEF Tables

LEMMA KnownAfterInsert ==
  ASSUME TypeOK, PasswordsKnown, NEW w \in Wallet, Enter(w)
  PROVE  PasswordsKnown'
<1>1. given + 1 \in Handle
  BY BoundAssumption DEF TypeOK, Enter, Handle
<1> QED
  BY <1>1 DEF PasswordsKnown, Opened, Enter, TypeOK

LEMMA KnownAfterClose ==
  ASSUME TypeOK, SoundTables, PasswordsKnown, NEW H \in SUBSET Handle,
         open' = [h \in Handle |-> IF h \in H THEN None ELSE open[h]],
         passwords \ {open[h] : h \in H} \subseteq passwords'
  PROVE  PasswordsKnown'
<1>1. ASSUME NEW h \in Handle, open'[h] # None PROVE open'[h] \in passwords'
  <2>1. h \notin H /\ open'[h] = open[h] /\ open[h] \in passwords
    BY <1>1 DEF PasswordsKnown, Opened
  <2>2. \A g \in H : open[g] # open[h]
    BY <1>1, <2>1 DEF SoundTables, Sound, Single
  <2> QED
    BY <2>1, <2>2
<1> QED
  BY <1>1 DEF PasswordsKnown, Opened

Good == SoundTables /\ PasswordsKnown

LEMMA CloseIsGood ==
  ASSUME TypeOK, Good, NEW H \in SUBSET Handle,
         open' = [h \in Handle |-> IF h \in H THEN None ELSE open[h]],
         passwords \ {open[h] : h \in H} \subseteq passwords',
         UNCHANGED <<given, dialogs, transactions>>
  PROVE  Good'
<1>1. PasswordsKnown'
  BY KnownAfterClose DEF Good
<1>2. dialogs \in Seq(Dialog)
  BY DEF TypeOK
<1>3. Sound([h \in Handle |-> IF h \in H THEN None ELSE open[h]], given, dialogs, transactions)
  BY <1>2, CloseIsSound, TablesTyped DEF Good, SoundTables
<1> QED
  BY <1>1, <1>3 DEF Good, SoundTables

LEMMA SameIsGood ==
  ASSUME Good, UNCHANGED <<open, passwords, given, dialogs, transactions>>
  PROVE  Good'
  BY DEF Good, SoundTables, PasswordsKnown, Opened

\* Part of the dialogs is sound, too.
LEMMA GoodPart ==
  ASSUME TypeOK, Good, NEW below, Part(below)
  PROVE  Sound(open, given, below, transactions) /\ below \in Seq(Dialog)
  BY PartIsSound DEF Good, SoundTables, Part

LEMMA ShowsIsGood ==
  ASSUME TypeOK, Good, NEW for \in {"transaction", "openPath"},
         NEW ask \in {"password", "authorize", "newPassword"}, NEW c \in Client, NEW w \in Wallet,
         NEW h \in Handle \union {0}, Shows(for, ask, c, w, h), h # 0 => open[h] = w,
         h = 0 => OpenAs(w) = {} /\ Free(w, dialogs),
         h = 0 /\ for = "openPath" =>
           \A k \in DOMAIN transactions : transactions[k].wallet = w =>
             k = 1 /\ \E j \in DOMAIN dialogs : dialogs[j].for = "transaction"
  PROVE  Good'
<1> DEFINE d == [for |-> for, ask |-> ask, client |-> c, wallet |-> w, h |-> h, reclose |-> FALSE]
<1>1. d \in Dialog /\ d.for = for /\ d.wallet = w /\ d.h = h
  BY DEF Dialog
<1>2. dialogs' = Append(dialogs, d) /\ UNCHANGED <<open, passwords, given, transactions>>
  BY DEF Shows, walletVars
<1> HIDE DEF d
<1>3. d.h # 0 => d.h <= given /\ open[d.h] \in {None, d.wallet}
  <2> SUFFICES ASSUME d.h # 0 PROVE d.h <= given /\ open[d.h] \in {None, d.wallet}
    OBVIOUS
  <2>1. h \in Handle /\ open[h] = w /\ w # None /\ h \in Nat /\ given \in Nat
    BY <1>1, TablesTyped, WalletAssumption
  <2>2. ~(h > given)
    BY <2>1 DEF Good, SoundTables, Sound, Fresh
  <2> QED
    BY <1>1, <2>1, <2>2
<1>4. d.h = 0 => /\ \A g \in Handle : open[g] # d.wallet
                 /\ \A i \in DOMAIN dialogs : dialogs[i].h = 0 => dialogs[i].wallet # d.wallet
  BY <1>1 DEF OpenAs, Free
<1>5. dialogs \in Seq(Dialog) /\ Sound(open, given, dialogs, transactions)
  BY DEF TypeOK, Good, SoundTables
<1>6. Sound(open, given, Append(dialogs, d), transactions)
  BY <1>1, <1>3, <1>4, <1>5, DialogIsSound, TablesTyped
<1> QED
  BY <1>2, <1>6 DEF Good, SoundTables, PasswordsKnown, Opened

LEMMA OpenHandle ==
  ASSUME TypeOK, Good, NEW w \in Wallet, NEW h \in OpenAs(w)
  PROVE  h \in Handle /\ h # 0 /\ h <= given /\ open[h] = w
<1>1. h \in Handle /\ open[h] = w /\ w # None /\ h \in Nat /\ given \in Nat /\ h # 0
  BY TablesTyped, WalletAssumption DEF OpenAs
<1>2. ~(h > given)
  BY <1>1 DEF Good, SoundTables, Sound, Fresh
<1> QED
  BY <1>1, <1>2

LEMMA internalOpenIsGood ==
  ASSUME TypeOK, Good, NEW for \in {"transaction", "openPath"}, NEW c \in Client, NEW w \in Wallet,
         Calls(for, dialogs), internalOpen(for, c, w),
         OpenAs(w) = {} => Free(w, dialogs),
         OpenAs(w) = {} /\ for = "openPath" =>
           \A k \in DOMAIN transactions : transactions[k].wallet = w =>
             k = 1 /\ \E j \in DOMAIN dialogs : dialogs[j].for = "transaction"
  PROVE  Good'
<1>1. Part(dialogs) /\ Sound(open, given, dialogs, transactions) /\ dialogs \in Seq(Dialog)
      /\ open \in Tables /\ given \in Nat
  BY DialogsArePart, TablesTyped DEF Good, SoundTables, TypeOK
<1>2. CASE Returns(for, c, w, 0, dialogs) /\ UNCHANGED <<walletVars, given>>
  <2>1. Sound(open, given, dialogs', transactions')
    BY <1>1, <1>2, ReturnsIsSound
  <2> QED
    BY <1>2, <2>1 DEF Good, SoundTables, PasswordsKnown, Opened, walletVars
<1>3. CASE \E h \in OpenAs(w) : AddReference(NameOf[c], h) /\ Returns(for, c, w, h, dialogs)
  <2>1. PICK h \in OpenAs(w) : AddReference(NameOf[c], h) /\ Returns(for, c, w, h, dialogs)
    BY <1>3
  <2>2. h \in Handle /\ h <= given /\ open[h] = w
    BY OpenHandle
  <2>3. Sound(open, given, dialogs', transactions')
    BY <1>1, <2>1, <2>2, ReturnsIsSound
  <2> QED
    BY <2>1, <2>3 DEF AddReference, Good, SoundTables, PasswordsKnown, Opened
<1>4. CASE \E h \in OpenAs(w) : Shows(for, "authorize", c, w, h)
  BY <1>4, OpenHandle, ShowsIsGood
<1>5. CASE OpenAs(w) = {} /\ Insert(NameOf[c], w) /\ Returns(for, c, w, given + 1, dialogs)
  <2>1. Enter(w) /\ Free(w, dialogs)
    BY <1>5 DEF Insert
  <2>2. /\ Sound(open', given', dialogs, transactions) /\ open' \in Tables /\ given' \in Nat
        /\ given' = given + 1 /\ open'[given + 1] = w /\ given + 1 \in Handle
    BY <1>1, <1>5, <2>1, InsertIsSound
  <2>3. given + 1 <= given'
    BY <2>2
  <2>4. Sound(open', given', dialogs', transactions')
    BY <1>1, <1>5, <2>2, <2>3, ReturnsIsSound
  <2>5. PasswordsKnown'
    BY <2>1, KnownAfterInsert DEF Good
  <2> QED
    BY <2>4, <2>5 DEF Good, SoundTables
<1>6. CASE OpenAs(w) = {} /\ \E ask \in {"password", "authorize"} : Shows(for, ask, c, w, 0)
  BY <1>6, ShowsIsGood
<1> QED
  BY <1>2, <1>3, <1>4, <1>5, <1>6 DEF internalOpen

LEMMA closeWalletIsGood ==
  ASSUME TypeOK, Good, NEW H \in SUBSET Handle, NEW hs, Shut(H, hs),
         UNCHANGED <<given, dialogs, transactions>>
  PROVE  Good'
  BY CloseIsGood DEF Shut, Remove

\* doTransactionChangePassword() ends.
LEMMA ChangeEndsIsGood ==
  ASSUME TypeOK, Shown, Good, Answers("newPassword"), NEW reclose \in BOOLEAN,
         NEW known \in SUBSET Wallet, passwords \subseteq known, ChangeEnds(reclose, known),
         given' = given
  PROVE  Good'
<1>1. Part(Below) /\ Top \in Dialog /\ dialogs # << >> /\ Len(dialogs) \in DOMAIN dialogs
  BY BelowIsPart DEF Answers
<1>2. Top.for = "transaction" /\ Top.h \in Handle /\ Top.h # 0 /\ Calls("transaction", Below)
  BY <1>1, TopCalls DEF Answers, Shown, Dialog, Top
<1>3. open[Top.h] \in {None, Top.wallet}
  BY <1>1, <1>2 DEF Good, SoundTables, Sound, Fresh, Top
<1>4. Sound(open, given, Below, Tail(transactions)) /\ Below \in Seq(Dialog)
  <2>1. Sound(open, given, Below, transactions) /\ Below \in Seq(Dialog)
    BY <1>1, GoodPart
  <2>2. DOMAIN Below = 1 .. Len(Below)
    BY <2>1, LenProperties
  <2>3. \A i \in DOMAIN Below : Below[i].for # "transaction"
    BY <1>1, <1>2, <2>2 DEF Calls, Part
  <2>4. transactions \in Seq(Transaction) /\ transactions # << >>
    BY <1>2 DEF TypeOK, Calls
  <2> QED
    BY <2>1, <2>3, <2>4, TailIsSound
<1>5. dialogs' = Below /\ transactions' = Tail(transactions)
  BY DEF ChangeEnds
<1>6. CASE reclose /\ open[Top.h] # None
  <2>1. /\ open' = [h \in Handle |-> IF h \in {Top.h} THEN None ELSE open[h]]
        /\ passwords' = known \ {Top.wallet}
    BY <1>6 DEF ChangeEnds, Remove
  <2>2. passwords \ {open[h] : h \in {Top.h}} \subseteq passwords'
    BY <1>3, <1>6, <2>1
  <2>3. PasswordsKnown'
    <3>1. {Top.h} \in SUBSET Handle /\ SoundTables /\ PasswordsKnown
      BY <1>2 DEF Good
    <3> HIDE DEF Top
    <3> QED
      BY <2>1, <2>2, <3>1, KnownAfterClose
  <2>4. Sound(open', given, Below, Tail(transactions))
    BY <1>4, <2>1, CloseIsSound, TablesTyped
  <2> QED
    BY <1>5, <2>3, <2>4 DEF Good, SoundTables
<1>7. CASE ~(reclose /\ open[Top.h] # None)
  <2>1. open' = open /\ passwords' = known
    BY <1>7 DEF ChangeEnds
  <2> QED
    BY <1>4, <1>5, <2>1 DEF Good, SoundTables, PasswordsKnown, Opened
<1> QED
  BY <1>6, <1>7

\* Who may ask while other requests wait.
LEMMA MayOverlapFrees ==
  ASSUME TypeOK, Shown, ~Overlaps, NEW w \in Wallet, MayOverlap(w), OpenAs(w) = {}
  PROVE  /\ Free(w, dialogs)
         /\ \A k \in DOMAIN transactions : transactions[k].wallet = w =>
              k = 1 /\ \E j \in DOMAIN dialogs : dialogs[j].for = "transaction"
<1>1. ~WillOpen(w)
  BY DEF MayOverlap
<1>2. Free(w, dialogs)
  BY <1>1 DEF WillOpen, Free, Shown
<1>3. ASSUME NEW k \in DOMAIN transactions, transactions[k].wallet = w
      PROVE  k = 1 /\ \E j \in DOMAIN dialogs : dialogs[j].for = "transaction"
  <2>1. ~(k > 1) /\ ShownFor("transaction") # {}
    BY <1>1, <1>3 DEF WillOpen
  <2>2. k \in Nat /\ k >= 1
    BY DEF TypeOK
  <2> QED
    BY <2>1, <2>2 DEF ShownFor
<1> QED
  BY <1>2, <1>3

LEMMA StepIsGood ==
  ASSUME TypeOK, Shown, Good, ~Overlaps, [Next]_vars
  PROVE  Good'
<1>1. ASSUME NEW c \in Client, NEW w \in Wallet, OpenLater(c, w) \/ changePassword(c, w)
      PROVE  Good'
  <2>1. \A i \in DOMAIN dialogs : dialogs[i].for # "openPath"
    BY <1>1 DEF OpenLater, changePassword, Ask, From, Hears, ShownFor
  <2>2. Sound(open, given, dialogs, transactions')
    BY <2>1, RequestIsSound DEF Good, SoundTables
  <2>3. UNCHANGED <<open, passwords, given, dialogs>>
    BY <1>1 DEF OpenLater, changePassword, walletVars
  <2> QED
    BY <2>2, <2>3 DEF Good, SoundTables, PasswordsKnown, Opened
<1>2. ASSUME NEW c \in Client, NEW w \in Wallet, openPath(c, w) PROVE Good'
  <2>1. Calls("openPath", dialogs) /\ internalOpen("openPath", c, w) /\ MayOverlap(w)
    BY <1>2 DEF openPath, Calls
  <2> QED
    BY <2>1, MayOverlapFrees, internalOpenIsGood
<1>3. ASSUME NEW c \in Client, NEW w \in Wallet, tryOpen(c, w) PROVE Good'
  <2>1. Enter(w) /\ OpenAs(w) = {} /\ MayOverlap(w) /\ UNCHANGED <<dialogs, transactions>>
    BY <1>3 DEF tryOpen
  <2>2. Free(w, dialogs)
    BY <2>1, MayOverlapFrees
  <2>3. Sound(open, given, dialogs, transactions) /\ dialogs \in Seq(Dialog)
    BY DEF Good, SoundTables, TypeOK
  <2>4. Sound(open', given', dialogs, transactions)
    BY <2>1, <2>2, <2>3, InsertIsSound
  <2>5. PasswordsKnown'
    BY <2>1, KnownAfterInsert DEF Good
  <2> QED
    BY <2>1, <2>4, <2>5 DEF Good, SoundTables
<1>4. ASSUME NEW c \in Client, NEW w \in Wallet, NEW force \in BOOLEAN, closeByName(c, w, force)
      PROVE  Good'
  BY <1>4, closeWalletIsGood DEF closeByName, others, queueVars, closeWallet, OpenAs
<1>5. ASSUME NEW c \in Client, NEW w \in Wallet, NEW app \in App, disconnectApplication(c, w, app)
      PROVE  Good'
  <2>1. UNCHANGED <<given, dialogs, transactions>>
    BY <1>5 DEF disconnectApplication, others, queueVars
  <2>2. \/ \E h \in Handle : closeWallet({h})
        \/ UNCHANGED <<open, tried, passwords, timers>>
    BY <1>5 DEF disconnectApplication, OpenAs
  <2> QED
    BY <2>1, <2>2, closeWalletIsGood, SameIsGood DEF closeWallet
<1>6. ASSUME NEW c \in Client, NEW h \in Handle, NEW force \in BOOLEAN, close(c, h, force)
      PROVE  Good'
  <2>1. UNCHANGED <<given, dialogs, transactions>>
    BY <1>6 DEF close, others, queueVars
  <2>2. \/ \E hs : Shut({h}, hs)
        \/ UNCHANGED <<open, tried, passwords, timers>>
    BY <1>6 DEF close, closeWallet
  <2> QED
    BY <2>1, <2>2, closeWalletIsGood, SameIsGood
<1>7. ASSUME NEW c \in Client, Leave(c) \/ Start(c) PROVE Good'
  <2>1. UNCHANGED <<given, dialogs, transactions>>
    BY <1>7 DEF Leave, Start, queueVars
  <2>2. CASE AppUnregistered(NameOf[c])
    <3> DEFINE held == {h \in Handle : handles[NameOf[c]][h] > 0}
               freed == IF LeaveOpen THEN {} ELSE {h \in held : open[h] # None}
               last == {h \in freed : refs[h] \in 1 .. handles[NameOf[c]][h]}
    <3>1. open' = [h \in Handle |-> IF h \in last THEN None ELSE open[h]]
          /\ passwords' = passwords \ {open[h] : h \in last}
      BY <2>2 DEF AppUnregistered
    <3>2. last \in SUBSET Handle
      OBVIOUS
    <3> HIDE DEF last
    <3> QED
      BY <2>1, <3>1, <3>2, CloseIsGood
  <2>3. CASE UNCHANGED walletVars
    BY <2>1, <2>3, SameIsGood DEF walletVars
  <2> QED
    BY <1>7, <2>2, <2>3 DEF Leave, Start
<1>8. ASSUME processTransactions PROVE Good'
  BY <1>8, SameIsGood DEF processTransactions, walletVars
<1>9. ASSUME ProcessNext PROVE Good'
  <2>1. \A i \in DOMAIN dialogs : dialogs[i].for # "transaction"
    BY <1>9 DEF ProcessNext, ShownFor
  <2>2. CASE UNCHANGED <<walletVars, given, transactions, dialogs>>
    BY <2>2, SameIsGood DEF walletVars
  <2>3. CASE transactions # << >>
    <3> DEFINE x == Head(transactions)
    <3>1. x \in Transaction /\ x = transactions[1] /\ 1 \in DOMAIN transactions
          /\ transactions \in Seq(Transaction)
      BY <2>3, HeadTailProperties, EmptySeq DEF TypeOK
    <3>2. x.client \in Client /\ x.wallet \in Wallet
      BY <3>1 DEF Transaction
    <3>3. Calls("transaction", dialogs)
      BY <2>1, <2>3 DEF Calls, TypeOK
    <3>4. CASE transactions' = Tail(transactions) /\ UNCHANGED <<walletVars, given, dialogs>>
      <4>1. Sound(open, given, dialogs, Tail(transactions))
        BY <2>1, <2>3, <3>1, TailIsSound DEF Good, SoundTables
      <4> QED
        BY <3>4, <4>1 DEF Good, SoundTables, PasswordsKnown, Opened, walletVars
    <3>5. CASE internalOpen("transaction", x.client, x.wallet)
      <4>1. Free(x.wallet, dialogs)
        <5>1. ASSUME NEW i \in DOMAIN dialogs, dialogs[i].h = 0 PROVE dialogs[i].wallet # x.wallet
          <6>1. dialogs[i].for = "openPath"
            <7>1. dialogs[i] \in Dialog
              BY ElementOfSeq DEF TypeOK
            <7> QED
              BY <2>1, <7>1 DEF Dialog
          <6>2. \A j \in DOMAIN dialogs : dialogs[j].for # "transaction"
            BY <2>1
          <6> QED
            BY <3>1, <5>1, <6>1, <6>2 DEF Good, SoundTables, Sound, Single
        <5> QED
          BY <5>1 DEF Free
      <4> QED
        BY <3>2, <3>3, <3>5, <4>1, internalOpenIsGood
    <3>6. CASE \E h \in OpenAs(x.wallet) : Shows("transaction", "newPassword", x.client, x.wallet, h)
      BY <3>2, <3>6, OpenHandle, ShowsIsGood
    <3> QED
      BY <1>9, <2>3, <3>4, <3>5, <3>6 DEF ProcessNext
  <2> QED
    BY <1>9, <2>2, <2>3 DEF ProcessNext
<1>10. ASSUME Refuse PROVE Good'
  <2>1. dialogs # << >> /\ TopReturns(0) /\ UNCHANGED walletVars /\ given' = given
    BY <1>10 DEF Refuse, Answers
  <2>2. Part(Below) /\ Top \in Dialog /\ Calls(Top.for, Below)
    BY <2>1, BelowIsPart, TopCalls
  <2>3. Top.for \in {"transaction", "openPath"} /\ Top.client \in Client /\ Top.wallet \in Wallet
    BY <2>2 DEF Dialog
  <2>4. Sound(open, given, dialogs', transactions')
    BY <2>1, <2>2, <2>3, GoodPart, ReturnsIsSound, TablesTyped DEF TopReturns
  <2> QED
    BY <2>1, <2>4 DEF Good, SoundTables, PasswordsKnown, Opened, walletVars
<1>11. ASSUME Accept PROVE Good'
  <2>1. dialogs # << >> /\ Insert(NameOf[Top.client], Top.wallet) /\ TopReturns(given + 1)
        /\ Top.h = 0
    BY <1>11 DEF Accept, Answers
  <2>2. /\ Part(Below) /\ Top \in Dialog /\ Calls(Top.for, Below)
        /\ Len(Below) = Len(dialogs) - 1 /\ Len(dialogs) \in DOMAIN dialogs
    BY <2>1, BelowIsPart, TopCalls
  <2>3. Top.for \in {"transaction", "openPath"} /\ Top.client \in Client /\ Top.wallet \in Wallet
    BY <2>2 DEF Dialog
  <2>4. Enter(Top.wallet)
    BY <2>1 DEF Insert
  <2>5. OpenAs(Top.wallet) = {}
    BY <2>1, <2>2 DEF OpenAs, Top, Good, SoundTables, Sound, Single
  <2>6. Free(Top.wallet, Below)
    <3>1. Len(Below) \in Nat /\ DOMAIN Below = 1 .. Len(Below) /\ Len(dialogs) \in Nat
          /\ DOMAIN dialogs = 1 .. Len(dialogs)
      BY <2>2, LenProperties DEF Part, TypeOK
    <3>2. ASSUME NEW i \in DOMAIN Below, Below[i].h = 0, Below[i].wallet = Top.wallet PROVE FALSE
      <4>1. Below[i] = dialogs[i] /\ i \in DOMAIN dialogs /\ i # Len(dialogs)
        BY <2>2, <3>1 DEF Part
      <4> QED
        BY <2>1, <2>2, <3>2, <4>1 DEF Top, Good, SoundTables, Sound, Single
    <3> QED
      BY <3>2 DEF Free
  <2>7. /\ Sound(open', given', Below, transactions) /\ open' \in Tables /\ given' \in Nat
        /\ given' = given + 1 /\ open'[given + 1] = Top.wallet /\ given + 1 \in Handle
    BY <2>2, <2>3, <2>4, <2>5, <2>6, GoodPart, InsertIsSound
  <2>8. given + 1 <= given'
    BY <2>7
  <2>9. Sound(open', given', dialogs', transactions')
    BY <2>1, <2>2, <2>3, <2>7, <2>8, ReturnsIsSound DEF TopReturns
  <2>10. PasswordsKnown'
    BY <2>3, <2>4, KnownAfterInsert DEF Good
  <2> QED
    BY <2>9, <2>10 DEF Good, SoundTables
<1>12. ASSUME Authorize PROVE Good'
  <2>1. dialogs # << >> /\ Top.h # 0
    BY <1>12 DEF Authorize, Answers
  <2>2. Part(Below) /\ Top \in Dialog /\ Calls(Top.for, Below) /\ Len(dialogs) \in DOMAIN dialogs
    BY <2>1, BelowIsPart, TopCalls
  <2>3. Top.for \in {"transaction", "openPath"} /\ Top.client \in Client /\ Top.wallet \in Wallet
        /\ Top.h \in Handle
    BY <2>1, <2>2 DEF Dialog
  <2>4. Top.h <= given /\ open[Top.h] \in {None, Top.wallet}
    BY <2>1, <2>2 DEF Top, Good, SoundTables, Sound, Fresh
  <2>5. CASE AddReference(NameOf[Top.client], Top.h) /\ TopReturns(Top.h)
    <3>1. Sound(open, given, dialogs', transactions')
      BY <2>2, <2>3, <2>4, <2>5, GoodPart, ReturnsIsSound, TablesTyped DEF TopReturns
    <3> QED
      BY <2>5, <3>1 DEF AddReference, Good, SoundTables, PasswordsKnown, Opened
  <2>6. CASE UNCHANGED <<open, refs, tried, passwords, timers, given, transactions, dialogs>>
    BY <2>6, SameIsGood
  <2> QED
    BY <1>12, <2>5, <2>6 DEF Authorize
<1>13. ASSUME KeepPassword \/ NewPassword PROVE Good'
  <2> DEFINE all == passwords \union {Top.wallet}
  <2>1. Answers("newPassword") /\ dialogs # << >> /\ given' = given
    BY <1>13 DEF KeepPassword, NewPassword, Answers
  <2>2. Top.reclose \in BOOLEAN /\ passwords \in SUBSET Wallet /\ all \in SUBSET Wallet
    BY <2>1, BelowIsPart DEF Dialog, TypeOK
  <2>3. \/ ChangeEnds(Top.reclose, passwords)
        \/ \E failed \in BOOLEAN : ChangeEnds(Top.reclose \/ failed, all)
        \/ passwords' = all /\ UNCHANGED <<open, dialogs, transactions>>
    BY <1>13 DEF KeepPassword, NewPassword
  <2>4. CASE ChangeEnds(Top.reclose, passwords)
    BY <2>1, <2>2, <2>4, ChangeEndsIsGood
  <2>5. CASE \E failed \in BOOLEAN : ChangeEnds(Top.reclose \/ failed, all)
    <3>1. PICK failed \in BOOLEAN : ChangeEnds(Top.reclose \/ failed, all)
      BY <2>5
    <3>2. (Top.reclose \/ failed) \in BOOLEAN /\ passwords \subseteq all
      BY <2>2
    <3> QED
      BY <2>1, <2>2, <3>1, <3>2, ChangeEndsIsGood
  <2>6. CASE passwords' = all /\ UNCHANGED <<open, dialogs, transactions>>
    BY <2>1, <2>6 DEF Good, SoundTables, PasswordsKnown, Opened
  <2> QED
    BY <2>3, <2>4, <2>5, <2>6
<1>14. ASSUME closeAllWallets PROVE Good'
  <2>1. open' = [h \in Handle |-> IF h \in Opened THEN None ELSE open[h]]
        /\ UNCHANGED <<given, dialogs, transactions>>
    BY <1>14 DEF closeAllWallets, Remove, others, queueVars
  <2>2. Sound(open', given, dialogs, transactions)
    <3>1. dialogs \in Seq(Dialog) /\ Sound(open, given, dialogs, transactions)
      BY DEF Good, SoundTables, TypeOK
    <3> QED
      BY <2>1, <3>1, CloseIsSound, TablesTyped
  <2>3. PasswordsKnown'
    BY <2>1 DEF PasswordsKnown, Opened
  <2> QED
    BY <2>1, <2>2, <2>3 DEF Good, SoundTables
<1>15. ASSUME NEW h \in Handle, timedOut(h) PROVE Good'
  BY <1>15, closeWalletIsGood DEF timedOut, others, queueVars, closeWallet
<1>16. ASSUME NEW new \in Settings, reconfigure(new) PROVE Good'
  <2> DEFINE H == IF new.enabled THEN {} ELSE Opened
  <2>1. /\ open' = [h \in Handle |-> IF h \in H THEN None ELSE open[h]]
        /\ passwords' = passwords \ {open[h] : h \in H}
        /\ UNCHANGED <<given, dialogs, transactions>>
    BY <1>16 DEF reconfigure, queueVars
  <2>2. H \in SUBSET Handle
    BY DEF Opened
  <2> QED
    BY <2>1, <2>2, CloseIsGood
<1>17. CASE UNCHANGED vars
  BY <1>17, SameIsGood DEF vars, walletVars, queueVars
<1> QED
  BY <1>1, <1>2, <1>3, <1>4, <1>5, <1>6, <1>7, <1>8, <1>9, <1>10, <1>11, <1>12, <1>13, <1>14,
     <1>15, <1>16, <1>17 DEF Next

\* If no wallet is opened twice at once, the password of each open wallet is known, however
\* requests, dialogs shown over each other, changes of passwords and closings mix:
\* the assertion of closeWallet(), and the condition for a wallet to be written at all.
THEOREM WalletPasswordsKnown ==
  ASSUME ~Overlaps
  PROVE  Spec => []PasswordsKnown
<1>1. Init => Good
  <2> SUFFICES ASSUME Init PROVE Good
    OBVIOUS
  <2>1. dialogs = << >> /\ transactions = << >> /\ \A h \in Handle : open[h] = None
    BY DEF Init
  <2>2. DOMAIN dialogs = {}
    BY <2>1
  <2> QED
    BY <2>1, <2>2 DEF Good, SoundTables, Sound, Fresh, Single, PasswordsKnown, Opened
<1>2. TypeOK /\ Shown /\ Good /\ [Next]_vars => Good'
  BY StepIsGood
<1>3. Init => TypeOK /\ Shown
  BY InitTyped
<1>4. TypeOK /\ Shown /\ [Next]_vars => TypeOK' /\ Shown'
  BY StepTyped
<1>5. Good => PasswordsKnown
  BY DEF Good
<1> QED
  BY <1>1, <1>2, <1>3, <1>4, <1>5, PTL DEF Spec

-----------------------------------------------------------------------------
(* Clients that exit.  Handles go to the clients that asked for them; these *)
(* are there when the answer comes, if none exits while its request waits.  *)

Asking(ds, ts) ==
  /\ \A i \in DOMAIN ds : ds[i].client \in running
  /\ \A k \in DOMAIN ts : ts[k].client \in running

Living == OnlyTheLivingHold /\ Asking(dialogs, transactions)

LEMMA PendingIsAsking ==
  ASSUME Living, NEW i \in DOMAIN dialogs
  PROVE  dialogs[i].client \in running
  BY DEF Living, Asking

LEMMA PartAsks ==
  ASSUME TypeOK, Living, NEW below, Part(below)
  PROVE  Asking(below, transactions)
<1>1. Len(below) \in Nat /\ DOMAIN below = 1 .. Len(below) /\ Len(dialogs) \in Nat
      /\ DOMAIN dialogs = 1 .. Len(dialogs) /\ Len(below) <= Len(dialogs)
  BY LenProperties DEF Part, TypeOK
<1>2. \A i \in DOMAIN below : i \in DOMAIN dialogs /\ below[i] = dialogs[i]
  BY <1>1 DEF Part
<1> QED
  BY <1>2 DEF Living, Asking

LEMMA AppendAsks ==
  ASSUME NEW T, NEW s \in Seq(T), NEW x \in T, x.client \in running,
         \A i \in DOMAIN s : s[i].client \in running
  PROVE  \A i \in DOMAIN Append(s, x) : Append(s, x)[i].client \in running
<1>1. /\ Len(s) \in Nat /\ DOMAIN Append(s, x) = 1 .. Len(s) + 1 /\ Append(s, x)[Len(s) + 1] = x
      /\ \A i \in 1 .. Len(s) : Append(s, x)[i] = s[i]
      /\ DOMAIN s = 1 .. Len(s)
  BY AppendProperties
<1>2. \A i \in 1 .. Len(s) + 1 : i \in 1 .. Len(s) \/ i = Len(s) + 1
  BY <1>1
<1> QED
  BY <1>1, <1>2

LEMMA TailAsks ==
  ASSUME NEW T, NEW ts \in Seq(T), ts # << >>, \A k \in DOMAIN ts : ts[k].client \in running
  PROVE  \A k \in DOMAIN Tail(ts) : Tail(ts)[k].client \in running
<1>1. Len(ts) \in Nat /\ Len(Tail(ts)) = Len(ts) - 1 /\ Tail(ts) \in Seq(T)
      /\ \A j \in 1 .. Len(Tail(ts)) : Tail(ts)[j] = ts[j + 1]
  BY HeadTailProperties
<1>2. ASSUME NEW k \in DOMAIN Tail(ts) PROVE k + 1 \in DOMAIN ts /\ Tail(ts)[k] = ts[k + 1]
  BY <1>1, <1>2
<1> QED
  BY <1>2

LEMMA ReturnsAsks ==
  ASSUME TypeOK, NEW for \in {"transaction", "openPath"}, NEW c \in running, c \in Client,
         NEW w \in Wallet, NEW h \in Handle \union {0}, NEW below, Part(below), Calls(for, below),
         Returns(for, c, w, h, below), Asking(below, transactions)
  PROVE  Asking(dialogs', transactions')
<1>1. CASE for = "openPath"
  BY <1>1 DEF Returns
<1>2. CASE for = "transaction"
  <2> DEFINE x == Head(transactions)
             d == [for |-> for, ask |-> "newPassword", client |-> c, wallet |-> w, h |-> h,
                   reclose |-> TRUE]
  <2>1. transactions # << >> /\ transactions \in Seq(Transaction) /\ below \in Seq(Dialog)
    BY <1>2 DEF Calls, TypeOK, Part
  <2>2. CASE x.what = "changePassword" /\ h # 0
    <3>1. d \in Dialog /\ d.client = c
      BY DEF Dialog
    <3>2. dialogs' = Append(below, d) /\ transactions' = transactions
      BY <1>2, <2>2 DEF Returns
    <3> HIDE DEF d
    <3>3. \A i \in DOMAIN Append(below, d) : Append(below, d)[i].client \in running
      BY <2>1, <3>1, AppendAsks DEF Asking
    <3> QED
      BY <3>2, <3>3 DEF Asking
  <2>3. CASE ~(x.what = "changePassword" /\ h # 0)
    <3>a. /\ dialogs' = below
          /\ \E alike \in SUBSET DOMAIN transactions :
               transactions' = Tail(IF x.what = "open" /\ h = 0 THEN Failing(x, alike)
                                    ELSE transactions)
      BY <1>2, <2>3 DEF Returns
    <3>b. PICK alike \in SUBSET DOMAIN transactions :
            transactions' = Tail(IF x.what = "open" /\ h = 0 THEN Failing(x, alike)
                                 ELSE transactions)
      BY <3>a
    <3> DEFINE ts2 == IF x.what = "open" /\ h = 0 THEN Failing(x, alike) ELSE transactions
    <3>1. dialogs' = below /\ transactions' = Tail(ts2)
      BY <3>a, <3>b
    <3>2. Failing(x, alike) \in Seq(Transaction) /\ Len(Failing(x, alike)) = Len(transactions)
      BY FailingIsTyped
    <3>3. ASSUME NEW k \in DOMAIN transactions PROVE Failing(x, alike)[k].client = transactions[k].client
      <4>1. transactions[k] \in Transaction
        BY <2>1, ElementOfSeq
      <4> QED
        BY <4>1 DEF Failing, Transaction
    <3>4. ts2 \in Seq(Transaction) /\ Len(ts2) = Len(transactions)
      BY <2>1, <3>2
    <3>5. ts2 # << >>
      BY <2>1, <3>4, EmptySeq
    <3>6. \A k \in DOMAIN ts2 : ts2[k].client \in running
      BY <2>1, <3>2, <3>3, <3>4 DEF Asking
    <3> HIDE DEF ts2
    <3>7. \A k \in DOMAIN Tail(ts2) : Tail(ts2)[k].client \in running
      BY <3>4, <3>5, <3>6, TailAsks
    <3> QED
      BY <3>1, <3>7 DEF Asking
  <2> QED
    BY <2>2, <2>3
<1> QED
  BY <1>1, <1>2

LEMMA ShowsAsks ==
  ASSUME TypeOK, Living, NEW for \in {"transaction", "openPath"},
         NEW ask \in {"password", "authorize", "newPassword"}, NEW c \in running, c \in Client,
         NEW w \in Wallet, NEW h \in Handle \union {0}, Shows(for, ask, c, w, h)
  PROVE  Asking(dialogs', transactions') /\ handles' = handles
<1> DEFINE d == [for |-> for, ask |-> ask, client |-> c, wallet |-> w, h |-> h, reclose |-> FALSE]
<1>1. d \in Dialog /\ d.client = c
  BY DEF Dialog
<1>2. dialogs' = Append(dialogs, d) /\ UNCHANGED <<handles, transactions>>
  BY DEF Shows, walletVars
<1>3. dialogs \in Seq(Dialog) /\ Asking(dialogs, transactions)
  BY DEF TypeOK, Living
<1> HIDE DEF d
<1>4. \A i \in DOMAIN Append(dialogs, d) : Append(dialogs, d)[i].client \in running
  BY <1>1, <1>3, AppendAsks DEF Asking
<1> QED
  BY <1>2, <1>3, <1>4 DEF Asking

\* No application has handles that it had none of, but that of a client that is there.
OnlyLivingGain ==
  \A app \in App : \A h \in Handle :
    handles'[app][h] > 0 => handles[app][h] > 0 \/ \E c \in running : NameOf[c] = app

LEMMA GainByInsert ==
  ASSUME TypeOK, NEW c \in running, c \in Client, NEW h \in Handle,
         handles' = [handles EXCEPT ![NameOf[c]][h] = @ + 1]
  PROVE  OnlyLivingGain
<1>1. NameOf[c] \in App
  BY ClientAssumption
<1> QED
  BY <1>1 DEF OnlyLivingGain, TypeOK

LEMMA GainByLoss ==
  ASSUME TypeOK, NEW H, handles' = Invalidated(H) \/ handles' = handles
  PROVE  OnlyLivingGain
  BY DEF OnlyLivingGain, Invalidated

LEMMA StepLives ==
  ASSUME OnlyTheLivingHold, OnlyLivingGain, running \subseteq running',
         crashed' = FALSE => crashed = FALSE, crashed \in BOOLEAN, crashed' \in BOOLEAN
  PROVE  OnlyTheLivingHold'
  BY DEF OnlyTheLivingHold, OnlyLivingGain

LEMMA InsertedHandle ==
  ASSUME TypeOK, NEW c \in running, c \in Client, NEW w, Insert(NameOf[c], w)
  PROVE  OnlyLivingGain /\ given + 1 \in Handle
<1>1. given + 1 \in Handle
  BY BoundAssumption DEF TypeOK, Insert, Enter, Handle
<1> QED
  BY <1>1, GainByInsert DEF Insert

LEMMA internalOpenLives ==
  ASSUME TypeOK, Living, NEW for \in {"transaction", "openPath"}, NEW c \in running, c \in Client,
         NEW w \in Wallet, Calls(for, dialogs), internalOpen(for, c, w)
  PROVE  OnlyLivingGain /\ Asking(dialogs', transactions')
<1>1. Part(dialogs) /\ Asking(dialogs, transactions)
  BY DialogsArePart DEF Living
<1>2. CASE Returns(for, c, w, 0, dialogs) /\ UNCHANGED <<walletVars, given>>
  BY <1>1, <1>2, ReturnsAsks, GainByLoss DEF walletVars
<1>3. CASE \E h \in OpenAs(w) : AddReference(NameOf[c], h) /\ Returns(for, c, w, h, dialogs)
  BY <1>1, <1>3, ReturnsAsks, GainByInsert DEF AddReference, OpenAs
<1>4. CASE \E h \in OpenAs(w) : Shows(for, "authorize", c, w, h)
  BY <1>4, ShowsAsks, GainByLoss DEF OpenAs
<1>5. CASE Insert(NameOf[c], w) /\ Returns(for, c, w, given + 1, dialogs)
  BY <1>1, <1>5, ReturnsAsks, InsertedHandle
<1>6. CASE \E ask \in {"password", "authorize"} : Shows(for, ask, c, w, 0)
  BY <1>6, ShowsAsks, GainByLoss
<1> QED
  BY <1>2, <1>3, <1>4, <1>5, <1>6 DEF internalOpen

LEMMA StaysLiving ==
  ASSUME TypeOK, TypeOK', Living, OnlyLivingGain, Asking(dialogs', transactions'),
         running \subseteq running', crashed' = FALSE => crashed = FALSE
  PROVE  Living'
<1>1. OnlyTheLivingHold'
  BY StepLives DEF Living, TypeOK
<1> QED
  BY <1>1 DEF Living, Asking

LEMMA AnswerLives ==
  ASSUME TypeOK, Shown, Living, dialogs # << >>, NEW h \in Handle \union {0}, TopReturns(h)
  PROVE  Asking(dialogs', transactions')
<1>1. Part(Below) /\ Top \in Dialog /\ Calls(Top.for, Below) /\ Len(dialogs) \in DOMAIN dialogs
  BY BelowIsPart, TopCalls
<1>2. Top.for \in {"transaction", "openPath"} /\ Top.client \in Client /\ Top.wallet \in Wallet
  BY <1>1 DEF Dialog
<1>3. Top.client \in running
  BY <1>1, PendingIsAsking DEF Top
<1>4. Asking(Below, transactions)
  BY <1>1, PartAsks
<1> QED
  BY <1>1, <1>2, <1>3, <1>4, ReturnsAsks DEF TopReturns

LEMMA StepIsLiving ==
  ASSUME TypeOK, TypeOK', Shown, Living, ~LeavesAsking, [Next]_vars
  PROVE  Living'
<1>0. Asking(dialogs, transactions)
  BY DEF Living
<1>1. ASSUME NEW c \in Client, NEW w \in Wallet, OpenLater(c, w) \/ changePassword(c, w)
      PROVE  Living'
  <2>1. PICK what \in {"open", "changePassword"} :
          transactions' = Append(transactions, [what |-> what, client |-> c, wallet |-> w])
    BY <1>1 DEF OpenLater, changePassword
  <2>2. c \in running /\ dialogs' = dialogs /\ UNCHANGED <<running, handles, crashed>>
    BY <1>1 DEF OpenLater, changePassword, Ask, From, walletVars
  <2> DEFINE x == [what |-> what, client |-> c, wallet |-> w]
  <2>3. x \in Transaction /\ x.client = c /\ transactions \in Seq(Transaction)
    BY DEF Transaction, TypeOK
  <2> HIDE DEF x
  <2>4. \A k \in DOMAIN Append(transactions, x) : Append(transactions, x)[k].client \in running
    BY <1>0, <2>2, <2>3, AppendAsks DEF Asking
  <2>5. Asking(dialogs', transactions')
    BY <1>0, <2>1, <2>2, <2>4 DEF Asking, x
  <2> QED
    BY <2>2, <2>5, GainByLoss, StaysLiving
<1>2. ASSUME NEW c \in Client, NEW w \in Wallet, openPath(c, w) PROVE Living'
  <2>1. Calls("openPath", dialogs) /\ internalOpen("openPath", c, w) /\ c \in running
        /\ UNCHANGED <<running, crashed>>
    BY <1>2 DEF openPath, Calls, Ask, From
  <2>2. OnlyLivingGain /\ Asking(dialogs', transactions')
    BY <2>1, internalOpenLives
  <2> QED
    BY <2>1, <2>2, StaysLiving
<1>3. ASSUME NEW H, handles' = Invalidated(H) \/ handles' = handles,
             UNCHANGED <<running, dialogs, transactions, crashed>>
      PROVE  Living'
  BY <1>0, <1>3, GainByLoss, StaysLiving
<1>4. ASSUME NEW c \in Client, NEW w \in Wallet, tryOpen(c, w) PROVE Living'
  BY <1>3, <1>4 DEF tryOpen
<1>5. ASSUME NEW c \in Client, NEW w \in Wallet, NEW force \in BOOLEAN, closeByName(c, w, force)
      PROVE  Living'
  BY <1>3, <1>5 DEF closeByName, closeWallet, Shut, Remove, others, queueVars
<1>6. ASSUME NEW c \in Client, NEW w \in Wallet, NEW app \in App, disconnectApplication(c, w, app)
      PROVE  Living'
  <2>1. UNCHANGED <<running, dialogs, transactions, crashed>>
    BY <1>6 DEF disconnectApplication, others, queueVars
  <2>2. \/ \E H : handles' = Invalidated(H)
        \/ \E h \in Handle : handles' = [handles EXCEPT ![app][h] = 0]
    BY <1>6 DEF disconnectApplication, closeWallet, Shut, Remove, OpenAs
  <2>3. CASE \E h \in Handle : handles' = [handles EXCEPT ![app][h] = 0]
    <3>1. OnlyLivingGain
      BY <2>3 DEF OnlyLivingGain, TypeOK
    <3> QED
      BY <1>0, <2>1, <3>1, StaysLiving
  <2> QED
    BY <1>3, <2>1, <2>2, <2>3
<1>7. ASSUME NEW c \in Client, NEW h \in Handle, NEW force \in BOOLEAN, close(c, h, force)
      PROVE  Living'
  <2> DEFINE app == NameOf[c]
             hs == IF handles[app][h] > 0 THEN [handles EXCEPT ![app][h] = @ - 1] ELSE handles
  <2>1. UNCHANGED <<running, dialogs, transactions, crashed>>
    BY <1>7 DEF close, others, queueVars
  <2>2. handles' = Invalidated({h}) \/ handles' = hs
    BY <1>7 DEF close, closeWallet, Shut, Remove
  <2>3. CASE handles' = hs
    <3>1. app \in App /\ handles \in [App -> [Handle -> Nat]]
      BY ClientAssumption DEF TypeOK
    <3>2. OnlyLivingGain
      BY <2>3, <3>1 DEF OnlyLivingGain
    <3> QED
      BY <1>0, <2>1, <3>2, StaysLiving
  <2> QED
    BY <1>3, <2>1, <2>2, <2>3
<1>8. ASSUME NEW c \in Client, Start(c) PROVE Living'
  <2>1. OnlyLivingGain
    BY <1>8, GainByLoss DEF Start, walletVars
  <2> QED
    BY <1>0, <1>8, <2>1, StaysLiving DEF Start, queueVars
<1>9. ASSUME NEW c \in Client, Leave(c) PROVE Living'
  <2>1. /\ running' = running \ {c} /\ UNCHANGED <<dialogs, transactions, crashed>>
        /\ \A x \in Pending : x.client # c
    BY <1>9 DEF Leave, queueVars
  <2>2. Asking(dialogs, transactions)'
    BY <1>0, <2>1 DEF Asking, Pending
  <2>3. CASE c \in Plain
    <3> DEFINE gone == NameOf[c]
    <3>1. gone \in App
      BY ClientAssumption
    <3>2. PICK H : handles' = [Invalidated(H) EXCEPT ![gone] = [h \in Handle |-> 0]]
      BY <1>9, <2>3 DEF Leave, AppUnregistered
    <3>3. \A h \in Handle : handles'[gone][h] = 0
      BY <3>1, <3>2 DEF Invalidated
    <3>4. \A app \in App : app # gone =>
            \A h \in Handle : handles'[app][h] > 0 => handles[app][h] > 0
      BY <3>1, <3>2 DEF Invalidated
    <3>5. ASSUME NEW app \in App, ~crashed', \A d \in Client : NameOf[d] = app => d \in Plain,
                 NEW h \in Handle, handles'[app][h] > 0
          PROVE  \E d \in running' : NameOf[d] = app
      <4>1. app # gone /\ handles[app][h] > 0
        BY <3>3, <3>4, <3>5
      <4>2. \E d \in running : NameOf[d] = app
        BY <2>1, <3>5, <4>1 DEF Living, OnlyTheLivingHold
      <4> QED
        BY <2>1, <4>1, <4>2
    <3> QED
      BY <2>2, <3>5 DEF Living, OnlyTheLivingHold
  <2>4. CASE c \notin Plain
    <3>1. handles' = handles
      BY <1>9, <2>4 DEF Leave, walletVars
    <3>2. ASSUME NEW app \in App, ~crashed', \A d \in Client : NameOf[d] = app => d \in Plain,
                 NEW h \in Handle, handles'[app][h] > 0
          PROVE  \E d \in running' : NameOf[d] = app
      <4>1. \E d \in running : NameOf[d] = app
        BY <2>1, <3>1, <3>2 DEF Living, OnlyTheLivingHold
      <4> QED
        BY <2>1, <2>4, <3>2, <4>1
    <3> QED
      BY <2>2, <3>2 DEF Living, OnlyTheLivingHold
  <2> QED
    BY <2>3, <2>4
<1>10. ASSUME processTransactions PROVE Living'
  BY <1>3, <1>10 DEF processTransactions, walletVars
<1>11. ASSUME ProcessNext PROVE Living'
  <2>1. \A i \in DOMAIN dialogs : dialogs[i].for # "transaction"
    BY <1>11 DEF ProcessNext, ShownFor
  <2>2. UNCHANGED <<running, crashed>>
    BY <1>11 DEF ProcessNext
  <2>3. CASE UNCHANGED <<walletVars, given, transactions, dialogs>>
    BY <1>3, <2>2, <2>3 DEF walletVars
  <2>4. CASE transactions # << >>
    <3> DEFINE x == Head(transactions)
    <3>1. x \in Transaction /\ x = transactions[1] /\ 1 \in DOMAIN transactions
          /\ transactions \in Seq(Transaction)
      BY <2>4, HeadTailProperties, EmptySeq DEF TypeOK
    <3>2. x.client \in Client /\ x.wallet \in Wallet /\ x.client \in running
      BY <1>0, <3>1 DEF Transaction, Asking
    <3>3. Calls("transaction", dialogs)
      BY <2>1, <2>4 DEF Calls, TypeOK
    <3>4. CASE transactions' = Tail(transactions) /\ UNCHANGED <<walletVars, given, dialogs>>
      <4>1. \A k \in DOMAIN Tail(transactions) : Tail(transactions)[k].client \in running
        BY <1>0, <2>4, <3>1, TailAsks DEF Asking
      <4>2. Asking(dialogs', transactions')
        BY <1>0, <3>4, <4>1 DEF Asking
      <4> QED
        BY <2>2, <3>4, <4>2, GainByLoss, StaysLiving DEF walletVars
    <3>5. CASE internalOpen("transaction", x.client, x.wallet)
      <4>1. OnlyLivingGain /\ Asking(dialogs', transactions')
        BY <3>2, <3>3, <3>5, internalOpenLives
      <4> QED
        BY <2>2, <4>1, StaysLiving
    <3>6. CASE \E h \in OpenAs(x.wallet) : Shows("transaction", "newPassword", x.client, x.wallet, h)
      <4>1. Asking(dialogs', transactions') /\ handles' = handles
        BY <3>2, <3>6, ShowsAsks DEF OpenAs
      <4> QED
        BY <2>2, <4>1, GainByLoss, StaysLiving
    <3> QED
      BY <1>11, <2>4, <3>4, <3>5, <3>6 DEF ProcessNext
  <2> QED
    BY <1>11, <2>3, <2>4 DEF ProcessNext
<1>12. ASSUME Refuse PROVE Living'
  <2>1. dialogs # << >> /\ TopReturns(0) /\ UNCHANGED <<running, handles, crashed>>
    BY <1>12 DEF Refuse, Answers, walletVars
  <2>2. Asking(dialogs', transactions')
    BY <2>1, AnswerLives
  <2> QED
    BY <2>1, <2>2, GainByLoss, StaysLiving
<1>13. ASSUME Accept PROVE Living'
  <2>1. dialogs # << >> /\ Insert(NameOf[Top.client], Top.wallet) /\ TopReturns(given + 1)
        /\ UNCHANGED <<running, crashed>>
    BY <1>13 DEF Accept, Answers
  <2>2. Top.client \in running /\ Top.client \in Client
    BY <2>1, BelowIsPart, PendingIsAsking DEF Top, Dialog
  <2>3. OnlyLivingGain /\ given + 1 \in Handle
    BY <2>1, <2>2, InsertedHandle
  <2>4. Asking(dialogs', transactions')
    BY <2>1, <2>3, AnswerLives
  <2> QED
    BY <2>1, <2>3, <2>4, StaysLiving
<1>14. ASSUME Authorize PROVE Living'
  <2>1. dialogs # << >> /\ running' = running /\ (crashed' = FALSE => crashed = FALSE)
        /\ handles' = [handles EXCEPT ![NameOf[Top.client]][Top.h] = @ + 1]
    BY <1>14 DEF Authorize, Answers, AddReference
  <2>2. Top.client \in running /\ Top.client \in Client /\ Top.h \in Handle
    BY <1>14, <2>1, BelowIsPart, PendingIsAsking DEF Top, Dialog, Authorize
  <2>3. OnlyLivingGain
    BY <2>1, <2>2, GainByInsert
  <2>4. Asking(dialogs', transactions')
    <3>1. CASE TopReturns(Top.h)
      BY <2>1, <2>2, <3>1, AnswerLives
    <3>2. CASE UNCHANGED <<dialogs, transactions>>
      BY <1>0, <3>2
    <3> QED
      BY <1>14, <3>1, <3>2 DEF Authorize
  <2> QED
    BY <2>1, <2>3, <2>4, StaysLiving
<1>15. ASSUME KeepPassword \/ NewPassword PROVE Living'
  <2>1. Answers("newPassword") /\ dialogs # << >> /\ running' = running
        /\ (crashed' = FALSE => crashed = FALSE)
    BY <1>15 DEF KeepPassword, NewPassword, Answers, ChangeEnds
  <2>2. Part(Below) /\ Top.for = "transaction" /\ Calls("transaction", Below)
    BY <2>1, BelowIsPart, TopCalls DEF Answers, Shown, Top
  <2>3. \/ \E reclose, known : ChangeEnds(reclose, known)
        \/ UNCHANGED <<handles, dialogs, transactions>>
    BY <1>15 DEF KeepPassword, NewPassword
  <2>4. CASE \E reclose, known : ChangeEnds(reclose, known)
    <3>1. dialogs' = Below /\ transactions' = Tail(transactions)
          /\ (handles' = handles \/ \E H : handles' = Invalidated(H))
      BY <2>4 DEF ChangeEnds, Remove
    <3>2. transactions \in Seq(Transaction) /\ transactions # << >>
      BY <2>2 DEF Calls, TypeOK
    <3>3. \A k \in DOMAIN Tail(transactions) : Tail(transactions)[k].client \in running
      BY <1>0, <3>2, TailAsks DEF Asking
    <3>4. Asking(dialogs', transactions')
      BY <2>2, <3>1, <3>3, PartAsks DEF Asking
    <3>5. OnlyLivingGain
      BY <3>1, GainByLoss
    <3> QED
      BY <2>1, <3>4, <3>5, StaysLiving
  <2>5. CASE UNCHANGED <<handles, dialogs, transactions>>
    BY <1>0, <2>1, <2>5, GainByLoss, StaysLiving
  <2> QED
    BY <2>3, <2>4, <2>5
<1>16. ASSUME closeAllWallets PROVE Living'
  BY <1>3, <1>16 DEF closeAllWallets, Remove, others, queueVars
<1>17. ASSUME NEW h \in Handle, timedOut(h) PROVE Living'
  BY <1>3, <1>17 DEF timedOut, closeWallet, Shut, Remove, others, queueVars
<1>18. ASSUME NEW new \in Settings, reconfigure(new) PROVE Living'
  BY <1>3, <1>18 DEF reconfigure, queueVars
<1>19. CASE UNCHANGED vars
  BY <1>3, <1>19 DEF vars, walletVars, queueVars
<1> QED
  BY <1>1, <1>2, <1>4, <1>5, <1>6, <1>7, <1>8, <1>9, <1>10, <1>11, <1>12, <1>13, <1>14,
     <1>15, <1>16, <1>17, <1>18, <1>19 DEF Next

\* If no client exits while its request waits, an application that is known by its full id
\* holds no handle after its last client is gone: slotAppUnregistered() finds all of them.
THEOREM WalletHolders ==
  ASSUME ~LeavesAsking
  PROVE  Spec => []OnlyTheLivingHold
<1>1. Init => Living
  BY DEF Init, Living, Asking, OnlyTheLivingHold
<1>2. TypeOK /\ TypeOK' /\ Shown /\ Living /\ [Next]_vars => Living'
  BY StepIsLiving
<1>3. Init => TypeOK /\ Shown
  BY InitTyped
<1>4. TypeOK /\ Shown /\ [Next]_vars => TypeOK' /\ Shown'
  BY StepTyped
<1>5. Living => OnlyTheLivingHold
  BY DEF Living
<1> QED
  BY <1>1, <1>2, <1>3, <1>4, <1>5, PTL DEF Spec

-----------------------------------------------------------------------------
(* References.  refCount() of a wallet is kept apart from the table of      *)
(* handles, which says how often each application holds each handle.  The   *)
(* invariant Books ties them together, handle by handle, and says that a    *)
(* handle not given yet is closed: opening a wallet under it starts from    *)
(* nothing.  What applications hold of a handle is counted as a set of      *)
(* pairs; one open adds a pair, one close takes one, and an application     *)
(* that leaves takes all of its pairs.                                      *)

\* What the tables o, r, t and hs say of handle h goes together.
Counts(o, r, t, hs, h) ==
  /\ IsFiniteSet(Holdings(hs, h))
  /\ r[h] = Cardinality(Holdings(hs, h)) + (IF h \in t THEN 1 ELSE 0)
  /\ o[h] = None => r[h] = 0

LEMMA InHoldings ==
  ASSUME NEW hs, NEW h, NEW p
  PROVE  p \in Holdings(hs, h) <=> \E app \in App : \E i \in 1 .. hs[app][h] : p = <<app, i>>
  BY DEF Holdings

LEMMA SameHoldings ==
  ASSUME NEW hs, NEW hs2, NEW h, \A app \in App : hs2[app][h] = hs[app][h]
  PROVE  Holdings(hs2, h) = Holdings(hs, h)
<1>1. \A app \in App : {app} \X (1 .. hs2[app][h]) = {app} \X (1 .. hs[app][h])
  OBVIOUS
<1> QED
  BY <1>1 DEF Holdings

\* One more.
LEMMA OneMoreHolding ==
  ASSUME NEW hs \in Held, NEW hs2 \in Held, NEW h \in Handle, NEW app \in App,
         hs2[app][h] = hs[app][h] + 1,
         \A a \in App : a # app => hs2[a][h] = hs[a][h]
  PROVE  /\ <<app, hs2[app][h]>> \notin Holdings(hs, h)
         /\ Holdings(hs2, h) = Holdings(hs, h) \union {<<app, hs2[app][h]>>}
<1>1. hs[app][h] \in Nat /\ hs2[app][h] \in Nat
  BY DEF Held
<1>2. \A i : i \in 1 .. hs2[app][h] <=> i \in 1 .. hs[app][h] \/ i = hs2[app][h]
  BY <1>1
<1>3. hs2[app][h] \notin 1 .. hs[app][h]
  BY <1>1
<1>4. <<app, hs2[app][h]>> \notin Holdings(hs, h)
  BY <1>3, InHoldings
<1>5. ASSUME NEW p, p \in Holdings(hs2, h)
      PROVE  p \in Holdings(hs, h) \/ p = <<app, hs2[app][h]>>
  <2>1. PICK a \in App : \E i \in 1 .. hs2[a][h] : p = <<a, i>>
    BY <1>5, InHoldings
  <2>2. PICK i \in 1 .. hs2[a][h] : p = <<a, i>>
    BY <2>1
  <2>3. CASE a # app
    BY <2>2, <2>3, InHoldings
  <2>4. CASE a = app
    BY <1>2, <2>2, <2>4, InHoldings
  <2> QED
    BY <2>3, <2>4
<1>6. ASSUME NEW p, p \in Holdings(hs, h) \/ p = <<app, hs2[app][h]>>
      PROVE  p \in Holdings(hs2, h)
  <2>1. CASE p = <<app, hs2[app][h]>>
    <3>1. hs2[app][h] \in 1 .. hs2[app][h]
      BY <1>2
    <3> QED
      BY <2>1, <3>1, InHoldings
  <2>2. CASE p \in Holdings(hs, h)
    <3>1. PICK a \in App : \E i \in 1 .. hs[a][h] : p = <<a, i>>
      BY <2>2, InHoldings
    <3>2. PICK i \in 1 .. hs[a][h] : p = <<a, i>>
      BY <3>1
    <3>3. i \in 1 .. hs2[a][h]
      BY <1>2, <3>2
    <3> QED
      BY <3>2, <3>3, InHoldings
  <2> QED
    BY <1>6, <2>1, <2>2
<1> QED
  BY <1>4, <1>5, <1>6

\* None of app any more.
LEMMA NoMoreHoldings ==
  ASSUME NEW hs \in Held, NEW hs2 \in Held, NEW h \in Handle, NEW app \in App,
         hs2[app][h] = 0, \A a \in App : a # app => hs2[a][h] = hs[a][h],
         IsFiniteSet(Holdings(hs, h))
  PROVE  /\ IsFiniteSet(Holdings(hs2, h))
         /\ Cardinality(Holdings(hs2, h)) \in Nat
         /\ Cardinality(Holdings(hs, h)) = Cardinality(Holdings(hs2, h)) + hs[app][h]
<1> DEFINE own == {app} \X (1 .. hs[app][h])
<1>1. hs[app][h] \in Nat
  BY DEF Held
<1>2. IsFiniteSet(own) /\ Cardinality(own) = hs[app][h]
  <2>1. IsFiniteSet({app}) /\ Cardinality({app}) = 1
    BY FS_Singleton
  <2>2. IsFiniteSet(1 .. hs[app][h]) /\ Cardinality(1 .. hs[app][h]) = hs[app][h]
    <3>1. ASSUME NEW n \in Nat PROVE IsFiniteSet(1 .. n) /\ Cardinality(1 .. n) = n
      <4>1. n \in Int /\ 1 \in Int /\ (IF 1 > n THEN 0 ELSE n - 1 + 1) = n
        OBVIOUS
      <4>2. IsFiniteSet(1 .. n) /\ Cardinality(1 .. n) = IF 1 > n THEN 0 ELSE n - 1 + 1
        BY <4>1, FS_Interval, Zenon
      <4> QED
        BY <4>1, <4>2
    <3> QED
      BY <1>1, <3>1
  <2>3. IsFiniteSet(own) /\ Cardinality(own) = Cardinality({app}) * Cardinality(1 .. hs[app][h])
    BY <2>1, <2>2, FS_Product
  <2> QED
    BY <1>1, <2>1, <2>2, <2>3
<1>3. \A i : i \notin 1 .. hs2[app][h]
  OBVIOUS
<1>4. ASSUME NEW p
      PROVE  p \in Holdings(hs, h) <=> p \in Holdings(hs2, h) \/ p \in own
  <2>1. p \in own <=> \E i \in 1 .. hs[app][h] : p = <<app, i>>
    OBVIOUS
  <2>2. ASSUME p \in Holdings(hs, h) PROVE p \in Holdings(hs2, h) \/ p \in own
    <3>1. PICK a \in App : \E i \in 1 .. hs[a][h] : p = <<a, i>>
      BY <2>2, InHoldings
    <3>2. CASE a = app
      BY <2>1, <3>1, <3>2
    <3>3. CASE a # app
      <4>1. 1 .. hs2[a][h] = 1 .. hs[a][h]
        BY <3>3
      <4> QED
        BY <3>1, <4>1, InHoldings, Zenon
    <3> QED
      BY <3>2, <3>3
  <2>3. ASSUME p \in Holdings(hs2, h) PROVE p \in Holdings(hs, h)
    <3>1. PICK a \in App : \E i \in 1 .. hs2[a][h] : p = <<a, i>>
      BY <2>3, InHoldings
    <3>2. a # app
      BY <1>3, <3>1
    <3> QED
      BY <3>1, <3>2, InHoldings
  <2>4. ASSUME p \in own PROVE p \in Holdings(hs, h)
    BY <2>1, <2>4, InHoldings
  <2> QED
    BY <2>2, <2>3, <2>4
<1>5. ASSUME NEW p, p \in Holdings(hs2, h), p \in own PROVE FALSE
  <2>0. PICK j \in 1 .. hs[app][h] : p = <<app, j>>
    BY <1>5
  <2>1. PICK a \in App : \E i \in 1 .. hs2[a][h] : p = <<a, i>>
    BY <1>5, InHoldings
  <2>2. PICK i \in 1 .. hs2[a][h] : p = <<a, i>>
    BY <2>1
  <2>3. a = app
    BY <2>0, <2>2
  <2> QED
    BY <1>3, <2>2, <2>3
<1> HIDE DEF own
<1>6. Holdings(hs2, h) \in SUBSET Holdings(hs, h)
  BY <1>4
<1>7. IsFiniteSet(Holdings(hs2, h))
  BY <1>6, FS_Subset
<1>8. Holdings(hs, h) = Holdings(hs2, h) \union own /\ Holdings(hs2, h) \cap own = {}
  BY <1>4, <1>5
<1>9. Cardinality(Holdings(hs, h)) = Cardinality(Holdings(hs2, h)) + Cardinality(own) - 0
  BY <1>2, <1>7, <1>8, FS_Union, FS_EmptySet
<1>10. Cardinality(Holdings(hs2, h)) \in Nat
  BY <1>7, FS_CardinalityType
<1> QED
  BY <1>1, <1>2, <1>7, <1>9, <1>10

\* A handle that nobody holds.
LEMMA NoHoldings ==
  ASSUME NEW hs \in Held, NEW h \in Handle, IsFiniteSet(Holdings(hs, h))
  PROVE  Cardinality(Holdings(hs, h)) = 0 <=> \A app \in App : hs[app][h] = 0
<1>1. \A app \in App : hs[app][h] \in Nat
  BY DEF Held
<1>2. \A app \in App : 1 \in 1 .. hs[app][h] <=> hs[app][h] # 0
  BY <1>1
<1>3. ASSUME Holdings(hs, h) = {}, NEW app \in App PROVE hs[app][h] = 0
  <2>1. <<app, 1>> \notin Holdings(hs, h)
    BY <1>3
  <2> QED
    BY <1>2, <2>1, InHoldings
<1>4. ASSUME \A app \in App : hs[app][h] = 0 PROVE Holdings(hs, h) = {}
  <2>1. \A app \in App : \A i : i \notin 1 .. hs[app][h]
    BY <1>4
  <2>2. \A p : p \notin Holdings(hs, h)
    BY <2>1, InHoldings, Zenon
  <2> QED
    BY <2>2
<1>5. Cardinality(Holdings(hs, h)) = 0 <=> Holdings(hs, h) = {}
  BY FS_EmptySet
<1> QED
  BY <1>3, <1>4, <1>5

LEMMA SameCounts ==
  ASSUME NEW o, NEW r, NEW t, NEW hs, NEW h, Counts(o, r, t, hs, h),
         NEW o2, NEW r2, NEW t2, NEW hs2,
         o2[h] = None => o[h] = None, r2[h] = r[h], h \in t2 <=> h \in t,
         \A app \in App : hs2[app][h] = hs[app][h]
  PROVE  Counts(o2, r2, t2, hs2, h)
<1>1. Holdings(hs2, h) = Holdings(hs, h)
  BY SameHoldings
<1> QED
  BY <1>1 DEF Counts

LEMMA ClosedCounts ==
  ASSUME NEW o, NEW r, NEW t, NEW hs \in Held, NEW h \in Handle,
         r[h] = 0, h \notin t, \A app \in App : hs[app][h] = 0
  PROVE  Counts(o, r, t, hs, h)
<1>1. \A app \in App : \A i : i \notin 1 .. hs[app][h]
  OBVIOUS
<1>2. \A p : p \notin Holdings(hs, h)
  BY <1>1, InHoldings, Zenon
<1>3. Holdings(hs, h) = {}
  BY <1>2
<1>4. IsFiniteSet(Holdings(hs, h)) /\ Cardinality(Holdings(hs, h)) = 0
  BY <1>3, FS_EmptySet
<1> QED
  BY <1>4 DEF Counts

\* From hs to hs2 the application holds h once more.
Gains(hs, hs2, app, h) ==
  hs2[app][h] = hs[app][h] + 1 /\ \A a \in App : a # app => hs2[a][h] = hs[a][h]

LEMMA OneMoreCounts ==
  ASSUME NEW o, NEW r, NEW t, NEW hs \in Held, NEW h \in Handle, Counts(o, r, t, hs, h),
         NEW o2, NEW r2, NEW t2, NEW hs2 \in Held, NEW app \in App,
         o2[h] # None, r2[h] = r[h] + 1, h \in t2 <=> h \in t,
         Gains(hs, hs2, app, h)
  PROVE  Counts(o2, r2, t2, hs2, h)
<1>1. /\ <<app, hs2[app][h]>> \notin Holdings(hs, h)
      /\ Holdings(hs2, h) = Holdings(hs, h) \union {<<app, hs2[app][h]>>}
  BY OneMoreHolding DEF Gains
<1>2. IsFiniteSet(Holdings(hs, h)) /\ Cardinality(Holdings(hs, h)) \in Nat
  BY FS_CardinalityType DEF Counts
<1> DEFINE S == Holdings(hs, h)
           p == <<app, hs2[app][h]>>
<1> HIDE DEF S, p
<1>3. IsFiniteSet(S) /\ p \notin S /\ Holdings(hs2, h) = S \union {p}
  BY <1>1, <1>2 DEF S, p
<1>4. IsFiniteSet(S \union {p}) /\ Cardinality(S \union {p}) = Cardinality(S) + 1
  BY <1>3, FS_AddElement
<1>5. /\ IsFiniteSet(Holdings(hs2, h))
      /\ Cardinality(Holdings(hs2, h)) = Cardinality(Holdings(hs, h)) + 1
  BY <1>3, <1>4 DEF S
<1> QED
  BY <1>2, <1>5 DEF Counts

LEMMA OneLessHolding ==
  ASSUME NEW hs \in Held, NEW hs2 \in Held, NEW h \in Handle, NEW app \in App,
         hs[app][h] = hs2[app][h] + 1, \A a \in App : a # app => hs2[a][h] = hs[a][h],
         IsFiniteSet(Holdings(hs, h))
  PROVE  /\ IsFiniteSet(Holdings(hs2, h))
         /\ Cardinality(Holdings(hs2, h)) \in Nat
         /\ Cardinality(Holdings(hs, h)) = Cardinality(Holdings(hs2, h)) + 1
<1>1. /\ <<app, hs[app][h]>> \notin Holdings(hs2, h)
      /\ Holdings(hs, h) = Holdings(hs2, h) \union {<<app, hs[app][h]>>}
  BY OneMoreHolding
<1>2. Holdings(hs2, h) \in SUBSET Holdings(hs, h)
  BY <1>1
<1>3. IsFiniteSet(Holdings(hs2, h))
  BY <1>2, FS_Subset
<1>4. Cardinality(Holdings(hs2, h)) \in Nat
  BY <1>3, FS_CardinalityType
<1> QED
  BY <1>1, <1>3, <1>4, FS_AddElement

Books ==
  \A h \in Handle :
    /\ Counts(open, refs, tried, handles, h)
    /\ h > given => open[h] = None

LEMMA SameBooks ==
  ASSUME Books, UNCHANGED <<open, refs, tried, handles, given>>
  PROVE  Books'
  BY DEF Books

\* A closed handle is not held by anyone.
LEMMA ClosedIsFree ==
  ASSUME TypeOK, Books, NEW h \in Handle, open[h] = None
  PROVE  refs[h] = 0 /\ h \notin tried /\ \A app \in App : handles[app][h] = 0
<1>1. handles \in Held
  BY DEF TypeOK, Held
<1>2. Counts(open, refs, tried, handles, h)
  BY DEF Books
<1>3. IsFiniteSet(Holdings(handles, h)) /\ Cardinality(Holdings(handles, h)) \in Nat
  BY <1>2, FS_CardinalityType DEF Counts
<1>4. refs[h] = 0 /\ h \notin tried /\ Cardinality(Holdings(handles, h)) = 0
  BY <1>2, <1>3 DEF Counts
<1> QED
  BY <1>1, <1>3, <1>4, NoHoldings

\* The handles of H leave the tables.
LEMMA ClearKeepsBooks ==
  ASSUME TypeOK, Books, NEW H \in SUBSET Handle, given' = given,
         open' = [h \in Handle |-> IF h \in H THEN None ELSE open[h]],
         refs' = [h \in Handle |-> IF h \in H THEN 0 ELSE refs[h]],
         tried' = tried \ H, handles' = Invalidated(H)
  PROVE  Books'
<1>1. handles' \in Held
  BY InvalidatedIsTyped
<1>2. \A app \in App, h \in Handle : handles'[app][h] = IF h \in H THEN 0 ELSE handles[app][h]
  BY DEF Invalidated
<1>3. \A h \in Handle : open'[h] = IF h \in H THEN None ELSE open[h]
  OBVIOUS
<1>4. \A h \in Handle : refs'[h] = IF h \in H THEN 0 ELSE refs[h]
  OBVIOUS
<1>5. ASSUME NEW h \in Handle PROVE Counts(open', refs', tried', handles', h)
  <2>1. CASE h \in H
    BY <1>1, <1>2, <1>4, <2>1, ClosedCounts
  <2>2. CASE h \notin H
    <3>1. Counts(open, refs, tried, handles, h)
      BY DEF Books
    <3>2. /\ open'[h] = open[h] /\ refs'[h] = refs[h] /\ (h \in tried' <=> h \in tried)
          /\ \A app \in App : handles'[app][h] = handles[app][h]
      BY <1>2, <1>3, <1>4, <2>2
    <3> QED
      BY <3>1, <3>2, SameCounts
  <2> QED
    BY <2>1, <2>2
<1> QED
  BY <1>3, <1>5 DEF Books

LEMMA InsertKeepsBooks ==
  ASSUME TypeOK, Books, NEW c \in Client, NEW w \in Wallet, Insert(NameOf[c], w)
  PROVE  Books'
<1> DEFINE n == given + 1
<1>1. n \in Handle /\ handles \in Held /\ handles' \in Held /\ NameOf[c] \in App
  BY InsertIsTyped, ClientAssumption DEF WalletsTyped, TypeOK, Held
<1>2. given \in Nat /\ \A h \in Handle : h \in Nat
  BY BoundAssumption DEF TypeOK, Handle
<1>3. /\ open' = [open EXCEPT ![n] = w] /\ refs' = [refs EXCEPT ![n] = 1]
      /\ handles' = [handles EXCEPT ![NameOf[c]][n] = @ + 1] /\ tried' = tried /\ given' = n
  BY DEF Insert, Enter
<1>4. n > given
  BY <1>2
<1> HIDE DEF n, Handle
<1>5. open[n] = None
  BY <1>1, <1>4 DEF Books
<1>6. ASSUME NEW h \in Handle PROVE Counts(open', refs', tried', handles', h)
  <2>0. Counts(open, refs, tried, handles, h)
    BY DEF Books
  <2>1. CASE h = n
    <3>1. refs[h] = 0
      BY <1>5, <2>1, ClosedIsFree
    <3>2. open'[h] = w /\ refs'[h] = 1
      BY <1>1, <1>3, <2>1 DEF TypeOK
    <3>3. open'[h] # None /\ refs'[h] = refs[h] + 1
      BY <3>1, <3>2, WalletAssumption
    <3>4. Gains(handles, handles', NameOf[c], h)
      BY <1>1, <1>3, <2>1 DEF Held, Gains
    <3>5. h \in tried' <=> h \in tried
      BY <1>3
    <3> QED
      BY <1>1, <2>0, <3>3, <3>4, <3>5, OneMoreCounts, Zenon
  <2>2. CASE h # n
    <3>1. (open'[h] = None => open[h] = None) /\ refs'[h] = refs[h]
      BY <1>3, <2>2 DEF TypeOK
    <3>2. \A app \in App : handles'[app][h] = handles[app][h]
      BY <1>1, <1>3, <2>2 DEF Held
    <3>5. h \in tried' <=> h \in tried
      BY <1>3
    <3> QED
      BY <2>0, <3>1, <3>2, <3>5, SameCounts
  <2> QED
    BY <2>1, <2>2
<1>7. ASSUME NEW h \in Handle, h > given' PROVE open'[h] = None
  <2>1. h # n /\ h > given
    BY <1>2, <1>3, <1>7 DEF n
  <2> QED
    BY <1>3, <2>1 DEF Books, TypeOK
<1> QED
  BY <1>6, <1>7 DEF Books

LEMMA TryKeepsBooks ==
  ASSUME TypeOK, Books, NEW c, NEW w \in Wallet, tryOpen(c, w)
  PROVE  Books'
<1> DEFINE n == given + 1
<1>1. n \in Handle /\ handles \in Held
  BY BoundAssumption DEF TypeOK, tryOpen, Enter, Handle, Held
<1>2. given \in Nat /\ \A h \in Handle : h \in Nat
  BY BoundAssumption DEF TypeOK, Handle
<1>3. /\ open' = [open EXCEPT ![n] = w] /\ refs' = [refs EXCEPT ![n] = 1]
      /\ handles' = handles /\ tried' = tried \union {n} /\ given' = n
  BY DEF tryOpen, Enter
<1>4. n > given
  BY <1>2
<1> HIDE DEF n, Handle
<1>5. open[n] = None
  BY <1>1, <1>4 DEF Books
<1>6. ASSUME NEW h \in Handle PROVE Counts(open', refs', tried', handles', h)
  <2>0. Counts(open, refs, tried, handles, h)
    BY DEF Books
  <2>1. CASE h = n
    <3>1. \A app \in App : handles[app][h] = 0
      BY <1>5, <2>1, ClosedIsFree
    <3>2. IsFiniteSet(Holdings(handles, h))
      BY <2>0 DEF Counts
    <3>3. Cardinality(Holdings(handles, h)) = 0
      BY <1>1, <3>1, <3>2, NoHoldings
    <3>4. open'[h] = w /\ refs'[h] = 1 /\ h \in tried'
      BY <1>1, <1>3, <2>1 DEF TypeOK
    <3> QED
      BY <1>3, <3>2, <3>3, <3>4, WalletAssumption DEF Counts
  <2>2. CASE h # n
    <3>1. (open'[h] = None => open[h] = None) /\ refs'[h] = refs[h]
      BY <1>3, <2>2 DEF TypeOK
    <3>5. (h \in tried' <=> h \in tried) /\ \A app \in App : handles'[app][h] = handles[app][h]
      BY <1>3, <2>2
    <3> QED
      BY <2>0, <3>1, <3>5, SameCounts
  <2> QED
    BY <2>1, <2>2
<1>7. ASSUME NEW h \in Handle, h > given' PROVE open'[h] = None
  <2>1. h # n /\ h > given
    BY <1>2, <1>3, <1>7 DEF n
  <2> QED
    BY <1>3, <2>1 DEF Books, TypeOK
<1> QED
  BY <1>6, <1>7 DEF Books

LEMMA AddReferenceKeepsBooks ==
  ASSUME TypeOK, Books, NEW c \in Client, NEW g \in Handle, open[g] # None,
         AddReference(NameOf[c], g)
  PROVE  Books'
<1>1. handles \in Held /\ handles' \in Held /\ NameOf[c] \in App
  BY AddReferenceIsTyped, ClientAssumption DEF WalletsTyped, TypeOK, Held
<1>2. /\ refs' = [refs EXCEPT ![g] = @ + 1] /\ UNCHANGED <<open, tried, given>>
      /\ handles' = [handles EXCEPT ![NameOf[c]][g] = @ + 1]
  BY DEF AddReference
<1> HIDE DEF Handle
<1>3. ASSUME NEW h \in Handle PROVE Counts(open', refs', tried', handles', h)
  <2>0. Counts(open, refs, tried, handles, h)
    BY DEF Books
  <2>1. CASE h = g
    <3>1. open'[h] # None /\ refs'[h] = refs[h] + 1
      BY <1>2, <2>1 DEF TypeOK
    <3>2. Gains(handles, handles', NameOf[c], h)
      BY <1>1, <1>2, <2>1 DEF Held, Gains
    <3>5. h \in tried' <=> h \in tried
      BY <1>2
    <3> QED
      BY <1>1, <2>0, <3>1, <3>2, <3>5, OneMoreCounts, Zenon
  <2>2. CASE h # g
    <3>1. (open'[h] = None => open[h] = None) /\ refs'[h] = refs[h]
      BY <1>2, <2>2 DEF TypeOK
    <3>2. \A app \in App : handles'[app][h] = handles[app][h]
      BY <1>1, <1>2, <2>2 DEF Held
    <3>5. h \in tried' <=> h \in tried
      BY <1>2
    <3> QED
      BY <2>0, <3>1, <3>2, <3>5, SameCounts
  <2> QED
    BY <2>1, <2>2
<1> QED
  BY <1>2, <1>3 DEF Books

LEMMA internalOpenKeepsBooks ==
  ASSUME TypeOK, Books, NEW for, NEW c \in Client, NEW w \in Wallet, internalOpen(for, c, w)
  PROVE  Books'
<1>1. CASE Insert(NameOf[c], w)
  BY <1>1, InsertKeepsBooks
<1>2. CASE UNCHANGED <<walletVars, given>>
  BY <1>2, SameBooks DEF walletVars
<1>3. ASSUME NEW h \in OpenAs(w), AddReference(NameOf[c], h) PROVE Books'
  <2>1. h \in Handle /\ open[h] # None
    BY <1>3, WalletAssumption DEF OpenAs
  <2> QED
    BY <1>3, <2>1, AddReferenceKeepsBooks
<1> QED
  BY <1>1, <1>2, <1>3 DEF internalOpen, Shows

LEMMA OneLessCounts ==
  ASSUME NEW o, NEW r, NEW t, NEW hs \in Held, NEW h \in Handle, Counts(o, r, t, hs, h),
         NEW o2, NEW r2, NEW t2, NEW hs2 \in Held, NEW app \in App,
         Gains(hs2, hs, app, h), r2[h] = r[h] - 1, h \in t2 <=> h \in t,
         o2[h] = None => r2[h] = 0
  PROVE  Counts(o2, r2, t2, hs2, h)
<1>1. /\ IsFiniteSet(Holdings(hs2, h))
      /\ Cardinality(Holdings(hs2, h)) \in Nat
      /\ Cardinality(Holdings(hs, h)) = Cardinality(Holdings(hs2, h)) + 1
  BY OneLessHolding DEF Counts, Gains
<1> QED
  BY <1>1 DEF Counts

\* An application's share of a handle; the last one.
LEMMA ShareCounts ==
  ASSUME NEW o, NEW r, NEW t, NEW hs \in Held, NEW h \in Handle, Counts(o, r, t, hs, h),
         NEW app \in App
  PROVE  /\ hs[app][h] \in Nat /\ r[h] >= hs[app][h]
         /\ r[h] = hs[app][h] => h \notin t /\ \A a \in App : a # app => hs[a][h] = 0
<1> DEFINE hs2 == [hs EXCEPT ![app][h] = 0]
<1>1. hs2 \in Held /\ hs2[app][h] = 0 /\ \A a \in App : a # app => hs2[a][h] = hs[a][h]
  BY DEF Held
<1>2. hs[app][h] \in Nat
  BY DEF Held
<1> HIDE DEF hs2
<1>3. /\ IsFiniteSet(Holdings(hs2, h))
      /\ Cardinality(Holdings(hs2, h)) \in Nat
      /\ Cardinality(Holdings(hs, h)) = Cardinality(Holdings(hs2, h)) + hs[app][h]
  BY <1>1, NoMoreHoldings DEF Counts
<1>4. r[h] = Cardinality(Holdings(hs2, h)) + hs[app][h] + (IF h \in t THEN 1 ELSE 0)
  BY <1>2, <1>3 DEF Counts
<1>5. ASSUME r[h] = hs[app][h] PROVE h \notin t /\ Cardinality(Holdings(hs2, h)) = 0
  BY <1>2, <1>3, <1>4, <1>5
<1>6. Cardinality(Holdings(hs2, h)) = 0 => \A a \in App : hs2[a][h] = 0
  BY <1>1, <1>3, NoHoldings
<1>7. r[h] >= hs[app][h]
  BY <1>2, <1>3, <1>4
<1> QED
  BY <1>1, <1>2, <1>5, <1>6, <1>7

LEMMA GiveBackKeepsBooks ==
  ASSUME TypeOK, Books, NEW g \in Handle, NEW app \in App, handles' \in Held,
         given' = given, open' \in Tables, refs' \in [Handle -> Int],
         Gains(handles', handles, app, g), refs'[g] = refs[g] - 1,
         \A h \in Handle : h # g => /\ open'[h] = open[h] /\ refs'[h] = refs[h]
                                    /\ h \in tried' <=> h \in tried
                                    /\ \A a \in App : handles'[a][h] = handles[a][h],
         \/ open'[g] = open[g] /\ (g \in tried' <=> g \in tried) /\ open[g] # None
         \/ open'[g] = None /\ refs[g] = 1 /\ g \notin tried'
  PROVE  Books'
<1>1. handles \in Held
  BY DEF TypeOK, Held
<1> HIDE DEF Handle
<1>2. ASSUME NEW h \in Handle PROVE Counts(open', refs', tried', handles', h)
  <2>0. Counts(open, refs, tried, handles, h)
    BY DEF Books
  <2>1. CASE h = g
    <3>1. handles'[app][g] \in Nat /\ handles[app][g] = handles'[app][g] + 1
      BY DEF Gains, Held
    <3>2. refs[g] >= handles[app][g] /\ (refs[g] = handles[app][g] => g \notin tried)
      BY <1>1, <2>0, <2>1, ShareCounts
    <3>3. refs[g] = 1 => g \notin tried
      BY <3>1, <3>2
    <3>4. refs'[h] = refs[h] - 1 /\ (h \in tried' <=> h \in tried)
      BY <2>1, <3>3
    <3>5. open'[h] = None => refs'[h] = 0
      BY <2>1
    <3>6. Gains(handles', handles, app, h)
      BY <2>1
    <3> QED
      BY <1>1, <2>0, <3>4, <3>5, <3>6, OneLessCounts, Zenon
  <2>2. CASE h # g
    <3>1. /\ open'[h] = open[h] /\ refs'[h] = refs[h] /\ (h \in tried' <=> h \in tried)
          /\ \A a \in App : handles'[a][h] = handles[a][h]
      BY <2>2
    <3>2. open'[h] = None => open[h] = None
      BY <3>1
    <3> QED
      BY <2>0, <3>1, <3>2, SameCounts
  <2> QED
    BY <2>1, <2>2
<1>3. ASSUME NEW h \in Handle, h > given' PROVE open'[h] = None
  BY <1>3 DEF Books
<1> QED
  BY <1>2, <1>3 DEF Books

LEMMA closeKeepsBooks ==
  ASSUME TypeOK, Books, ~LeaveOpen, NEW c \in Client, NEW g \in Handle, NEW force \in BOOLEAN,
         close(c, g, force)
  PROVE  Books'
<1> DEFINE app == NameOf[c]
           hs == [handles EXCEPT ![app][g] = @ - 1]
<1>0. app \in App /\ handles \in Held /\ given' = given /\ open[g] # None
  BY ClientAssumption DEF TypeOK, Held, close, others
<1>1. CASE force
  <2>1. closeWallet({g})
    BY <1>1 DEF close
  <2> QED
    BY <1>0, <2>1, ClearKeepsBooks DEF closeWallet, Shut, Remove
<1>2. CASE ~force /\ ~(handles[app][g] > 0)
  <2>1. handles' = handles /\ refs' = [refs EXCEPT ![g] = refs[g]] /\ UNCHANGED <<open, tried>>
    BY <1>2 DEF close
  <2>2. refs' = refs
    BY <2>1 DEF TypeOK
  <2> QED
    BY <1>0, <2>1, <2>2, SameBooks
<1>3. CASE ~force /\ handles[app][g] > 0
  <2> HIDE DEF Handle
  <2>1. hs \in Held /\ Gains(hs, handles, app, g)
        /\ \A h \in Handle : h # g => \A a \in App : hs[a][h] = handles[a][h]
    <3>1. handles[app][g] - 1 \in Nat /\ handles[app] \in [Handle -> Nat]
      BY <1>0, <1>3 DEF Held
    <3> QED
      BY <1>0, <3>1 DEF Held, Gains
  <2>2. refs[g] \in Int
    BY DEF TypeOK
  <2>3. CASE refs[g] - 1 = 0
    <3>1. Shut({g}, hs)
      BY <1>3, <2>3 DEF close
    <3>2. /\ open' = [h \in Handle |-> IF h \in {g} THEN None ELSE open[h]]
          /\ refs' = [h \in Handle |-> IF h \in {g} THEN 0 ELSE refs[h]]
          /\ tried' = tried \ {g} /\ handles' = hs
      BY <3>1 DEF Shut, Remove
    <3> HIDE DEF hs
    <3>3. /\ open' \in Tables /\ refs' \in [Handle -> Int] /\ open'[g] = None /\ refs'[g] = 0
          /\ \A h \in Handle : h # g => open'[h] = open[h] /\ refs'[h] = refs[h]
                                        /\ (h \in tried' <=> h \in tried)
      BY <3>2 DEF TypeOK, Tables
    <3>4. refs[g] = 1 /\ refs'[g] = refs[g] - 1 /\ g \notin tried'
      BY <2>2, <2>3, <3>2, <3>3
    <3>5. handles' \in Held /\ Gains(handles', handles, app, g)
          /\ \A h \in Handle : h # g => \A a \in App : handles'[a][h] = handles[a][h]
      BY <2>1, <3>2
    <3> QED
      BY <1>0, <3>3, <3>4, <3>5, GiveBackKeepsBooks
  <2>4. CASE refs[g] - 1 # 0
    <3>1. handles' = hs /\ refs' = [refs EXCEPT ![g] = refs[g] - 1] /\ UNCHANGED <<open, tried>>
      BY <1>3, <2>4 DEF close
    <3> HIDE DEF hs
    <3>2. /\ refs' \in [Handle -> Int] /\ refs'[g] = refs[g] - 1
          /\ \A h \in Handle : h # g => refs'[h] = refs[h]
      BY <3>1, <2>2 DEF TypeOK
    <3>3. open' \in Tables /\ open'[g] # None
          /\ \A h \in Handle : open'[h] = open[h] /\ (h \in tried' <=> h \in tried)
      BY <1>0, <3>1 DEF TypeOK, Tables
    <3>5. handles' \in Held /\ Gains(handles', handles, app, g)
          /\ \A h \in Handle : h # g => \A a \in App : handles'[a][h] = handles[a][h]
      BY <2>1, <3>1
    <3> QED
      BY <1>0, <3>2, <3>3, <3>5, GiveBackKeepsBooks
  <2> QED
    BY <2>3, <2>4
<1> QED
  BY <1>1, <1>2, <1>3

LEMMA disconnectKeepsBooks ==
  ASSUME TypeOK, Books, ~DisconnectsAny, NEW c \in Client, NEW w \in Wallet, NEW app \in App,
         disconnectApplication(c, w, app)
  PROVE  Books'
<1>0. given' = given /\ handles \in Held
  BY DEF disconnectApplication, others, TypeOK, Held
<1>1. PICK g \in OpenAs(w) :
        /\ handles[app][g] = 1
        /\ IF refs[g] = 1 THEN closeWallet({g})
           ELSE /\ handles' = [handles EXCEPT ![app][g] = 0]
                /\ refs' = [refs EXCEPT ![g] = @ - 1]
                /\ UNCHANGED <<open, tried, passwords, timers>>
  BY DEF disconnectApplication
<1>2. g \in Handle /\ open[g] # None
  BY WalletAssumption DEF OpenAs
<1> HIDE DEF Handle
<1>3. CASE closeWallet({g})
  BY <1>0, <1>2, <1>3, ClearKeepsBooks DEF closeWallet, Shut, Remove
<1>4. CASE /\ handles' = [handles EXCEPT ![app][g] = 0]
           /\ refs' = [refs EXCEPT ![g] = @ - 1]
           /\ UNCHANGED <<open, tried, passwords, timers>>
  <2>1. handles' \in Held /\ Gains(handles', handles, app, g)
        /\ \A h \in Handle : h # g => \A a \in App : handles'[a][h] = handles[a][h]
    <3>1. handles[app] \in [Handle -> Nat] /\ 0 \in Nat
      BY <1>0 DEF Held
    <3> QED
      BY <1>0, <1>1, <1>2, <1>4, <3>1 DEF Held, Gains
  <2>2. refs[g] \in Int
    BY <1>2 DEF TypeOK
  <2>3. /\ refs' \in [Handle -> Int] /\ refs'[g] = refs[g] - 1
        /\ \A h \in Handle : h # g => refs'[h] = refs[h]
    BY <1>2, <1>4, <2>2 DEF TypeOK
  <2>4. open' \in Tables /\ open'[g] # None
        /\ \A h \in Handle : open'[h] = open[h] /\ (h \in tried' <=> h \in tried)
    BY <1>2, <1>4 DEF TypeOK, Tables
  <2> QED
    BY <1>0, <1>2, <2>1, <2>3, <2>4, GiveBackKeepsBooks
<1> QED
  BY <1>1, <1>3, <1>4

LEMMA AppUnregisteredKeepsBooks ==
  ASSUME TypeOK, Books, ~LeaveOpen, NEW app \in App, AppUnregistered(app), given' = given
  PROVE  Books'
<1> DEFINE held == {h \in Handle : handles[app][h] > 0}
           last == {h \in held : refs[h] \in 1 .. handles[app][h]}
<1>0. handles \in Held /\ Invalidated(last) \in Held
  BY InvalidatedIsTyped DEF TypeOK, Held
<1>1. \A h \in held : open[h] # None
  BY <1>0, ClosedIsFree
<1>2. {h \in held : open[h] # None} = held
  BY <1>1
<1>3. /\ open' = [h \in Handle |-> IF h \in last THEN None ELSE open[h]]
      /\ refs' = [h \in Handle |-> IF h \in last THEN 0
                                   ELSE IF h \in held THEN refs[h] - handles[app][h] ELSE refs[h]]
      /\ tried' = tried \ last
      /\ handles' = [Invalidated(last) EXCEPT ![app] = [h \in Handle |-> 0]]
  BY <1>2 DEF AppUnregistered
<1>4. handles' \in Held
  BY <1>0, <1>3 DEF Held
<1>5. \A a \in App, h \in Handle :
        handles'[a][h] = IF a = app \/ h \in last THEN 0 ELSE handles[a][h]
  <2>1. \A a \in App, h \in Handle : Invalidated(last)[a][h] = IF h \in last THEN 0 ELSE handles[a][h]
    BY DEF Invalidated
  <2> QED
    BY <1>0, <1>3, <2>1 DEF Held
<1>6. ASSUME NEW h \in Handle PROVE Counts(open', refs', tried', handles', h)
  <2>0. Counts(open, refs, tried, handles, h)
    BY DEF Books
  <2>1. CASE h \in last
    <3>1. refs'[h] = 0 /\ h \notin tried' /\ \A a \in App : handles'[a][h] = 0
      BY <1>3, <1>5, <2>1
    <3> QED
      BY <1>4, <3>1, ClosedCounts
  <2>2. CASE h \in held /\ h \notin last
    <3>1. open'[h] = open[h] /\ refs'[h] = refs[h] - handles[app][h] /\ (h \in tried' <=> h \in tried)
      BY <1>3, <2>2
    <3>2. handles'[app][h] = 0 /\ \A a \in App : a # app => handles'[a][h] = handles[a][h]
      BY <1>5, <2>2
    <3>3. /\ IsFiniteSet(Holdings(handles', h))
          /\ Cardinality(Holdings(handles', h)) \in Nat
          /\ Cardinality(Holdings(handles, h)) = Cardinality(Holdings(handles', h)) + handles[app][h]
      BY <1>0, <1>4, <2>0, <3>2, NoMoreHoldings DEF Counts
    <3>4. handles[app][h] \in Nat /\ open'[h] # None
      BY <1>0, <1>1, <2>2, <3>1 DEF Held
    <3> QED
      BY <2>0, <3>1, <3>3, <3>4 DEF Counts
  <2>3. CASE h \notin held
    <3>1. handles[app][h] = 0
      <4>1. handles[app][h] \in Nat
        BY <1>0 DEF Held
      <4> QED
        BY <2>3, <4>1
    <3>2. \A a \in App : handles'[a][h] = handles[a][h]
      BY <1>5, <2>3, <3>1
    <3>3. (open'[h] = None => open[h] = None) /\ refs'[h] = refs[h] /\ (h \in tried' <=> h \in tried)
      BY <1>3, <2>3
    <3> QED
      BY <2>0, <3>2, <3>3, SameCounts
  <2> QED
    BY <2>1, <2>2, <2>3
<1>7. ASSUME NEW h \in Handle, h > given' PROVE open'[h] = None
  BY <1>3, <1>7 DEF Books
<1> QED
  BY <1>6, <1>7 DEF Books

Kept == ~crashed => Books

LEMMA StepKeepsBooks ==
  ASSUME TypeOK, Shown, Books, ~LeaveOpen, ~DisconnectsAny, ~crashed', [Next]_vars
  PROVE  Books'
<1>1. ASSUME NEW c \in Client, NEW w \in Wallet, OpenLater(c, w) \/ changePassword(c, w)
      PROVE  Books'
  BY <1>1, SameBooks DEF OpenLater, changePassword, walletVars
<1>2. ASSUME NEW c \in Client, NEW w \in Wallet, openPath(c, w) PROVE Books'
  BY <1>2, internalOpenKeepsBooks DEF openPath
<1>3. ASSUME NEW c \in Client, NEW w \in Wallet, tryOpen(c, w) PROVE Books'
  BY <1>3, TryKeepsBooks
<1>4. ASSUME NEW c \in Client, NEW w \in Wallet, NEW force \in BOOLEAN, closeByName(c, w, force)
      PROVE  Books'
  BY <1>4, ClearKeepsBooks DEF closeByName, others, closeWallet, Shut, Remove, OpenAs
<1>5. ASSUME NEW c \in Client, NEW w \in Wallet, NEW app \in App, disconnectApplication(c, w, app)
      PROVE  Books'
  BY <1>5, disconnectKeepsBooks
<1>6. ASSUME NEW c \in Client, NEW h \in Handle, NEW force \in BOOLEAN, close(c, h, force)
      PROVE  Books'
  BY <1>6, closeKeepsBooks
<1>7. ASSUME NEW c \in Client, Leave(c) \/ Start(c) PROVE Books'
  <2>1. CASE AppUnregistered(NameOf[c])
    <3>1. NameOf[c] \in App /\ given' = given
      BY <1>7, ClientAssumption DEF Leave, Start
    <3> QED
      BY <2>1, <3>1, AppUnregisteredKeepsBooks
  <2>2. CASE UNCHANGED walletVars
    BY <1>7, <2>2, SameBooks DEF Leave, Start, walletVars
  <2> QED
    BY <1>7, <2>1, <2>2 DEF Leave, Start
<1>8. ASSUME processTransactions PROVE Books'
  BY <1>8, SameBooks DEF processTransactions, walletVars
<1>9. ASSUME ProcessNext PROVE Books'
  <2>1. CASE UNCHANGED <<walletVars, given>>
    BY <2>1, SameBooks DEF walletVars
  <2>2. CASE /\ transactions # << >>
             /\ internalOpen("transaction", Head(transactions).client, Head(transactions).wallet)
    <3>1. Head(transactions).wallet \in Wallet /\ Head(transactions).client \in Client
      <4>1. Head(transactions) \in Transaction
        BY <2>2, HeadTailProperties DEF TypeOK
      <4> QED
        BY <4>1 DEF Transaction
    <3> QED
      BY <2>2, <3>1, internalOpenKeepsBooks
  <2> QED
    BY <1>9, <2>1, <2>2 DEF ProcessNext, Shows
<1>10. ASSUME Refuse PROVE Books'
  BY <1>10, SameBooks DEF Refuse, walletVars
<1>11. ASSUME Accept PROVE Books'
  <2>1. Top.wallet \in Wallet /\ Top.client \in Client
    BY <1>11, BelowIsPart DEF Accept, Answers, Dialog
  <2> QED
    BY <1>11, <2>1, InsertKeepsBooks DEF Accept
<1>12. ASSUME Authorize PROVE Books'
  <2>1. Top.client \in Client /\ Top.h \in Handle
    BY <1>12, BelowIsPart DEF Authorize, Answers, Dialog
  <2>2. open[Top.h] # None /\ AddReference(NameOf[Top.client], Top.h)
    BY <1>12 DEF Authorize
  <2> QED
    BY <2>1, <2>2, AddReferenceKeepsBooks
<1>13. ASSUME NEW reclose, NEW known, Answers("newPassword"), ChangeEnds(reclose, known), given' = given
       PROVE  Books'
  <2>1. Top.h \in Handle
    BY <1>13, BelowIsPart DEF Answers, Dialog, Shown, Top
  <2>2. CASE Remove({Top.h}, Invalidated({Top.h}))
    BY <1>13, <2>1, <2>2, ClearKeepsBooks DEF Remove
  <2>3. CASE UNCHANGED <<open, refs, tried, handles, timers>>
    BY <1>13, <2>3, SameBooks
  <2> QED
    BY <1>13, <2>2, <2>3 DEF ChangeEnds
<1>14. ASSUME KeepPassword \/ NewPassword PROVE Books'
  <2>1. Answers("newPassword") /\ given' = given
    BY <1>14 DEF KeepPassword, NewPassword
  <2>2. \E reclose, known : ChangeEnds(reclose, known)
    BY <1>14 DEF KeepPassword, NewPassword
  <2> QED
    BY <1>13, <2>1, <2>2
<1>15. ASSUME closeAllWallets PROVE Books'
  BY <1>15, ClearKeepsBooks DEF closeAllWallets, others, Opened, Remove
<1>16. ASSUME NEW h \in Handle, timedOut(h) PROVE Books'
  BY <1>16, ClearKeepsBooks DEF timedOut, others, closeWallet, Shut, Remove
<1>17. ASSUME NEW new \in Settings, reconfigure(new) PROVE Books'
  <2> DEFINE H == IF new.enabled THEN {} ELSE Opened
  <2>1. /\ open' = [h \in Handle |-> IF h \in H THEN None ELSE open[h]]
        /\ refs' = [h \in Handle |-> IF h \in H THEN 0 ELSE refs[h]]
        /\ tried' = tried \ H /\ handles' = Invalidated(H) /\ given' = given
    BY <1>17 DEF reconfigure
  <2>2. H \in SUBSET Handle
    BY DEF Opened
  <2> HIDE DEF H
  <2> QED
    BY <2>1, <2>2, ClearKeepsBooks
<1>18. CASE UNCHANGED vars
  BY <1>18, SameBooks DEF vars, walletVars
<1> QED
  BY <1>1, <1>2, <1>3, <1>4, <1>5, <1>6, <1>7, <1>8, <1>9, <1>10, <1>11, <1>12, <1>14,
     <1>15, <1>16, <1>17, <1>18 DEF Next

\* After a crash nothing runs, so that a state without one had none before.
LEMMA CrashedForGood ==
  ASSUME TypeOK, crashed, [Next]_vars
  PROVE  crashed'
  BY DEF Next, vars, OpenLater, changePassword, openPath, tryOpen, Ask, From, Hears, AtEventLoop,
         closeByName, disconnectApplication, close, Leave, Start, processTransactions,
         ProcessNext, Refuse, Accept, Authorize, KeepPassword, NewPassword, Answers,
         closeAllWallets, timedOut, reconfigure

\* Whatever is opened, shared, closed, timed out, disconnected and left behind, and
\* whichever dialog is answered meanwhile: a wallet's reference count is the number of
\* times applications hold its handle, and one for tryOpen(), and nobody holds a handle
\* of a closed wallet.  (With "Leave Open", and when an application that holds a handle
\* twice is disconnected, the code itself breaks this.)
THEOREM WalletReferences ==
  ASSUME ~LeaveOpen, ~DisconnectsAny
  PROVE  Spec => []RefsAreHandles
<1>1. Init => Kept
  <2>1. ASSUME Init, NEW h \in Handle
        PROVE  Counts(open, refs, tried, handles, h) /\ (h > given => open[h] = None)
    <3>1. /\ refs[h] = 0 /\ h \notin tried /\ open[h] = None
          /\ handles \in Held /\ \A app \in App : handles[app][h] = 0
      BY <2>1 DEF Init, Held
    <3> QED
      BY <3>1, ClosedCounts
  <2> QED
    BY <2>1 DEF Kept, Books
<1>2. TypeOK /\ Shown /\ Kept /\ [Next]_vars => Kept'
  BY StepKeepsBooks, CrashedForGood DEF Kept, TypeOK
<1>3. Init => TypeOK /\ Shown
  BY InitTyped
<1>4. TypeOK /\ Shown /\ [Next]_vars => TypeOK' /\ Shown'
  BY StepTyped
<1>5. Kept => RefsAreHandles
  BY DEF Kept, Books, Counts, RefsAreHandles
<1> QED
  BY <1>1, <1>2, <1>3, <1>4, <1>5, PTL DEF Spec
=============================================================================
