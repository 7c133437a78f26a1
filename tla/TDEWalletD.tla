----------------------------- MODULE TDEWalletD -----------------------------
(***************************************************************************)
(* The wallet daemon (tdeio/misc/tdewalletd/tdewalletd.cpp), a module of   *)
(* kded: which wallets are open, under which handle, for which             *)
(* applications, and the requests that wait while a dialog asks the user.  *)
(*                                                                         *)
(* A dialog runs the event loop, so that every other operation may come    *)
(* while it is shown; openPath() may even show a dialog over another.      *)
(* While openPath() shows its dialog, DCOP messages wait (they have        *)
(* another key than the call it handles) and only timers go off.           *)
(*                                                                         *)
(* Left out: what is in a wallet, the lists of applications that are       *)
(* always allowed or denied (either may be the case), the first-use        *)
(* wizard, message boxes, and the throttles for clients that fail again    *)
(* and again.                                                              *)
(***************************************************************************)
EXTENDS Integers, Sequences, FiniteSets

CONSTANTS
  Client,          \* DCOP clients
  App,             \* their names, without the number at the end
  NameOf,          \* the name of each client
  Plain,           \* clients whose id has no number: it is their name
  Wallet,
  None,            \* no wallet
  LeaveOpen,       \* _leaveOpen
  Settings,        \* what reconfigure() may read: [enabled, closeIdle]
  Overlaps,        \* may openPath() or tryOpen() open a wallet that a pending request asks for
  LeavesAsking,    \* may a client exit while a request of it is pending
  DisconnectsAny,  \* may an application be disconnected that holds a handle twice
  MaxRequests      \* requests that may open a wallet, in all

ASSUME ClientAssumption == NameOf \in [Client -> App] /\ Plain \subseteq Client
ASSUME AppAssumption == IsFiniteSet(App)
ASSUME WalletAssumption == None \notin Wallet
ASSUME RuleAssumption == {LeaveOpen, Overlaps, LeavesAsking, DisconnectsAny} \subseteq BOOLEAN
ASSUME SettingsAssumption == Settings \subseteq [enabled : BOOLEAN, closeIdle : BOOLEAN]
ASSUME BoundAssumption == MaxRequests \in Nat

VARIABLES
  running,         \* clients that are there
  open,            \* _wallets: the wallet open under each handle
  refs,            \* refCount() of that wallet
  tried,           \* handles that tryOpen() opened
  handles,         \* _handles: how often each name holds each handle
  passwords,       \* wallets in _passwords
  timers,          \* handles in _timeouts
  config,          \* _enabled and _closeIdle
  asked,           \* requests so far
  given,           \* handles given so far
  transactions,    \* _transactions
  timer,           \* a timer for processTransactions() is running
  processing,      \* the flag of processTransactions()
  dialogs,         \* the dialogs shown, each over the one before
  crashed

walletVars == <<open, refs, tried, handles, passwords, timers>>
queueVars == <<asked, transactions, timer>>
vars == <<running, walletVars, config, queueVars, given, processing, dialogs, crashed>>

\* generateHandle() draws until the handle is not in use; it is taken not to draw
\* one that was used before.
Handle == 1 .. MaxRequests
Transaction == [what : {"open", "openFail", "changePassword"}, client : Client, wallet : Wallet]

\* `for' says who shows the dialog; `h' is the handle it is about, 0 if the wallet is
\* being opened.
Dialog == [for : {"transaction", "openPath"}, ask : {"password", "authorize", "newPassword"},
           client : Client, wallet : Wallet, h : Handle \union {0}, reclose : BOOLEAN]

TypeOK ==
  /\ running \subseteq Client
  /\ open \in [Handle -> Wallet \union {None}] /\ refs \in [Handle -> Int]
  /\ tried \subseteq Handle
  /\ handles \in [App -> [Handle -> Nat]]
  /\ passwords \subseteq Wallet /\ timers \subseteq Handle
  /\ config \in [enabled : BOOLEAN, closeIdle : BOOLEAN]
  /\ asked \in 0 .. MaxRequests /\ given \in 0 .. MaxRequests
  /\ transactions \in Seq(Transaction)
  /\ {timer, processing, crashed} \subseteq BOOLEAN
  /\ dialogs \in Seq(Dialog)

Init ==
  /\ running = Client
  /\ open = [h \in Handle |-> None] /\ refs = [h \in Handle |-> 0] /\ tried = {}
  /\ handles = [app \in App |-> [h \in Handle |-> 0]]
  /\ passwords = {} /\ timers = {}
  /\ config \in Settings
  /\ asked = 0 /\ given = 0 /\ transactions = << >> /\ timer = FALSE
  /\ processing = FALSE /\ dialogs = << >> /\ crashed = FALSE

Opened == {h \in Handle : open[h] # None}
OpenAs(w) == {h \in Handle : open[h] = w}

-----------------------------------------------------------------------------
(* When something may come.                                                *)

ShownFor(who) == {i \in DOMAIN dialogs : dialogs[i].for = who}
Top == dialogs[Len(dialogs)]

\* Timers go off in the event loop: that of kded or that of a dialog.
AtEventLoop == ~crashed /\ (processing => ShownFor("transaction") # {})

\* DCOP messages are handled there, too, but not inside a call.
Hears == AtEventLoop /\ ShownFor("openPath") = {}
From(c) == Hears /\ c \in running

Pending == {transactions[i] : i \in DOMAIN transactions} \union {dialogs[i] : i \in DOMAIN dialogs}

\* A request that may open a wallet.
Ask(c) == From(c) /\ asked < MaxRequests /\ asked' = asked + 1

\* A pending request will open w unless it is open by then.
WillOpen(w) ==
  \/ \E i \in DOMAIN dialogs : dialogs[i].wallet = w /\ dialogs[i].ask # "newPassword"
  \/ \E i \in DOMAIN transactions :
       transactions[i].wallet = w /\ (i > 1 \/ ShownFor("transaction") = {})
MayOverlap(w) == Overlaps \/ OpenAs(w) # {} \/ ~WillOpen(w)

-----------------------------------------------------------------------------
(* Wallets.                                                                *)

\* Mutant: the timer of a wallet that is closed keeps running.
RemoveMutant(H, hs) ==
  /\ open' = [h \in Handle |-> IF h \in H THEN None ELSE open[h]]
  /\ refs' = [h \in Handle |-> IF h \in H THEN 0 ELSE refs[h]]
  /\ tried' = tried \ H /\ timers' = timers /\ handles' = hs

\* The wallets of H leave all tables but _passwords and _handles, which becomes hs, ...
Remove(H, hs) ==
  /\ open' = [h \in Handle |-> IF h \in H THEN None ELSE open[h]]
  /\ refs' = [h \in Handle |-> IF h \in H THEN 0 ELSE refs[h]]
  /\ tried' = tried \ H
  /\ timers' = IF config.closeIdle THEN timers \ H ELSE timers
  /\ handles' = hs

\* ... and _passwords.
Shut(H, hs) == Remove(H, hs) /\ passwords' = passwords \ {open[h] : h \in H}

\* invalidateHandle()
Invalidated(H) == [app \in App |-> [h \in Handle |-> IF h \in H THEN 0 ELSE handles[app][h]]]

closeWallet(H) == Shut(H, Invalidated(H))

\* Wallet w is open under a new handle.  (Each request takes one handle at most, so the
\* bound on requests is reached before this one.)
Enter(w) ==
  /\ given < MaxRequests
  /\ given' = given + 1
  /\ open' = [open EXCEPT ![given + 1] = w] /\ refs' = [refs EXCEPT ![given + 1] = 1]
  /\ passwords' = passwords \union {w}

\* The end of internalOpen() for a wallet that was not open, ...
Insert(app, w) ==
  /\ Enter(w)
  /\ handles' = [handles EXCEPT ![app][given + 1] = @ + 1]
  /\ timers' = IF config.closeIdle THEN timers \union {given + 1} ELSE timers
  /\ UNCHANGED tried

\* ... and for one that is open under h.
AddReference(app, h) ==
  /\ handles' = [handles EXCEPT ![app][h] = @ + 1] /\ refs' = [refs EXCEPT ![h] = @ + 1]
  /\ UNCHANGED <<open, tried, passwords, timers, given>>

-----------------------------------------------------------------------------
(* Opening.                                                                *)

\* After a request failed the others of the application for the wallet and the same
\* window fail, too: "alike" are the requests with its window id.
Failing(x, alike) ==
  [i \in DOMAIN transactions |->
     IF /\ i > 1 /\ i \in alike /\ transactions[i].what = "open"
        /\ NameOf[transactions[i].client] = NameOf[x.client] /\ transactions[i].wallet = x.wallet
       THEN [transactions[i] EXCEPT !.what = "openFail"] ELSE transactions[i]]

\* internalOpen() returns to openPath() or to processTransactions(), with the handle or
\* 0; below are the dialogs that are shown still.
Returns(for, c, w, h, below) ==
  IF for = "openPath" THEN dialogs' = below /\ UNCHANGED transactions
  ELSE LET x == Head(transactions) IN
       IF x.what = "changePassword" /\ h # 0
         THEN /\ dialogs' = Append(below, [for |-> for, ask |-> "newPassword", client |-> c,
                                           wallet |-> w, h |-> h, reclose |-> TRUE])
              /\ UNCHANGED transactions
         ELSE /\ dialogs' = below
              /\ \E alike \in SUBSET DOMAIN transactions :
                   transactions' = Tail(IF x.what = "open" /\ h = 0 THEN Failing(x, alike)
                                        ELSE transactions)

Shows(for, ask, c, w, h) ==
  /\ dialogs' = Append(dialogs, [for |-> for, ask |-> ask, client |-> c, wallet |-> w, h |-> h,
                                 reclose |-> FALSE])
  /\ UNCHANGED <<walletVars, given, transactions>>

internalOpen(for, c, w) ==
  \/ Returns(for, c, w, 0, dialogs) /\ UNCHANGED <<walletVars, given>>
  \/ \E h \in OpenAs(w) :
       \/ AddReference(NameOf[c], h) /\ Returns(for, c, w, h, dialogs)
       \/ handles[NameOf[c]][h] = 0 /\ Shows(for, "authorize", c, w, h)
  \/ /\ OpenAs(w) = {}
     /\ \/ Insert(NameOf[c], w) /\ Returns(for, c, w, given + 1, dialogs)
        \/ \E ask \in {"password", "authorize"} : Shows(for, ask, c, w, 0)

\* open() and openAsynchronous().
OpenLater(c, w) ==
  /\ Ask(c) /\ config.enabled
  /\ transactions' = Append(transactions, [what |-> "open", client |-> c, wallet |-> w])
  /\ timer' = TRUE
  /\ UNCHANGED <<running, walletVars, config, given, processing, dialogs, crashed>>

changePassword(c, w) ==
  /\ Ask(c)
  /\ transactions' = Append(transactions, [what |-> "changePassword", client |-> c, wallet |-> w])
  /\ timer' = TRUE
  /\ UNCHANGED <<running, walletVars, config, given, processing, dialogs, crashed>>

openPath(c, w) ==
  /\ Ask(c) /\ config.enabled /\ MayOverlap(w)
  /\ internalOpen("openPath", c, w)
  /\ UNCHANGED <<running, config, timer, processing, crashed>>

\* tryOpen() with the right password.
tryOpen(c, w) ==
  /\ Ask(c) /\ MayOverlap(w) /\ OpenAs(w) = {}
  /\ Enter(w) /\ tried' = tried \union {given + 1}
  /\ UNCHANGED <<running, handles, timers, config, transactions, timer, processing, dialogs, crashed>>

\* The timer of open() goes off: processTransactions() begins, unless it is going on.
processTransactions ==
  /\ AtEventLoop /\ timer
  /\ timer' = FALSE /\ processing' = TRUE
  /\ UNCHANGED <<running, walletVars, config, asked, given, transactions, dialogs, crashed>>

\* Mutant: a request that fails with another one ends the loop.
ProcessNextMutant ==
  /\ ~crashed /\ processing /\ ShownFor("transaction") = {}
  /\ IF transactions = << >> \/ Head(transactions).what = "openFail"
       THEN /\ processing' = FALSE
            /\ transactions' = IF transactions = << >> THEN << >> ELSE Tail(transactions)
            /\ UNCHANGED <<walletVars, given, dialogs>>
       ELSE LET x == Head(transactions) IN
            /\ UNCHANGED processing
            /\ IF x.what = "open" \/ OpenAs(x.wallet) = {}
                 THEN internalOpen("transaction", x.client, x.wallet)
                 ELSE \E h \in OpenAs(x.wallet) :
                        Shows("transaction", "newPassword", x.client, x.wallet, h)
  /\ UNCHANGED <<running, config, asked, timer, crashed>>

\* The next round of its loop, as far as a dialog.
ProcessNext ==
  /\ ~crashed /\ processing /\ ShownFor("transaction") = {}
  /\ IF transactions = << >>
       THEN processing' = FALSE /\ UNCHANGED <<walletVars, given, transactions, dialogs>>
       ELSE LET x == Head(transactions) IN
            /\ UNCHANGED processing
            /\ \/ /\ x.what = "openFail" /\ transactions' = Tail(transactions)
                  /\ UNCHANGED <<walletVars, given, dialogs>>
               \/ /\ x.what = "open" \/ (x.what = "changePassword" /\ OpenAs(x.wallet) = {})
                  /\ internalOpen("transaction", x.client, x.wallet)
               \/ /\ x.what = "changePassword"
                  /\ \E h \in OpenAs(x.wallet) :
                       Shows("transaction", "newPassword", x.client, x.wallet, h)
  /\ UNCHANGED <<running, config, asked, timer, crashed>>

-----------------------------------------------------------------------------
(* The user answers the dialog on top.                                     *)

Answers(ask) == AtEventLoop /\ dialogs # << >> /\ Top.ask = ask
Below == SubSeq(dialogs, 1, Len(dialogs) - 1)
TopReturns(h) == Returns(Top.for, Top.client, Top.wallet, h, Below)

Refuse ==
  /\ \E ask \in {"password", "authorize"} : Answers(ask)
  /\ TopReturns(0)
  /\ UNCHANGED <<running, walletVars, config, asked, timer, given, processing, crashed>>

\* The password was right, or the application may use a wallet that has none.
Accept ==
  /\ \E ask \in {"password", "authorize"} : Answers(ask)
  /\ Top.h = 0
  /\ Insert(NameOf[Top.client], Top.wallet) /\ TopReturns(given + 1)
  /\ UNCHANGED <<running, config, asked, timer, processing, crashed>>

\* The application may use the wallet, which is looked up again by its handle.
Authorize ==
  /\ Answers("authorize") /\ Top.h # 0
  /\ IF open[Top.h] # None
       THEN AddReference(NameOf[Top.client], Top.h) /\ TopReturns(Top.h) /\ UNCHANGED crashed
       ELSE /\ handles' = [handles EXCEPT ![NameOf[Top.client]][Top.h] = @ + 1]
            /\ crashed' = TRUE
            /\ UNCHANGED <<open, refs, tried, passwords, timers, given, transactions, dialogs>>
  /\ UNCHANGED <<running, config, asked, timer, processing>>

\* Mutant: the password goes though the wallet under the handle was closed meanwhile.
ChangeEndsMutant(reclose, known) ==
  /\ dialogs' = Below /\ transactions' = Tail(transactions)
  /\ IF reclose
       THEN Remove({Top.h}, Invalidated({Top.h})) /\ passwords' = known \ {Top.wallet}
       ELSE UNCHANGED <<open, refs, tried, handles, timers>> /\ passwords' = known
  /\ UNCHANGED crashed

\* doTransactionChangePassword() ends, and closes the wallet if it had opened it.
ChangeEnds(reclose, known) ==
  /\ dialogs' = Below /\ transactions' = Tail(transactions)
  /\ IF reclose /\ open[Top.h] # None
       THEN Remove({Top.h}, Invalidated({Top.h})) /\ passwords' = known \ {Top.wallet}
       ELSE UNCHANGED <<open, refs, tried, handles, timers>> /\ passwords' = known
  /\ UNCHANGED crashed

KeepPassword ==
  /\ Answers("newPassword") /\ ChangeEnds(Top.reclose, passwords)
  /\ UNCHANGED <<running, config, asked, timer, given, processing>>

\* The wallet is written with the new password and opened again, or that fails.  When
\* it was closed meanwhile the code writes to an object that is gone: kded crashes
\* or nothing happens.
NewPassword ==
  /\ Answers("newPassword")
  /\ LET known == passwords \union {Top.wallet}
     IN \/ \E failed \in BOOLEAN : ChangeEnds(Top.reclose \/ failed, known)
        \/ /\ open[Top.h] = None /\ crashed' = TRUE /\ passwords' = known
           /\ UNCHANGED <<open, refs, tried, handles, timers, dialogs, transactions>>
  /\ UNCHANGED <<running, config, asked, timer, given, processing>>

-----------------------------------------------------------------------------
(* Closing.                                                                *)

others == <<running, config, queueVars, given, processing, dialogs, crashed>>

\* Mutant: whose handle it is is not looked at.
closeMutant(c, h, force) ==
  /\ From(c) /\ open[h] # None
  /\ LET hs == [handles EXCEPT ![NameOf[c]][h] = @ - 1]
     IN IF force \/ (refs[h] = 1 /\ ~LeaveOpen)
          THEN IF force THEN closeWallet({h}) ELSE Shut({h}, hs)
          ELSE /\ handles' = hs /\ refs' = [refs EXCEPT ![h] = @ - 1]
               /\ UNCHANGED <<open, tried, passwords, timers>>
  /\ UNCHANGED others

\* close(int, bool)
close(c, h, force) ==
  /\ From(c) /\ open[h] # None
  /\ LET app == NameOf[c]
         own == handles[app][h] > 0
         hs == IF own THEN [handles EXCEPT ![app][h] = @ - 1] ELSE handles
         left == IF own THEN refs[h] - 1 ELSE refs[h]
     IN IF force \/ (own /\ left = 0 /\ ~LeaveOpen)
          THEN IF force THEN closeWallet({h}) ELSE Shut({h}, hs)
          ELSE /\ handles' = hs /\ refs' = [refs EXCEPT ![h] = left]
               /\ UNCHANGED <<open, tried, passwords, timers>>
  /\ UNCHANGED others

\* close(const TQString&, bool), and deleteWallet(), which forces it.
closeByName(c, w, force) ==
  /\ From(c)
  /\ \E h \in OpenAs(w) : (force \/ refs[h] = 0) /\ closeWallet({h})
  /\ UNCHANGED others

closeAllWallets ==
  /\ Hears /\ Remove(Opened, Invalidated(Opened)) /\ passwords' = {}
  /\ UNCHANGED others

timedOut(h) ==
  /\ AtEventLoop /\ h \in timers /\ open[h] # None
  /\ closeWallet({h}) /\ UNCHANGED others

\* The first open wallet with the name loses the reference, or is closed; here it is
\* the one whose handle it is, which differs only if a wallet is open twice (Overlaps).
disconnectApplication(c, w, app) ==
  /\ From(c)
  /\ \E h \in OpenAs(w) :
       /\ handles[app][h] > 0 /\ (handles[app][h] = 1 \/ DisconnectsAny)
       /\ IF refs[h] = 1 THEN closeWallet({h})
          ELSE /\ handles' = [handles EXCEPT ![app][h] = 0]
               /\ refs' = [refs EXCEPT ![h] = @ - 1]
               /\ UNCHANGED <<open, tried, passwords, timers>>
  /\ UNCHANGED others

\* Mutant: a handle that is held twice is given back once.
AppUnregisteredOnce(app) ==
  LET held == {h \in Handle : handles[app][h] > 0 /\ open[h] # None}
      last == {h \in held : refs[h] = 1}
  IN /\ open' = [h \in Handle |-> IF h \in last THEN None ELSE open[h]]
     /\ refs' = [h \in Handle |-> IF h \in held THEN refs[h] - 1 ELSE refs[h]]
     /\ tried' = tried \ last
     /\ timers' = IF config.closeIdle THEN timers \ last ELSE timers
     /\ passwords' = passwords \ {open[h] : h \in last}
     /\ handles' = [Invalidated(last) EXCEPT ![app] = [h \in Handle |-> 0]]

\* Mutant: a wallet that others use keeps the entries of the client that left.
AppUnregisteredKeeps(app) ==
  LET held == {h \in Handle : handles[app][h] > 0 /\ open[h] # None}
      last == {h \in held : refs[h] <= handles[app][h]}
  IN Shut(last, Invalidated(last))

\* slotAppUnregistered(): what is recorded under the id of the client is given back
\* (by wallet name, which differs only if a wallet is open twice).
AppUnregistered(app) ==
  LET held == {h \in Handle : handles[app][h] > 0}
      freed == IF LeaveOpen THEN {} ELSE {h \in held : open[h] # None}
      last == {h \in freed : refs[h] \in 1 .. handles[app][h]}
  IN /\ open' = [h \in Handle |-> IF h \in last THEN None ELSE open[h]]
     /\ refs' = [h \in Handle |-> IF h \in last THEN 0
                                  ELSE IF h \in freed THEN refs[h] - handles[app][h] ELSE refs[h]]
     /\ tried' = tried \ last
     /\ timers' = IF config.closeIdle THEN timers \ last ELSE timers
     /\ passwords' = passwords \ {open[h] : h \in last}
     /\ handles' = [Invalidated(last) EXCEPT ![app] = [h \in Handle |-> 0]]

Leave(c) ==
  /\ Hears /\ c \in running
  /\ LeavesAsking \/ \A x \in Pending : x.client # c
  /\ running' = running \ {c}
  /\ IF c \in Plain THEN AppUnregistered(NameOf[c]) ELSE UNCHANGED walletVars
  /\ UNCHANGED <<config, queueVars, given, processing, dialogs, crashed>>

Start(c) ==
  /\ ~crashed /\ c \notin running /\ running' = running \union {c}
  /\ UNCHANGED <<walletVars, config, queueVars, given, processing, dialogs, crashed>>

reconfigure(new) ==
  /\ Hears /\ config' = new
  /\ LET H == IF new.enabled THEN {} ELSE Opened
     IN /\ open' = [h \in Handle |-> IF h \in H THEN None ELSE open[h]]
        /\ refs' = [h \in Handle |-> IF h \in H THEN 0 ELSE refs[h]]
        /\ tried' = tried \ H /\ handles' = Invalidated(H)
        /\ passwords' = passwords \ {open[h] : h \in H}
        /\ timers' = CASE ~new.closeIdle -> {}
                       [] new.closeIdle /\ config.closeIdle -> timers \ H
                       [] OTHER -> (timers \union Opened) \ H
  /\ UNCHANGED <<running, queueVars, given, processing, dialogs, crashed>>

-----------------------------------------------------------------------------
Next ==
  \/ \E c \in Client, w \in Wallet :
       \/ OpenLater(c, w) \/ changePassword(c, w) \/ openPath(c, w) \/ tryOpen(c, w)
       \/ \E force \in BOOLEAN : closeByName(c, w, force)
       \/ \E app \in App : disconnectApplication(c, w, app)
  \/ \E c \in Client, h \in Handle, force \in BOOLEAN : close(c, h, force)
  \/ \E c \in Client : Leave(c) \/ Start(c)
  \/ processTransactions \/ ProcessNext
  \/ Refuse \/ Accept \/ Authorize \/ KeepPassword \/ NewPassword
  \/ closeAllWallets \/ \E h \in Handle : timedOut(h)
  \/ \E new \in Settings : reconfigure(new)

\* kded goes on, its timer goes off and the user answers each dialog.
Fairness ==
  /\ WF_vars(ProcessNext) /\ WF_vars(processTransactions)
  /\ WF_vars(Refuse \/ Accept \/ Authorize \/ KeepPassword \/ NewPassword)

Spec == Init /\ [][Next]_vars /\ Fairness

-----------------------------------------------------------------------------
(* Properties.                                                             *)

\* What applications hold of handle h: each its name, as often as it holds it.
Holdings(hs, h) == UNION {{app} \X (1 .. hs[app][h]) : app \in App}

\* A wallet's reference count is the number of times applications hold a handle to it,
\* and one for tryOpen(); nobody holds a handle to a wallet that is not open.
RefsAreHandles ==
  ~crashed => \A h \in Handle :
    refs[h] = Cardinality(Holdings(handles, h)) + (IF h \in tried THEN 1 ELSE 0)

\* The password of an open wallet is known, without which it could not be written.
PasswordsKnown == \A h \in Opened : open[h] \in passwords

\* With "Close When Idle" every wallet but those of tryOpen() has its timer, and only
\* open wallets have one.
TimersMatch ==
  /\ timers \subseteq Opened
  /\ IF config.closeIdle THEN Opened \ tried \subseteq timers ELSE timers = {}

\* An application whose clients are known by name holds handles only while one of
\* them is there.
OnlyTheLivingHold ==
  \A app \in App :
    /\ ~crashed
    /\ \A c \in Client : NameOf[c] = app => c \in Plain
    /\ \E h \in Handle : handles[app][h] > 0
    => \E c \in running : NameOf[c] = app

\* In the end every request was answered and every dialog is gone.
RequestsServed == <>[](crashed \/ (transactions = << >> /\ dialogs = << >> /\ ~processing))
=============================================================================
