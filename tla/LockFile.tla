------------------------------ MODULE LockFile ------------------------------
(***************************************************************************)
(* TDELockFile (tdecore/klockfile.cpp): processes that share a lock file   *)
(* without a server.  A process writes its pid to a file of a name of its  *)
(* own and links it to the name of the lock; a process with LockForce      *)
(* deletes the lock of a process that has died.  Every system call is a    *)
(* step of its own.                                                        *)
(*                                                                         *)
(* The sleep of lock()'s loop before it tries again, and its return when   *)
(* the caller calls it again later, are both the step back to "idle": all  *)
(* that a try remembers is in the members of TDELockFile.                  *)
(***************************************************************************)
EXTENDS Integers, FiniteSets

CONSTANTS
  Proc,         \* processes, each with one TDELockFile for the same file
  Inodes,       \* inode numbers of the file system
  None,         \* no inode, no pid, no stat buffer
  Forcing,      \* processes that call lock(LockForce)
  Crashing,     \* processes that may die
  Reuse,        \* may the file system give a free inode number again
  StaleByTime   \* may the lock of a live process get older than staleTime

ASSUME NoneAssumption ==
  None \notin Proc /\ None \notin Inodes /\ None \notin [ino : Inodes, nlink : Int]
ASSUME ProcAssumption ==
  IsFiniteSet(Proc) /\ Forcing \subseteq Proc /\ Crashing \subseteq Proc
ASSUME SystemAssumption == Reuse \in BOOLEAN /\ StaleByTime \in BOOLEAN

VARIABLES
  lock,     \* the inode that has the name of the lock file
  own,      \* own[p]: the inode that has p's temporary name
  links,    \* st_nlink of each inode
  writer,   \* the process that created the inode and wrote its pid there
  pc,       \* where each process is
  st_buf,   \* local variable of lock() and lockFile()
  statBuf,  \* d->statBuf while d->staleTimer runs
  pid,      \* d->pid, while that timer runs
  linkCountSupport

files == <<lock, own, links, writer>>
members == <<statBuf, pid, linkCountSupport>>
vars == <<files, pc, st_buf, members>>

Places ==
  {"idle", "create", "link", "verify", "verifyLock", "cleanOK", "cleanError",
   "cleanFail", "read", "judge", "linkLock", "checkOwn", "checkLock", "testLink",
   "testStat", "testUnlink", "lastCheck", "break", "unbreak", "giveUp", "locked", "dead"}
Stat == [ino : Inodes, nlink : Int]

TypeOK ==
  /\ lock \in Inodes \union {None}
  /\ own \in [Proc -> Inodes \union {None}]
  /\ links \in [Inodes -> Int]
  /\ writer \in [Inodes -> Proc \union {None}]
  /\ pc \in [Proc -> Places]
  /\ st_buf \in [Proc -> Stat \union {None}]
  /\ statBuf \in [Proc -> Stat \union {None}]
  /\ pid \in [Proc -> Proc \union {None}]
  /\ linkCountSupport \in [Proc -> BOOLEAN]

Init ==
  /\ lock = None /\ own = [p \in Proc |-> None]
  /\ links = [i \in Inodes |-> 0] /\ writer = [i \in Inodes |-> None]
  /\ pc = [p \in Proc |-> "idle"]
  /\ st_buf = [p \in Proc |-> None] /\ statBuf = [p \in Proc |-> None]
  /\ pid = [p \in Proc |-> None]
  /\ linkCountSupport = [p \in Proc |-> TRUE]

-----------------------------------------------------------------------------
(* The file system.                                                        *)

lstat(i) == [ino |-> i, nlink |-> links[i]]
Free == {i \in Inodes : links[i] = 0 /\ (Reuse \/ writer[i] = None)}

Goto(p, place) == pc' = [pc EXCEPT ![p] = place]

\* p gives its temporary name to the inode i, or takes it away.
NameOwn(p, i) ==
  /\ own' = [own EXCEPT ![p] = i] /\ links' = [links EXCEPT ![i] = @ + 1]
UnlinkOwn(p) ==
  /\ own' = [own EXCEPT ![p] = None] /\ links' = [links EXCEPT ![own[p]] = @ - 1]

\* unlink() of the lock file, whatever file that is by now.
UnlinkLock ==
  IF lock = None THEN UNCHANGED <<lock, links>>
  ELSE lock' = None /\ links' = [links EXCEPT ![lock] = @ - 1]

-----------------------------------------------------------------------------
(* lock() and lockFile().                                                  *)

\* staleTimer = TQTime(): the old lock is forgotten.
Forget(p) == statBuf' = [statBuf EXCEPT ![p] = None] /\ pid' = [pid EXCEPT ![p] = None]

\* lock() after LockFail: the lock is the one seen before, or it is remembered
\* and its owner's pid is read.
LockFailed(p, s) ==
  IF statBuf[p] = s
    THEN Goto(p, "judge") /\ UNCHANGED members
    ELSE /\ statBuf' = [statBuf EXCEPT ![p] = s] /\ pid' = [pid EXCEPT ![p] = None]
         /\ Goto(p, "read") /\ UNCHANGED linkCountSupport

\* lockFile() looks whether there is a lock.
StatLock(p) ==
  /\ pc[p] = "idle"
  /\ IF lock = None
       THEN Goto(p, "create") /\ UNCHANGED members
       ELSE LockFailed(p, lstat(lock))
  /\ UNCHANGED <<files, st_buf>>

ReadPid(p) ==
  /\ pc[p] = "read"
  /\ pid' = [pid EXCEPT ![p] = IF lock = None THEN None ELSE writer[lock]]
  /\ Goto(p, "idle")
  /\ UNCHANGED <<files, st_buf, statBuf, linkCountSupport>>

\* The unique file, or the error of a file system that is full.
CreateUnique(p) ==
  /\ pc[p] = "create"
  /\ IF Free = {}
       THEN Goto(p, "idle") /\ Forget(p) /\ UNCHANGED files
       ELSE \E i \in Free :
              /\ NameOwn(p, i) /\ writer' = [writer EXCEPT ![i] = p]
              /\ Goto(p, "link") /\ UNCHANGED <<lock, statBuf, pid>>
  /\ UNCHANGED <<st_buf, linkCountSupport>>

\* Mutant of LinkUnique: the link replaces a lock that is there.
LinkUniqueMutant(p) ==
  /\ pc[p] = "link"
  /\ lock' = own[p] /\ links' = [links EXCEPT ![own[p]] = @ + 1]
  /\ Goto(p, IF linkCountSupport[p] THEN "verify" ELSE "cleanOK")
  /\ UNCHANGED <<own, writer, st_buf, members>>

\* link() to the name of the lock, which fails when there is one.
LinkUnique(p) ==
  /\ pc[p] = "link"
  /\ IF lock = None
       THEN /\ lock' = own[p] /\ links' = [links EXCEPT ![own[p]] = @ + 1]
            /\ Goto(p, IF linkCountSupport[p] THEN "verify" ELSE "cleanOK")
       ELSE Goto(p, "cleanError") /\ UNCHANGED <<lock, links>>
  /\ UNCHANGED <<own, writer, st_buf, members>>

Verify(p) ==
  /\ pc[p] = "verify"
  /\ st_buf' = [st_buf EXCEPT ![p] = lstat(own[p])]
  /\ Goto(p, "verifyLock")
  /\ UNCHANGED <<files, members>>

\* Two files of one link each: testLinkCountSupport() of the unique file, which
\* nobody else links, finds two and changes nothing.
VerifyLock(p) ==
  /\ pc[p] = "verifyLock"
  /\ IF lock = None
       THEN Goto(p, "cleanError") /\ UNCHANGED st_buf
       ELSE /\ Goto(p, IF lstat(lock) = st_buf[p] THEN "cleanOK" ELSE "cleanFail")
            /\ st_buf' = [st_buf EXCEPT ![p] = lstat(lock)]
  /\ UNCHANGED <<files, members>>

\* lockFile() returns: the unique file is deleted, lock() goes on.
Clean(p) ==
  /\ \/ pc[p] = "cleanOK" /\ Goto(p, "locked") /\ Forget(p)
     \/ pc[p] = "cleanError" /\ Goto(p, "idle") /\ Forget(p)
     \/ pc[p] = "cleanFail" /\ LockFailed(p, st_buf[p])
  /\ UnlinkOwn(p) /\ st_buf' = [st_buf EXCEPT ![p] = None]
  /\ UNCHANGED <<lock, writer, linkCountSupport>>

\* Mutant of Judge: a process that is alive is taken for dead.
JudgeMutant(p) ==
  /\ pc[p] = "judge"
  /\ Goto(p, IF p \in Forcing /\ pid[p] # None THEN "linkLock" ELSE "idle")
  /\ UNCHANGED <<files, st_buf, members>>

\* Mutant of Judge: the pid is not looked at.
JudgeTimeOnly(p) ==
  /\ pc[p] = "judge"
  /\ \E old \in BOOLEAN :
       /\ old => StaleByTime
       /\ Goto(p, IF old /\ p \in Forcing THEN "linkLock" ELSE "idle")
  /\ UNCHANGED <<files, st_buf, members>>

\* kill(pid, 0) and the age of the lock decide whether it is stale.  Without
\* LockForce lock() returns LockStale.
Judge(p) ==
  /\ pc[p] = "judge"
  /\ \E old \in BOOLEAN :
       LET isStale == old \/ (pid[p] # None /\ pc[pid[p]] = "dead")
       IN /\ old => StaleByTime
          /\ Goto(p, IF isStale /\ p \in Forcing THEN "linkLock" ELSE "idle")
  /\ UNCHANGED <<files, st_buf, members>>

-----------------------------------------------------------------------------
(* deleteStaleLock().                                                      *)

\* The lock gets a second name, p's.
LinkLock(p) ==
  /\ pc[p] = "linkLock"
  /\ IF lock = None
       THEN Goto(p, "idle") /\ UNCHANGED files
       ELSE NameOwn(p, lock) /\ Goto(p, "checkOwn") /\ UNCHANGED <<lock, writer>>
  /\ UNCHANGED <<st_buf, members>>

\* statBuf with one link more.
Expected(p) == [statBuf[p] EXCEPT !.nlink = @ + 1]

CheckOwn(p) ==
  /\ pc[p] = "checkOwn"
  /\ Goto(p, IF lstat(own[p]) = Expected(p) THEN "checkLock"
             ELSE IF linkCountSupport[p] THEN "testLink" ELSE "lastCheck")
  /\ UNCHANGED <<files, st_buf, members>>

CheckLock(p) ==
  /\ pc[p] = "checkLock"
  /\ Goto(p, IF lock # None /\ lstat(lock) = Expected(p) THEN "break"
             ELSE IF linkCountSupport[p] THEN "testLink" ELSE "lastCheck")
  /\ UNCHANGED <<files, st_buf, members>>

\* testLinkCountSupport() gives the file a third name and takes it away.
TestLink(p) ==
  /\ pc[p] = "testLink"
  /\ links' = [links EXCEPT ![own[p]] = @ + 1] /\ Goto(p, "testStat")
  /\ UNCHANGED <<lock, own, writer, st_buf, members>>

TestStat(p) ==
  /\ pc[p] = "testStat"
  /\ linkCountSupport' = [linkCountSupport EXCEPT ![p] = links[own[p]] = 2]
  /\ Goto(p, "testUnlink")
  /\ UNCHANGED <<files, st_buf, statBuf, pid>>

TestUnlink(p) ==
  /\ pc[p] = "testUnlink"
  /\ links' = [links EXCEPT ![own[p]] = @ - 1]
  /\ Goto(p, IF linkCountSupport[p] THEN "giveUp" ELSE "lastCheck")
  /\ UNCHANGED <<lock, own, writer, st_buf, members>>

\* Without link counts the lock is compared once more.
LastCheck(p) ==
  /\ pc[p] = "lastCheck"
  /\ Goto(p, IF lock # None /\ lstat(lock) = statBuf[p] THEN "break" ELSE "giveUp")
  /\ UNCHANGED <<files, st_buf, members>>

\* The lock is deleted, then p's name for it; lock() tries again at once.
Break(p) ==
  /\ pc[p] = "break"
  /\ UnlinkLock /\ Goto(p, "unbreak")
  /\ UNCHANGED <<own, writer, st_buf, members>>

Unbreak(p) ==
  /\ pc[p] = "unbreak"
  /\ UnlinkOwn(p) /\ Forget(p) /\ Goto(p, "idle")
  /\ UNCHANGED <<lock, writer, st_buf, linkCountSupport>>

GiveUp(p) ==
  /\ pc[p] = "giveUp"
  /\ UnlinkOwn(p) /\ Goto(p, "idle")
  /\ UNCHANGED <<lock, writer, st_buf, members>>

-----------------------------------------------------------------------------
unlock(p) ==
  /\ pc[p] = "locked"
  /\ UnlinkLock /\ Goto(p, "idle")
  /\ UNCHANGED <<own, writer, st_buf, members>>

\* p dies anywhere and leaves its files behind.
Crash(p) ==
  /\ p \in Crashing /\ pc[p] # "dead"
  /\ Goto(p, "dead")
  /\ UNCHANGED <<files, st_buf, members>>

Step(p) ==
  \/ StatLock(p) \/ ReadPid(p) \/ CreateUnique(p) \/ LinkUnique(p)
  \/ Verify(p) \/ VerifyLock(p) \/ Clean(p) \/ Judge(p)
  \/ LinkLock(p) \/ CheckOwn(p) \/ CheckLock(p)
  \/ TestLink(p) \/ TestStat(p) \/ TestUnlink(p) \/ LastCheck(p)
  \/ Break(p) \/ Unbreak(p) \/ GiveUp(p)

Next == \E p \in Proc : Step(p) \/ unlock(p) \/ Crash(p)

\* A process in lock(LockForce) goes on, and tries again as long as it has no lock.
Fairness == \A p \in Forcing : WF_vars(Step(p))

Spec == Init /\ [][Next]_vars /\ Fairness

-----------------------------------------------------------------------------
(* Properties.                                                             *)

\* Two processes never both have the lock (TDELockFile::isLocked()): what the
\* care of deleteStaleLock() (klockfile.cpp:176) is for.
MutualExclusion ==
  \A p, q \in Proc : pc[p] = "locked" /\ pc[q] = "locked" => p = q

\* The lock file of a process that has the lock is its own, so that unlock()
\* and the pid that others read are right.
HolderOwnsFile ==
  \A p \in Proc : pc[p] = "locked" => lock # None /\ writer[lock] = p

\* A process that is told it did not get the lock has not left its file as the
\* lock: nobody would ever delete it, as its owner is alive (klockfile.cpp:168).
NoOrphanedLock ==
  lock # None => pc[writer[lock]] \in {"verify", "verifyLock", "cleanOK", "locked", "dead"}

\* The lock of a process that died is deleted in the end, by a process that has
\* LockForce and does not die (LockForce, klockfile.h:76).
StaleLockIsBroken ==
  Forcing \ Crashing # {} =>
    \A p \in Crashing :
      (lock # None /\ writer[lock] = p /\ pc[p] = "dead")
        ~> ~(lock # None /\ writer[lock] = p)
=============================================================================
