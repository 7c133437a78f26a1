--------------------------- MODULE LockFile_proofs ---------------------------
(* The lock file, for any number of processes that may die anywhere and any *)
(* number of them that delete stale locks: what can go wrong with mutual    *)
(* exclusion is that two of them are about to delete the lock at the same   *)
(* time, or that one takes the lock of a live process for stale; and the    *)
(* second does not happen if inode numbers are not used again and no live   *)
(* process keeps its lock for longer than staleTime.                        *)
EXTENDS LockFile, FiniteSetTheorems, TLAPS

Creating == {"link", "verify", "verifyLock", "cleanOK", "cleanError", "cleanFail"}
Holding == {"verify", "verifyLock", "cleanOK", "locked"}
Breaking ==
  {"linkLock", "checkOwn", "checkLock", "testLink", "testStat", "testUnlink",
   "lastCheck", "break"}
Named ==
  Creating \union {"checkOwn", "checkLock", "testLink", "testStat", "testUnlink",
                   "lastCheck", "break", "unbreak", "giveUp"}

\* No two processes are between their last look at the lock and its deletion.
OneBreaks == \A p, q \in Proc : pc[p] = "break" /\ pc[q] = "break" => p = q

\* The lock that a process found to be stale, as long as it is there, is that of a
\* process that is dead.
JudgedRight ==
  \A p \in Proc :
    pc[p] \in Breaking /\ statBuf[p] # None /\ lock = statBuf[p].ino =>
      pc[writer[lock]] = "dead"

\* What TypeOK rests on: the temporary name is there where it is used.
NamedInv == \A p \in Proc : pc[p] \in Named => own[p] \in Inodes

OwnInv == \A p \in Proc : pc[p] \in Creating => writer[own[p]] = p

-----------------------------------------------------------------------------
(* Type correctness.                                                       *)

LEMMA LockTypeInit == Init => TypeOK /\ NamedInv
  BY NoneAssumption DEF Init, TypeOK, Places, Stat, NamedInv, Named, Creating

LEMMA LockTypeStep == TypeOK /\ NamedInv /\ [Next]_vars => (TypeOK /\ NamedInv)'
<1> SUFFICES ASSUME TypeOK, NamedInv, [Next]_vars PROVE (TypeOK /\ NamedInv)'
  OBVIOUS
<1> USE NoneAssumption
<1>1. ASSUME NEW p \in Proc, StatLock(p) PROVE (TypeOK /\ NamedInv)'
  <2>1. TypeOK'
    BY <1>1 DEF StatLock, Goto, LockFailed, lstat, TypeOK, NamedInv, Named, Creating, Places, Stat, files, members
  <2>2. NamedInv'
    BY <1>1 DEF StatLock, Goto, LockFailed, lstat, TypeOK, NamedInv, Named, Creating, files, members
  <2> QED
    BY <2>1, <2>2
<1>2. ASSUME NEW p \in Proc, ReadPid(p) PROVE (TypeOK /\ NamedInv)'
  <2>1. TypeOK'
    BY <1>2 DEF ReadPid, Goto, TypeOK, NamedInv, Named, Creating, Places, Stat, files, members
  <2>2. NamedInv'
    BY <1>2 DEF ReadPid, Goto, TypeOK, NamedInv, Named, Creating, files, members
  <2> QED
    BY <2>1, <2>2
<1>3. ASSUME NEW p \in Proc, CreateUnique(p) PROVE (TypeOK /\ NamedInv)'
  <2>1. TypeOK'
    BY <1>3 DEF CreateUnique, Goto, NameOwn, Free, Forget, TypeOK, NamedInv, Named, Creating, Places, Stat, files, members
  <2>2. NamedInv'
    BY <1>3 DEF CreateUnique, Goto, NameOwn, Free, Forget, TypeOK, NamedInv, Named, Creating, files, members
  <2> QED
    BY <2>1, <2>2
<1>4. ASSUME NEW p \in Proc, LinkUnique(p) PROVE (TypeOK /\ NamedInv)'
  <2>1. TypeOK'
    BY <1>4 DEF LinkUnique, Goto, TypeOK, NamedInv, Named, Creating, Places, Stat, files, members
  <2>2. NamedInv'
    BY <1>4 DEF LinkUnique, Goto, TypeOK, NamedInv, Named, Creating, files, members
  <2> QED
    BY <2>1, <2>2
<1>5. ASSUME NEW p \in Proc, Verify(p) PROVE (TypeOK /\ NamedInv)'
  <2>1. TypeOK'
    BY <1>5 DEF Verify, Goto, lstat, TypeOK, NamedInv, Named, Creating, Places, Stat, files, members
  <2>2. NamedInv'
    BY <1>5 DEF Verify, Goto, lstat, TypeOK, NamedInv, Named, Creating, files, members
  <2> QED
    BY <2>1, <2>2
<1>6. ASSUME NEW p \in Proc, VerifyLock(p) PROVE (TypeOK /\ NamedInv)'
  <2>1. TypeOK'
    BY <1>6 DEF VerifyLock, Goto, lstat, TypeOK, NamedInv, Named, Creating, Places, Stat, files, members
  <2>2. NamedInv'
    BY <1>6 DEF VerifyLock, Goto, lstat, TypeOK, NamedInv, Named, Creating, files, members
  <2> QED
    BY <2>1, <2>2
<1>7. ASSUME NEW p \in Proc, Clean(p) PROVE (TypeOK /\ NamedInv)'
  <2>1. TypeOK'
    BY <1>7 DEF Clean, Goto, LockFailed, UnlinkOwn, Forget, TypeOK, NamedInv, Named, Creating, Places, Stat, files, members
  <2>2. NamedInv'
    BY <1>7 DEF Clean, Goto, LockFailed, UnlinkOwn, Forget, TypeOK, NamedInv, Named, Creating, files, members
  <2> QED
    BY <2>1, <2>2
<1>8. ASSUME NEW p \in Proc, Judge(p) PROVE (TypeOK /\ NamedInv)'
  <2>1. TypeOK'
    BY <1>8 DEF Judge, Goto, TypeOK, NamedInv, Named, Creating, Places, Stat, files, members
  <2>2. NamedInv'
    BY <1>8 DEF Judge, Goto, TypeOK, NamedInv, Named, Creating, files, members
  <2> QED
    BY <2>1, <2>2
<1>9. ASSUME NEW p \in Proc, LinkLock(p) PROVE (TypeOK /\ NamedInv)'
  <2>1. TypeOK'
    BY <1>9 DEF LinkLock, Goto, NameOwn, TypeOK, NamedInv, Named, Creating, Places, Stat, files, members
  <2>2. NamedInv'
    BY <1>9 DEF LinkLock, Goto, NameOwn, TypeOK, NamedInv, Named, Creating, files, members
  <2> QED
    BY <2>1, <2>2
<1>10. ASSUME NEW p \in Proc, CheckOwn(p) PROVE (TypeOK /\ NamedInv)'
  <2>1. TypeOK'
    BY <1>10 DEF CheckOwn, Goto, TypeOK, NamedInv, Named, Creating, Places, Stat, files, members
  <2>2. NamedInv'
    BY <1>10 DEF CheckOwn, Goto, TypeOK, NamedInv, Named, Creating, files, members
  <2> QED
    BY <2>1, <2>2
<1>11. ASSUME NEW p \in Proc, CheckLock(p) PROVE (TypeOK /\ NamedInv)'
  <2>1. TypeOK'
    BY <1>11 DEF CheckLock, Goto, Expected, lstat, TypeOK, NamedInv, Named, Creating, Places, Stat, files, members
  <2>2. NamedInv'
    BY <1>11 DEF CheckLock, Goto, Expected, lstat, TypeOK, NamedInv, Named, Creating, files, members
  <2> QED
    BY <2>1, <2>2
<1>12. ASSUME NEW p \in Proc, TestLink(p) PROVE (TypeOK /\ NamedInv)'
  <2>1. TypeOK'
    BY <1>12 DEF TestLink, Goto, TypeOK, NamedInv, Named, Creating, Places, Stat, files, members
  <2>2. NamedInv'
    BY <1>12 DEF TestLink, Goto, TypeOK, NamedInv, Named, Creating, files, members
  <2> QED
    BY <2>1, <2>2
<1>13. ASSUME NEW p \in Proc, TestStat(p) PROVE (TypeOK /\ NamedInv)'
  <2>1. TypeOK'
    BY <1>13 DEF TestStat, Goto, TypeOK, NamedInv, Named, Creating, Places, Stat, files, members
  <2>2. NamedInv'
    BY <1>13 DEF TestStat, Goto, TypeOK, NamedInv, Named, Creating, files, members
  <2> QED
    BY <2>1, <2>2
<1>14. ASSUME NEW p \in Proc, TestUnlink(p) PROVE (TypeOK /\ NamedInv)'
  <2>1. TypeOK'
    BY <1>14 DEF TestUnlink, Goto, TypeOK, NamedInv, Named, Creating, Places, Stat, files, members
  <2>2. NamedInv'
    BY <1>14 DEF TestUnlink, Goto, TypeOK, NamedInv, Named, Creating, files, members
  <2> QED
    BY <2>1, <2>2
<1>15. ASSUME NEW p \in Proc, LastCheck(p) PROVE (TypeOK /\ NamedInv)'
  <2>1. TypeOK'
    BY <1>15 DEF LastCheck, Goto, lstat, TypeOK, NamedInv, Named, Creating, Places, Stat, files, members
  <2>2. NamedInv'
    BY <1>15 DEF LastCheck, Goto, lstat, TypeOK, NamedInv, Named, Creating, files, members
  <2> QED
    BY <2>1, <2>2
<1>16. ASSUME NEW p \in Proc, Break(p) PROVE (TypeOK /\ NamedInv)'
  <2>1. TypeOK'
    BY <1>16 DEF Break, Goto, UnlinkLock, TypeOK, NamedInv, Named, Creating, Places, Stat, files, members
  <2>2. NamedInv'
    BY <1>16 DEF Break, Goto, UnlinkLock, TypeOK, NamedInv, Named, Creating, files, members
  <2> QED
    BY <2>1, <2>2
<1>17. ASSUME NEW p \in Proc, Unbreak(p) PROVE (TypeOK /\ NamedInv)'
  <2>1. TypeOK'
    BY <1>17 DEF Unbreak, Goto, UnlinkOwn, Forget, TypeOK, NamedInv, Named, Creating, Places, Stat, files, members
  <2>2. NamedInv'
    BY <1>17 DEF Unbreak, Goto, UnlinkOwn, Forget, TypeOK, NamedInv, Named, Creating, files, members
  <2> QED
    BY <2>1, <2>2
<1>18. ASSUME NEW p \in Proc, GiveUp(p) PROVE (TypeOK /\ NamedInv)'
  <2>1. TypeOK'
    BY <1>18 DEF GiveUp, Goto, UnlinkOwn, TypeOK, NamedInv, Named, Creating, Places, Stat, files, members
  <2>2. NamedInv'
    BY <1>18 DEF GiveUp, Goto, UnlinkOwn, TypeOK, NamedInv, Named, Creating, files, members
  <2> QED
    BY <2>1, <2>2
<1>19. ASSUME NEW p \in Proc, unlock(p) PROVE (TypeOK /\ NamedInv)'
  <2>1. TypeOK'
    BY <1>19 DEF unlock, Goto, UnlinkLock, TypeOK, NamedInv, Named, Creating, Places, Stat, files, members
  <2>2. NamedInv'
    BY <1>19 DEF unlock, Goto, UnlinkLock, TypeOK, NamedInv, Named, Creating, files, members
  <2> QED
    BY <2>1, <2>2
<1>20. ASSUME NEW p \in Proc, Crash(p) PROVE (TypeOK /\ NamedInv)'
  <2>1. TypeOK'
    BY <1>20 DEF Crash, Goto, TypeOK, NamedInv, Named, Creating, Places, Stat, files, members
  <2>2. NamedInv'
    BY <1>20 DEF Crash, Goto, TypeOK, NamedInv, Named, Creating, files, members
  <2> QED
    BY <2>1, <2>2
<1>21. CASE UNCHANGED vars
  BY <1>21 DEF TypeOK, NamedInv, vars, files, members
<1> QED
  BY <1>1, <1>2, <1>3, <1>4, <1>5, <1>6, <1>7, <1>8, <1>9, <1>10, <1>11, <1>12, <1>13, <1>14, <1>15, <1>16, <1>17, <1>18, <1>19, <1>20, <1>21 DEF Next, Step

\* TypeOK holds of every run, with any number of breakers and with reuse.
THEOREM LockTypeCorrect == Spec => []TypeOK
<1>1. Init => TypeOK /\ NamedInv
  BY LockTypeInit
<1>2. (TypeOK /\ NamedInv) /\ [Next]_vars => (TypeOK /\ NamedInv)'
  BY LockTypeStep
<1> QED
  BY <1>1, <1>2, PTL DEF Spec
-----------------------------------------------------------------------------
(* Stale locks.                                                            *)

\* The inode i exists and will never be given the name of the lock (again).
Past(i) == writer[i] # None /\ \A p \in Proc : pc[p] = "link" => own[p] # i

LockInv == lock # None => Past(lock)
SeenInv ==
  \A p \in Proc :
    /\ statBuf[p] # None => Past(statBuf[p].ino)
    /\ pc[p] \in {"verifyLock", "cleanFail"} => st_buf[p] # None /\ Past(st_buf[p].ino)

\* As long as the lock is the one remembered, the pid is that of its owner.
PidInv ==
  \A p \in Proc :
    statBuf[p] # None /\ lock = statBuf[p].ino /\ pid[p] # None => pid[p] = writer[lock]

StaleInv ==
  \A p \in Proc : pc[p] \in Breaking => pid[p] # None /\ pc[pid[p]] = "dead"
JudgeInv == TypeOK /\ NamedInv /\ OwnInv /\ LockInv /\ SeenInv /\ PidInv /\ StaleInv

LEMMA JudgeInit == Init => JudgeInv
  BY LockTypeInit DEF Init, JudgeInv, OwnInv, LockInv, SeenInv, PidInv, StaleInv, Breaking,
     Creating

LEMMA JudgeStep == ~Reuse /\ ~StaleByTime /\ JudgeInv /\ [Next]_vars => JudgeInv'
<1> SUFFICES ASSUME ~Reuse, ~StaleByTime, JudgeInv, [Next]_vars PROVE JudgeInv'
  OBVIOUS
<1>a. (TypeOK /\ NamedInv)'
  BY LockTypeStep DEF JudgeInv
<1> USE NoneAssumption, <1>a DEF JudgeInv, TypeOK, Stat
<1>1. ASSUME NEW p \in Proc, StatLock(p) PROVE JudgeInv'
  <2>1. OwnInv'
    BY <1>1 DEF StatLock, Goto, LockFailed, lstat, OwnInv, NamedInv, Named, Creating, files, members
  <2>2. LockInv'
    BY <1>1 DEF StatLock, Goto, LockFailed, lstat, LockInv, Past, OwnInv, NamedInv, Named, Creating, files, members
  <2>3. SeenInv'
    BY <1>1 DEF StatLock, Goto, LockFailed, lstat, SeenInv, LockInv, Past, OwnInv, NamedInv, Named, Creating, files, members
  <2>4. PidInv'
    BY <1>1 DEF StatLock, Goto, LockFailed, lstat, PidInv, SeenInv, LockInv, Past, OwnInv, NamedInv, Named, Creating, files, members
  <2>5. StaleInv'
    BY <1>1 DEF StatLock, Goto, LockFailed, lstat, StaleInv, Breaking, files, members
  <2> QED
    BY <2>1, <2>2, <2>3, <2>4, <2>5
<1>2. ASSUME NEW p \in Proc, ReadPid(p) PROVE JudgeInv'
  <2>1. OwnInv'
    BY <1>2 DEF ReadPid, Goto, OwnInv, NamedInv, Named, Creating, files, members
  <2>2. LockInv'
    BY <1>2 DEF ReadPid, Goto, LockInv, Past, OwnInv, NamedInv, Named, Creating, files, members
  <2>3. SeenInv'
    BY <1>2 DEF ReadPid, Goto, SeenInv, LockInv, Past, OwnInv, NamedInv, Named, Creating, files, members
  <2>4. PidInv'
    BY <1>2 DEF ReadPid, Goto, PidInv, SeenInv, LockInv, Past, OwnInv, NamedInv, Named, Creating, files, members
  <2>5. StaleInv'
    BY <1>2 DEF ReadPid, Goto, StaleInv, Breaking, files, members
  <2> QED
    BY <2>1, <2>2, <2>3, <2>4, <2>5
<1>3. ASSUME NEW p \in Proc, CreateUnique(p) PROVE JudgeInv'
  <2>1. OwnInv'
    BY <1>3 DEF CreateUnique, Goto, NameOwn, Free, Forget, OwnInv, NamedInv, Named, Creating, files, members
  <2>2. LockInv'
    BY <1>3 DEF CreateUnique, Goto, NameOwn, Free, Forget, LockInv, Past, OwnInv, NamedInv, Named, Creating, files, members
  <2>3. SeenInv'
    BY <1>3 DEF CreateUnique, Goto, NameOwn, Free, Forget, SeenInv, LockInv, Past, OwnInv, NamedInv, Named, Creating, files, members
  <2>4. PidInv'
    BY <1>3 DEF CreateUnique, Goto, NameOwn, Free, Forget, PidInv, SeenInv, LockInv, Past, OwnInv, NamedInv, Named, Creating, files, members
  <2>5. StaleInv'
    BY <1>3 DEF CreateUnique, Goto, NameOwn, Free, Forget, StaleInv, Breaking, files, members
  <2> QED
    BY <2>1, <2>2, <2>3, <2>4, <2>5
<1>4. ASSUME NEW p \in Proc, LinkUnique(p) PROVE JudgeInv'
  <2>1. OwnInv'
    BY <1>4 DEF LinkUnique, Goto, OwnInv, NamedInv, Named, Creating, files, members
  <2>2. LockInv'
    BY <1>4 DEF LinkUnique, Goto, LockInv, Past, OwnInv, NamedInv, Named, Creating, files, members
  <2>3. SeenInv'
    BY <1>4 DEF LinkUnique, Goto, SeenInv, LockInv, Past, OwnInv, NamedInv, Named, Creating, files, members
  <2>4. PidInv'
    BY <1>4 DEF LinkUnique, Goto, PidInv, SeenInv, LockInv, Past, OwnInv, NamedInv, Named, Creating, files, members
  <2>5. StaleInv'
    BY <1>4 DEF LinkUnique, Goto, StaleInv, Breaking, files, members
  <2> QED
    BY <2>1, <2>2, <2>3, <2>4, <2>5
<1>5. ASSUME NEW p \in Proc, Verify(p) PROVE JudgeInv'
  <2>1. OwnInv'
    BY <1>5 DEF Verify, Goto, lstat, OwnInv, NamedInv, Named, Creating, files, members
  <2>2. LockInv'
    BY <1>5 DEF Verify, Goto, lstat, LockInv, Past, OwnInv, NamedInv, Named, Creating, files, members
  <2>3. SeenInv'
    BY <1>5 DEF Verify, Goto, lstat, SeenInv, LockInv, Past, OwnInv, NamedInv, Named, Creating, files, members
  <2>4. PidInv'
    BY <1>5 DEF Verify, Goto, lstat, PidInv, SeenInv, LockInv, Past, OwnInv, NamedInv, Named, Creating, files, members
  <2>5. StaleInv'
    BY <1>5 DEF Verify, Goto, lstat, StaleInv, Breaking, files, members
  <2> QED
    BY <2>1, <2>2, <2>3, <2>4, <2>5
<1>6. ASSUME NEW p \in Proc, VerifyLock(p) PROVE JudgeInv'
  <2>1. OwnInv'
    BY <1>6 DEF VerifyLock, Goto, lstat, OwnInv, NamedInv, Named, Creating, files, members
  <2>2. LockInv'
    BY <1>6 DEF VerifyLock, Goto, lstat, LockInv, Past, OwnInv, NamedInv, Named, Creating, files, members
  <2>3. SeenInv'
    BY <1>6 DEF VerifyLock, Goto, lstat, SeenInv, LockInv, Past, OwnInv, NamedInv, Named, Creating, files, members
  <2>4. PidInv'
    BY <1>6 DEF VerifyLock, Goto, lstat, PidInv, SeenInv, LockInv, Past, OwnInv, NamedInv, Named, Creating, files, members
  <2>5. StaleInv'
    BY <1>6 DEF VerifyLock, Goto, lstat, StaleInv, Breaking, files, members
  <2> QED
    BY <2>1, <2>2, <2>3, <2>4, <2>5
<1>7. ASSUME NEW p \in Proc, Clean(p) PROVE JudgeInv'
  <2>1. OwnInv'
    BY <1>7 DEF Clean, Goto, LockFailed, UnlinkOwn, Forget, OwnInv, NamedInv, Named, Creating, files, members
  <2>2. LockInv'
    BY <1>7 DEF Clean, Goto, LockFailed, UnlinkOwn, Forget, LockInv, Past, OwnInv, NamedInv, Named, Creating, files, members
  <2>3. SeenInv'
    BY <1>7 DEF Clean, Goto, LockFailed, UnlinkOwn, Forget, SeenInv, LockInv, Past, OwnInv, NamedInv, Named, Creating, files, members
  <2>4. PidInv'
    BY <1>7 DEF Clean, Goto, LockFailed, UnlinkOwn, Forget, PidInv, SeenInv, LockInv, Past, OwnInv, NamedInv, Named, Creating, files, members
  <2>5. StaleInv'
    BY <1>7 DEF Clean, Goto, LockFailed, UnlinkOwn, Forget, StaleInv, Breaking, files, members
  <2> QED
    BY <2>1, <2>2, <2>3, <2>4, <2>5
<1>8. ASSUME NEW p \in Proc, Judge(p) PROVE JudgeInv'
  <2>1. OwnInv'
    BY <1>8 DEF Judge, Goto, OwnInv, NamedInv, Named, Creating, files, members
  <2>2. LockInv'
    BY <1>8 DEF Judge, Goto, LockInv, Past, OwnInv, NamedInv, Named, Creating, files, members
  <2>3. SeenInv'
    BY <1>8 DEF Judge, Goto, SeenInv, LockInv, Past, OwnInv, NamedInv, Named, Creating, files, members
  <2>4. PidInv'
    BY <1>8 DEF Judge, Goto, PidInv, SeenInv, LockInv, Past, OwnInv, NamedInv, Named, Creating, files, members
  <2>5. StaleInv'
    BY <1>8 DEF Judge, Goto, StaleInv, Breaking, files, members
  <2> QED
    BY <2>1, <2>2, <2>3, <2>4, <2>5
<1>9. ASSUME NEW p \in Proc, LinkLock(p) PROVE JudgeInv'
  <2>1. OwnInv'
    BY <1>9 DEF LinkLock, Goto, NameOwn, OwnInv, NamedInv, Named, Creating, files, members
  <2>2. LockInv'
    BY <1>9 DEF LinkLock, Goto, NameOwn, LockInv, Past, OwnInv, NamedInv, Named, Creating, files, members
  <2>3. SeenInv'
    BY <1>9 DEF LinkLock, Goto, NameOwn, SeenInv, LockInv, Past, OwnInv, NamedInv, Named, Creating, files, members
  <2>4. PidInv'
    BY <1>9 DEF LinkLock, Goto, NameOwn, PidInv, SeenInv, LockInv, Past, OwnInv, NamedInv, Named, Creating, files, members
  <2>5. StaleInv'
    BY <1>9 DEF LinkLock, Goto, NameOwn, StaleInv, Breaking, files, members
  <2> QED
    BY <2>1, <2>2, <2>3, <2>4, <2>5
<1>10. ASSUME NEW p \in Proc, CheckOwn(p) PROVE JudgeInv'
  <2>1. OwnInv'
    BY <1>10 DEF CheckOwn, Goto, OwnInv, NamedInv, Named, Creating, files, members
  <2>2. LockInv'
    BY <1>10 DEF CheckOwn, Goto, LockInv, Past, OwnInv, NamedInv, Named, Creating, files, members
  <2>3. SeenInv'
    BY <1>10 DEF CheckOwn, Goto, SeenInv, LockInv, Past, OwnInv, NamedInv, Named, Creating, files, members
  <2>4. PidInv'
    BY <1>10 DEF CheckOwn, Goto, PidInv, SeenInv, LockInv, Past, OwnInv, NamedInv, Named, Creating, files, members
  <2>5. StaleInv'
    BY <1>10 DEF CheckOwn, Goto, StaleInv, Breaking, files, members
  <2> QED
    BY <2>1, <2>2, <2>3, <2>4, <2>5
<1>11. ASSUME NEW p \in Proc, CheckLock(p) PROVE JudgeInv'
  <2>1. OwnInv'
    BY <1>11 DEF CheckLock, Goto, Expected, lstat, OwnInv, NamedInv, Named, Creating, files, members
  <2>2. LockInv'
    BY <1>11 DEF CheckLock, Goto, Expected, lstat, LockInv, Past, OwnInv, NamedInv, Named, Creating, files, members
  <2>3. SeenInv'
    BY <1>11 DEF CheckLock, Goto, Expected, lstat, SeenInv, LockInv, Past, OwnInv, NamedInv, Named, Creating, files, members
  <2>4. PidInv'
    BY <1>11 DEF CheckLock, Goto, Expected, lstat, PidInv, SeenInv, LockInv, Past, OwnInv, NamedInv, Named, Creating, files, members
  <2>5. StaleInv'
    BY <1>11 DEF CheckLock, Goto, Expected, lstat, StaleInv, Breaking, files, members
  <2> QED
    BY <2>1, <2>2, <2>3, <2>4, <2>5
<1>12. ASSUME NEW p \in Proc, TestLink(p) PROVE JudgeInv'
  <2>1. OwnInv'
    BY <1>12 DEF TestLink, Goto, OwnInv, NamedInv, Named, Creating, files, members
  <2>2. LockInv'
    BY <1>12 DEF TestLink, Goto, LockInv, Past, OwnInv, NamedInv, Named, Creating, files, members
  <2>3. SeenInv'
    BY <1>12 DEF TestLink, Goto, SeenInv, LockInv, Past, OwnInv, NamedInv, Named, Creating, files, members
  <2>4. PidInv'
    BY <1>12 DEF TestLink, Goto, PidInv, SeenInv, LockInv, Past, OwnInv, NamedInv, Named, Creating, files, members
  <2>5. StaleInv'
    BY <1>12 DEF TestLink, Goto, StaleInv, Breaking, files, members
  <2> QED
    BY <2>1, <2>2, <2>3, <2>4, <2>5
<1>13. ASSUME NEW p \in Proc, TestStat(p) PROVE JudgeInv'
  <2>1. OwnInv'
    BY <1>13 DEF TestStat, Goto, OwnInv, NamedInv, Named, Creating, files, members
  <2>2. LockInv'
    BY <1>13 DEF TestStat, Goto, LockInv, Past, OwnInv, NamedInv, Named, Creating, files, members
  <2>3. SeenInv'
    BY <1>13 DEF TestStat, Goto, SeenInv, LockInv, Past, OwnInv, NamedInv, Named, Creating, files, members
  <2>4. PidInv'
    BY <1>13 DEF TestStat, Goto, PidInv, SeenInv, LockInv, Past, OwnInv, NamedInv, Named, Creating, files, members
  <2>5. StaleInv'
    BY <1>13 DEF TestStat, Goto, StaleInv, Breaking, files, members
  <2> QED
    BY <2>1, <2>2, <2>3, <2>4, <2>5
<1>14. ASSUME NEW p \in Proc, TestUnlink(p) PROVE JudgeInv'
  <2>1. OwnInv'
    BY <1>14 DEF TestUnlink, Goto, OwnInv, NamedInv, Named, Creating, files, members
  <2>2. LockInv'
    BY <1>14 DEF TestUnlink, Goto, LockInv, Past, OwnInv, NamedInv, Named, Creating, files, members
  <2>3. SeenInv'
    BY <1>14 DEF TestUnlink, Goto, SeenInv, LockInv, Past, OwnInv, NamedInv, Named, Creating, files, members
  <2>4. PidInv'
    BY <1>14 DEF TestUnlink, Goto, PidInv, SeenInv, LockInv, Past, OwnInv, NamedInv, Named, Creating, files, members
  <2>5. StaleInv'
    BY <1>14 DEF TestUnlink, Goto, StaleInv, Breaking, files, members
  <2> QED
    BY <2>1, <2>2, <2>3, <2>4, <2>5
<1>15. ASSUME NEW p \in Proc, LastCheck(p) PROVE JudgeInv'
  <2>1. OwnInv'
    BY <1>15 DEF LastCheck, Goto, lstat, OwnInv, NamedInv, Named, Creating, files, members
  <2>2. LockInv'
    BY <1>15 DEF LastCheck, Goto, lstat, LockInv, Past, OwnInv, NamedInv, Named, Creating, files, members
  <2>3. SeenInv'
    BY <1>15 DEF LastCheck, Goto, lstat, SeenInv, LockInv, Past, OwnInv, NamedInv, Named, Creating, files, members
  <2>4. PidInv'
    BY <1>15 DEF LastCheck, Goto, lstat, PidInv, SeenInv, LockInv, Past, OwnInv, NamedInv, Named, Creating, files, members
  <2>5. StaleInv'
    BY <1>15 DEF LastCheck, Goto, lstat, StaleInv, Breaking, files, members
  <2> QED
    BY <2>1, <2>2, <2>3, <2>4, <2>5
<1>16. ASSUME NEW p \in Proc, Break(p) PROVE JudgeInv'
  <2>1. OwnInv'
    BY <1>16 DEF Break, Goto, UnlinkLock, OwnInv, NamedInv, Named, Creating, files, members
  <2>2. LockInv'
    BY <1>16 DEF Break, Goto, UnlinkLock, LockInv, Past, OwnInv, NamedInv, Named, Creating, files, members
  <2>3. SeenInv'
    BY <1>16 DEF Break, Goto, UnlinkLock, SeenInv, LockInv, Past, OwnInv, NamedInv, Named, Creating, files, members
  <2>4. PidInv'
    BY <1>16 DEF Break, Goto, UnlinkLock, PidInv, SeenInv, LockInv, Past, OwnInv, NamedInv, Named, Creating, files, members
  <2>5. StaleInv'
    BY <1>16 DEF Break, Goto, UnlinkLock, StaleInv, Breaking, files, members
  <2> QED
    BY <2>1, <2>2, <2>3, <2>4, <2>5
<1>17. ASSUME NEW p \in Proc, Unbreak(p) PROVE JudgeInv'
  <2>1. OwnInv'
    BY <1>17 DEF Unbreak, Goto, UnlinkOwn, Forget, OwnInv, NamedInv, Named, Creating, files, members
  <2>2. LockInv'
    BY <1>17 DEF Unbreak, Goto, UnlinkOwn, Forget, LockInv, Past, OwnInv, NamedInv, Named, Creating, files, members
  <2>3. SeenInv'
    BY <1>17 DEF Unbreak, Goto, UnlinkOwn, Forget, SeenInv, LockInv, Past, OwnInv, NamedInv, Named, Creating, files, members
  <2>4. PidInv'
    BY <1>17 DEF Unbreak, Goto, UnlinkOwn, Forget, PidInv, SeenInv, LockInv, Past, OwnInv, NamedInv, Named, Creating, files, members
  <2>5. StaleInv'
    BY <1>17 DEF Unbreak, Goto, UnlinkOwn, Forget, StaleInv, Breaking, files, members
  <2> QED
    BY <2>1, <2>2, <2>3, <2>4, <2>5
<1>18. ASSUME NEW p \in Proc, GiveUp(p) PROVE JudgeInv'
  <2>1. OwnInv'
    BY <1>18 DEF GiveUp, Goto, UnlinkOwn, OwnInv, NamedInv, Named, Creating, files, members
  <2>2. LockInv'
    BY <1>18 DEF GiveUp, Goto, UnlinkOwn, LockInv, Past, OwnInv, NamedInv, Named, Creating, files, members
  <2>3. SeenInv'
    BY <1>18 DEF GiveUp, Goto, UnlinkOwn, SeenInv, LockInv, Past, OwnInv, NamedInv, Named, Creating, files, members
  <2>4. PidInv'
    BY <1>18 DEF GiveUp, Goto, UnlinkOwn, PidInv, SeenInv, LockInv, Past, OwnInv, NamedInv, Named, Creating, files, members
  <2>5. StaleInv'
    BY <1>18 DEF GiveUp, Goto, UnlinkOwn, StaleInv, Breaking, files, members
  <2> QED
    BY <2>1, <2>2, <2>3, <2>4, <2>5
<1>19. ASSUME NEW p \in Proc, unlock(p) PROVE JudgeInv'
  <2>1. OwnInv'
    BY <1>19 DEF unlock, Goto, UnlinkLock, OwnInv, NamedInv, Named, Creating, files, members
  <2>2. LockInv'
    BY <1>19 DEF unlock, Goto, UnlinkLock, LockInv, Past, OwnInv, NamedInv, Named, Creating, files, members
  <2>3. SeenInv'
    BY <1>19 DEF unlock, Goto, UnlinkLock, SeenInv, LockInv, Past, OwnInv, NamedInv, Named, Creating, files, members
  <2>4. PidInv'
    BY <1>19 DEF unlock, Goto, UnlinkLock, PidInv, SeenInv, LockInv, Past, OwnInv, NamedInv, Named, Creating, files, members
  <2>5. StaleInv'
    BY <1>19 DEF unlock, Goto, UnlinkLock, StaleInv, Breaking, files, members
  <2> QED
    BY <2>1, <2>2, <2>3, <2>4, <2>5
<1>20. ASSUME NEW p \in Proc, Crash(p) PROVE JudgeInv'
  <2>1. OwnInv'
    BY <1>20 DEF Crash, Goto, OwnInv, NamedInv, Named, Creating, files, members
  <2>2. LockInv'
    BY <1>20 DEF Crash, Goto, LockInv, Past, OwnInv, NamedInv, Named, Creating, files, members
  <2>3. SeenInv'
    BY <1>20 DEF Crash, Goto, SeenInv, LockInv, Past, OwnInv, NamedInv, Named, Creating, files, members
  <2>4. PidInv'
    BY <1>20 DEF Crash, Goto, PidInv, SeenInv, LockInv, Past, OwnInv, NamedInv, Named, Creating, files, members
  <2>5. StaleInv'
    BY <1>20 DEF Crash, Goto, StaleInv, Breaking, files, members
  <2> QED
    BY <2>1, <2>2, <2>3, <2>4, <2>5
<1>21. CASE UNCHANGED vars
  BY <1>21 DEF vars, files, members, OwnInv, LockInv, Past, SeenInv, PidInv, StaleInv
<1> QED
  BY <1>1, <1>2, <1>3, <1>4, <1>5, <1>6, <1>7, <1>8, <1>9, <1>10, <1>11, <1>12, <1>13, <1>14, <1>15, <1>16, <1>17, <1>18, <1>19, <1>20, <1>21 DEF Next, Step

\* A process that is about to delete a lock it found to be stale deletes that of a
\* dead process, if it deletes the one it looked at: for any number of breakers, when
\* inode numbers are not used again and no lock of a live process gets older than
\* staleTime.  The lock's pid is read after its inode (klockfile.cpp:313, 325), so that
\* it may be that of another lock: but then the inode remembered is never the lock
\* again.
THEOREM StaleLocksJudgedRight == ASSUME ~Reuse, ~StaleByTime PROVE Spec => []JudgedRight
<1>1. Init => JudgeInv
  BY JudgeInit
<1>2. JudgeInv /\ [Next]_vars => JudgeInv'
  BY JudgeStep
<1>3. JudgeInv => JudgedRight
  BY DEF JudgeInv, JudgedRight, StaleInv, PidInv
<1> QED
  BY <1>1, <1>2, <1>3, PTL DEF Spec

-----------------------------------------------------------------------------
(* Mutual exclusion.                                                       *)

HolderInv == \A p \in Proc : pc[p] \in Holding => lock # None /\ writer[lock] = p

\* The lock that is about to be deleted is the one that was found to be stale.
BreakInv ==
  \A p \in Proc :
    /\ pc[p] \in Breaking \union {"judge", "read"} => statBuf[p] # None
    /\ pc[p] \in {"verifyLock", "cleanFail"} => st_buf[p] # None
    /\ pc[p] = "break" => lock = statBuf[p].ino

\* The names of the inode i: the lock file's, the temporary ones, and those that
\* testLinkCountSupport() makes.
Tests(p) == pc[p] \in {"testStat", "testUnlink"}
Names(i) ==
  {x \in (Proc \union {None}) \X {"own", "test", "lock"} :
     \/ x[1] = None /\ x[2] = "lock" /\ lock = i
     \/ x[1] \in Proc /\ own[x[1]] = i /\ (x[2] = "own" \/ (x[2] = "test" /\ Tests(x[1])))}

\* A file that has a name has a link count, and is not free: links of processes that
\* died between two steps of testLinkCountSupport() may be left, so it is no equality.
LinksInv == \A i \in Inodes : Cardinality(Names(i)) <= links[i]
HoldInv == TypeOK /\ NamedInv /\ OwnInv /\ HolderInv /\ BreakInv /\ LinksInv

LEMMA NamesFinite ==
  (\A i : IsFiniteSet(Names(i))) /\ (\A i : IsFiniteSet(Names(i)'))
<1>1. IsFiniteSet((Proc \union {None}) \X {"own", "test", "lock"})
  <2>1. IsFiniteSet(Proc \union {None})
    BY ProcAssumption, FS_AddElement
  <2>2. IsFiniteSet({"own", "test", "lock"})
    <3>1. IsFiniteSet({"own"})
      BY FS_Singleton
    <3>2. IsFiniteSet({"own"} \union {"test"})
      BY <3>1, FS_AddElement
    <3>3. IsFiniteSet(({"own"} \union {"test"}) \union {"lock"})
      BY <3>2, FS_AddElement
    <3>4. {"own", "test", "lock"} = ({"own"} \union {"test"}) \union {"lock"}
      OBVIOUS
    <3> QED
      BY <3>3, <3>4
  <2> QED
    BY <2>1, <2>2, FS_Product
<1>2. \A i : /\ Names(i) \subseteq (Proc \union {None}) \X {"own", "test", "lock"}
             /\ Names(i)' \subseteq (Proc \union {None}) \X {"own", "test", "lock"}
  BY DEF Names
<1> QED
  BY <1>1, <1>2, FS_Subset

\* A set with no more than one element more than another is no bigger by more than one.
LEMMA AtMostOneMore ==
  ASSUME NEW S, NEW T, NEW x, IsFiniteSet(S), T \subseteq S \union {x}
  PROVE  Cardinality(T) <= Cardinality(S) + 1
<1>1. /\ IsFiniteSet(S \union {x}) /\ Cardinality(S) \in Nat
      /\ Cardinality(S \union {x}) = Cardinality(S)
           \/ Cardinality(S \union {x}) = Cardinality(S) + 1
  BY FS_AddElement, FS_CardinalityType
<1>2. Cardinality(T) <= Cardinality(S \union {x}) /\ Cardinality(T) \in Nat
  BY <1>1, FS_Subset, FS_CardinalityType
<1> QED
  BY <1>1, <1>2

LEMMA OneLess ==
  ASSUME NEW S, NEW T, NEW x \in S, IsFiniteSet(S), T \subseteq S \ {x}
  PROVE  Cardinality(T) <= Cardinality(S) - 1
<1>1. IsFiniteSet(S \ {x}) /\ Cardinality(S \ {x}) = Cardinality(S) - 1
  BY FS_RemoveElement
<1>2. Cardinality(T) <= Cardinality(S \ {x})
  BY <1>1, FS_Subset
<1> QED
  BY <1>1, <1>2

\* What has a name is not free.
LEMMA NamedIsUsed ==
  ASSUME TypeOK, LinksInv, NEW i \in Inodes, Names(i) # {} PROVE links[i] > 0
<1>1. Cardinality(Names(i)) \in Nat /\ Cardinality(Names(i)) # 0
  BY NamesFinite, FS_CardinalityType, FS_EmptySet
<1> QED
  BY <1>1 DEF LinksInv, TypeOK

LEMMA UsedIsNotFree ==
  ASSUME TypeOK, LinksInv, NEW i \in Free
  PROVE  lock # i /\ \A p \in Proc : own[p] # i
<1>1. i \in Inodes /\ Names(i) = {}
  BY NamedIsUsed DEF Free, TypeOK
<1>2. <<None, "lock">> \notin Names(i) /\ \A p \in Proc : <<p, "own">> \notin Names(i)
  BY <1>1
<1>3. lock # i
  BY <1>2 DEF Names
<1>4. \A p \in Proc : own[p] # i
  BY <1>2 DEF Names
<1> QED
  BY <1>3, <1>4

\* The names of an inode change with its link count.
Stays(i) == Names(i)' \subseteq Names(i) /\ links'[i] = links[i]
Gains(i, x) == Names(i)' \subseteq Names(i) \union {x} /\ links'[i] = links[i] + 1
Loses(i, x) ==
  x \in Names(i) /\ Names(i)' \subseteq Names(i) \ {x} /\ links'[i] = links[i] - 1

LEMMA LinksKept ==
  ASSUME TypeOK, LinksInv, TypeOK',
         \A i \in Inodes : Stays(i) \/ \E x : Gains(i, x) \/ Loses(i, x)
  PROVE  LinksInv'
<1> SUFFICES ASSUME NEW i \in Inodes PROVE Cardinality(Names(i)') <= links'[i]
  BY DEF LinksInv
<1>1. IsFiniteSet(Names(i)) /\ IsFiniteSet(Names(i)')
  BY NamesFinite
<1>2. Cardinality(Names(i)) \in Nat /\ Cardinality(Names(i)') \in Nat
      /\ Cardinality(Names(i)) <= links[i] /\ links[i] \in Int /\ links'[i] \in Int
  BY <1>1, FS_CardinalityType DEF LinksInv, TypeOK
<1>3. CASE Stays(i)
  <2>1. Cardinality(Names(i)') <= Cardinality(Names(i))
    BY <1>1, <1>3, FS_Subset DEF Stays
  <2> QED
    BY <1>2, <1>3, <2>1 DEF Stays
<1>4. ASSUME NEW x, Gains(i, x) PROVE Cardinality(Names(i)') <= links'[i]
  <2>1. Cardinality(Names(i)') <= Cardinality(Names(i)) + 1
    BY <1>1, <1>4, AtMostOneMore DEF Gains
  <2> QED
    BY <1>2, <1>4, <2>1 DEF Gains
<1>5. ASSUME NEW x, Loses(i, x) PROVE Cardinality(Names(i)') <= links'[i]
  <2>1. Cardinality(Names(i)') <= Cardinality(Names(i)) - 1
    BY <1>1, <1>5, OneLess DEF Loses
  <2> QED
    BY <1>2, <1>5, <2>1 DEF Loses
<1> QED
  BY <1>3, <1>4, <1>5

LEMMA HoldInit == Init => HoldInv
<1> SUFFICES ASSUME Init PROVE HoldInv
  OBVIOUS
<1>1. TypeOK /\ NamedInv
  BY LockTypeInit
<1>2. ASSUME NEW i \in Inodes PROVE Cardinality(Names(i)) <= links[i]
  <2>1. Names(i) = {}
    BY NoneAssumption DEF Init, Names
  <2> QED
    BY <2>1, FS_EmptySet DEF Init
<1> QED
  BY <1>1, <1>2 DEF Init, HoldInv, OwnInv, HolderInv, Holding, BreakInv, Breaking, Creating,
     LinksInv

LEMMA HoldStep == HoldInv /\ OneBreaks /\ JudgedRight /\ [Next]_vars => HoldInv'
<1> SUFFICES ASSUME HoldInv, OneBreaks, JudgedRight, [Next]_vars PROVE HoldInv'
  OBVIOUS
<1>a. (TypeOK /\ NamedInv)'
  BY LockTypeStep DEF HoldInv
<1>b. \A i \in Free : lock # i /\ \A p \in Proc : own[p] # i
  BY UsedIsNotFree DEF HoldInv
<1>c. (\A i \in Inodes : Stays(i) \/ \E x : Gains(i, x) \/ Loses(i, x)) => LinksInv'
  BY <1>a, LinksKept DEF HoldInv
<1> USE NoneAssumption, <1>a, <1>b DEF HoldInv, TypeOK, Stat
<1>1. ASSUME NEW p \in Proc, StatLock(p) PROVE HoldInv'
  <2>1. OwnInv'
    BY <1>1 DEF StatLock, Goto, LockFailed, lstat, OwnInv, NamedInv, Named, Creating, files, members
  <2>2. HolderInv'
    BY <1>1 DEF StatLock, Goto, LockFailed, lstat, HolderInv, Holding, OwnInv, NamedInv, Named, Creating, BreakInv, Breaking, JudgedRight, files, members
  <2>3. BreakInv'
    BY <1>1 DEF StatLock, Goto, LockFailed, lstat, BreakInv, Breaking, OneBreaks, JudgedRight, HolderInv, Holding, NamedInv, Named, Creating, files, members
  <2>4. LinksInv'
    <3>1. \A i \in Inodes : Stays(i)
      BY <1>1 DEF StatLock, Goto, LockFailed, lstat, Stays, Names, Tests, NamedInv, Named, Creating, files, members
    <3> QED
      BY <3>1, <1>c
  <2> QED
    BY <2>1, <2>2, <2>3, <2>4
<1>2. ASSUME NEW p \in Proc, ReadPid(p) PROVE HoldInv'
  <2>1. OwnInv'
    BY <1>2 DEF ReadPid, Goto, OwnInv, NamedInv, Named, Creating, files, members
  <2>2. HolderInv'
    BY <1>2 DEF ReadPid, Goto, HolderInv, Holding, OwnInv, NamedInv, Named, Creating, BreakInv, Breaking, JudgedRight, files, members
  <2>3. BreakInv'
    BY <1>2 DEF ReadPid, Goto, BreakInv, Breaking, OneBreaks, JudgedRight, HolderInv, Holding, NamedInv, Named, Creating, files, members
  <2>4. LinksInv'
    <3>1. \A i \in Inodes : Stays(i)
      BY <1>2 DEF ReadPid, Goto, Stays, Names, Tests, NamedInv, Named, Creating, files, members
    <3> QED
      BY <3>1, <1>c
  <2> QED
    BY <2>1, <2>2, <2>3, <2>4
<1>3. ASSUME NEW p \in Proc, CreateUnique(p) PROVE HoldInv'
  <2>1. OwnInv'
    BY <1>3 DEF CreateUnique, Goto, NameOwn, Free, Forget, OwnInv, NamedInv, Named, Creating, files, members
  <2>2. HolderInv'
    BY <1>3 DEF CreateUnique, Goto, NameOwn, Free, Forget, HolderInv, Holding, OwnInv, NamedInv, Named, Creating, BreakInv, Breaking, JudgedRight, files, members
  <2>3. BreakInv'
    BY <1>3 DEF CreateUnique, Goto, NameOwn, Free, Forget, BreakInv, Breaking, OneBreaks, JudgedRight, HolderInv, Holding, NamedInv, Named, Creating, files, members
  <2>4. LinksInv'
    <3>1. CASE Free = {}
      <4>1. \A i \in Inodes : Stays(i)
        BY <1>3, <3>1 DEF CreateUnique, Goto, NameOwn, Free, Forget, Stays, Names, Tests, NamedInv, Named, Creating, files, members
      <4> QED
        BY <4>1, <1>c
    <3>2. CASE Free # {}
      <4>0. PICK j \in Free : NameOwn(p, j) /\ lock' = lock /\ Goto(p, "link")
        BY <1>3, <3>2 DEF CreateUnique, Goto, NameOwn, Free, Forget, NamedInv, Named, Creating
      <4>1. \A i \in Inodes : i # j => Stays(i)
        BY <1>3, <3>2, <4>0 DEF CreateUnique, Goto, NameOwn, Free, Forget, Stays, Names, Tests, NamedInv, Named, Creating, files, members
      <4>2. Gains(j, <<p, "own">>)
        <5>1. Names(j)' \subseteq Names(j) \union {<<p, "own">>}
          BY <1>3, <3>2, <4>0 DEF CreateUnique, Goto, NameOwn, Free, Forget, Names, Tests, NamedInv, Named, Creating, files, members
        <5>2. links'[j] = links[j] + 1
          BY <1>3, <3>2, <4>0 DEF CreateUnique, Goto, NameOwn, Free, Forget, Free, files, members
        <5> QED
          BY <5>1, <5>2 DEF Gains
      <4> QED
        BY <4>1, <4>2, <1>c
    <3> QED
      BY <3>1, <3>2
  <2> QED
    BY <2>1, <2>2, <2>3, <2>4
<1>4. ASSUME NEW p \in Proc, LinkUnique(p) PROVE HoldInv'
  <2>1. OwnInv'
    BY <1>4 DEF LinkUnique, Goto, OwnInv, NamedInv, Named, Creating, files, members
  <2>2. HolderInv'
    BY <1>4 DEF LinkUnique, Goto, HolderInv, Holding, OwnInv, NamedInv, Named, Creating, BreakInv, Breaking, JudgedRight, files, members
  <2>3. BreakInv'
    BY <1>4 DEF LinkUnique, Goto, BreakInv, Breaking, OneBreaks, JudgedRight, HolderInv, Holding, NamedInv, Named, Creating, files, members
  <2>4. LinksInv'
    <3>1. CASE lock # None
      <4>1. \A i \in Inodes : Stays(i)
        BY <1>4, <3>1 DEF LinkUnique, Goto, Stays, Names, Tests, NamedInv, Named, Creating, files, members
      <4> QED
        BY <4>1, <1>c
    <3>2. CASE lock = None
      <4>0. PICK j \in Inodes : own[p] = j
        BY <1>4, <3>2 DEF LinkUnique, Goto, NamedInv, Named, Creating
      <4>1. \A i \in Inodes : i # j => Stays(i)
        BY <1>4, <3>2, <4>0 DEF LinkUnique, Goto, Stays, Names, Tests, NamedInv, Named, Creating, files, members
      <4>2. Gains(j, <<None, "lock">>)
        <5>1. Names(j)' \subseteq Names(j) \union {<<None, "lock">>}
          BY <1>4, <3>2, <4>0 DEF LinkUnique, Goto, Names, Tests, NamedInv, Named, Creating, files, members
        <5>2. links'[j] = links[j] + 1
          BY <1>4, <3>2, <4>0 DEF LinkUnique, Goto, Free, files, members
        <5> QED
          BY <5>1, <5>2 DEF Gains
      <4> QED
        BY <4>1, <4>2, <1>c
    <3> QED
      BY <3>1, <3>2
  <2> QED
    BY <2>1, <2>2, <2>3, <2>4
<1>5. ASSUME NEW p \in Proc, Verify(p) PROVE HoldInv'
  <2>1. OwnInv'
    BY <1>5 DEF Verify, Goto, lstat, OwnInv, NamedInv, Named, Creating, files, members
  <2>2. HolderInv'
    BY <1>5 DEF Verify, Goto, lstat, HolderInv, Holding, OwnInv, NamedInv, Named, Creating, BreakInv, Breaking, JudgedRight, files, members
  <2>3. BreakInv'
    BY <1>5 DEF Verify, Goto, lstat, BreakInv, Breaking, OneBreaks, JudgedRight, HolderInv, Holding, NamedInv, Named, Creating, files, members
  <2>4. LinksInv'
    <3>1. \A i \in Inodes : Stays(i)
      BY <1>5 DEF Verify, Goto, lstat, Stays, Names, Tests, NamedInv, Named, Creating, files, members
    <3> QED
      BY <3>1, <1>c
  <2> QED
    BY <2>1, <2>2, <2>3, <2>4
<1>6. ASSUME NEW p \in Proc, VerifyLock(p) PROVE HoldInv'
  <2>1. OwnInv'
    BY <1>6 DEF VerifyLock, Goto, lstat, OwnInv, NamedInv, Named, Creating, files, members
  <2>2. HolderInv'
    BY <1>6 DEF VerifyLock, Goto, lstat, HolderInv, Holding, OwnInv, NamedInv, Named, Creating, BreakInv, Breaking, JudgedRight, files, members
  <2>3. BreakInv'
    BY <1>6 DEF VerifyLock, Goto, lstat, BreakInv, Breaking, OneBreaks, JudgedRight, HolderInv, Holding, NamedInv, Named, Creating, files, members
  <2>4. LinksInv'
    <3>1. \A i \in Inodes : Stays(i)
      BY <1>6 DEF VerifyLock, Goto, lstat, Stays, Names, Tests, NamedInv, Named, Creating, files, members
    <3> QED
      BY <3>1, <1>c
  <2> QED
    BY <2>1, <2>2, <2>3, <2>4
<1>7. ASSUME NEW p \in Proc, Clean(p) PROVE HoldInv'
  <2>1. OwnInv'
    BY <1>7 DEF Clean, Goto, LockFailed, UnlinkOwn, Forget, OwnInv, NamedInv, Named, Creating, files, members
  <2>2. HolderInv'
    BY <1>7 DEF Clean, Goto, LockFailed, UnlinkOwn, Forget, HolderInv, Holding, OwnInv, NamedInv, Named, Creating, BreakInv, Breaking, JudgedRight, files, members
  <2>3. BreakInv'
    BY <1>7 DEF Clean, Goto, LockFailed, UnlinkOwn, Forget, BreakInv, Breaking, OneBreaks, JudgedRight, HolderInv, Holding, NamedInv, Named, Creating, files, members
  <2>4. LinksInv'
    <3>0. PICK j \in Inodes : own[p] = j
      BY <1>7 DEF Clean, Goto, LockFailed, UnlinkOwn, Forget, NamedInv, Named, Creating
    <3>1. \A i \in Inodes : i # j => Stays(i)
      BY <1>7, <3>0 DEF Clean, Goto, LockFailed, UnlinkOwn, Forget, Stays, Names, Tests, NamedInv, Named, Creating, files, members
    <3>2. Loses(j, <<p, "own">>)
      <4>1. Names(j)' \subseteq Names(j) \ {<<p, "own">>} /\ <<p, "own">> \in Names(j)
        BY <1>7, <3>0 DEF Clean, Goto, LockFailed, UnlinkOwn, Forget, Names, Tests, NamedInv, Named, Creating, files, members
      <4>2. links'[j] = links[j] - 1
        BY <1>7, <3>0 DEF Clean, Goto, LockFailed, UnlinkOwn, Forget, Free, files, members
      <4> QED
        BY <4>1, <4>2 DEF Loses
    <3> QED
      BY <3>1, <3>2, <1>c
  <2> QED
    BY <2>1, <2>2, <2>3, <2>4
<1>8. ASSUME NEW p \in Proc, Judge(p) PROVE HoldInv'
  <2>1. OwnInv'
    BY <1>8 DEF Judge, Goto, OwnInv, NamedInv, Named, Creating, files, members
  <2>2. HolderInv'
    BY <1>8 DEF Judge, Goto, HolderInv, Holding, OwnInv, NamedInv, Named, Creating, BreakInv, Breaking, JudgedRight, files, members
  <2>3. BreakInv'
    BY <1>8 DEF Judge, Goto, BreakInv, Breaking, OneBreaks, JudgedRight, HolderInv, Holding, NamedInv, Named, Creating, files, members
  <2>4. LinksInv'
    <3>1. \A i \in Inodes : Stays(i)
      BY <1>8 DEF Judge, Goto, Stays, Names, Tests, NamedInv, Named, Creating, files, members
    <3> QED
      BY <3>1, <1>c
  <2> QED
    BY <2>1, <2>2, <2>3, <2>4
<1>9. ASSUME NEW p \in Proc, LinkLock(p) PROVE HoldInv'
  <2>1. OwnInv'
    BY <1>9 DEF LinkLock, Goto, NameOwn, OwnInv, NamedInv, Named, Creating, files, members
  <2>2. HolderInv'
    BY <1>9 DEF LinkLock, Goto, NameOwn, HolderInv, Holding, OwnInv, NamedInv, Named, Creating, BreakInv, Breaking, JudgedRight, files, members
  <2>3. BreakInv'
    BY <1>9 DEF LinkLock, Goto, NameOwn, BreakInv, Breaking, OneBreaks, JudgedRight, HolderInv, Holding, NamedInv, Named, Creating, files, members
  <2>4. LinksInv'
    <3>1. CASE lock = None
      <4>1. \A i \in Inodes : Stays(i)
        BY <1>9, <3>1 DEF LinkLock, Goto, NameOwn, Stays, Names, Tests, NamedInv, Named, Creating, files, members
      <4> QED
        BY <4>1, <1>c
    <3>2. CASE lock # None
      <4>0. PICK j \in Inodes : lock = j
        BY <1>9, <3>2 DEF LinkLock, Goto, NameOwn, NamedInv, Named, Creating
      <4>1. \A i \in Inodes : i # j => Stays(i)
        BY <1>9, <3>2, <4>0 DEF LinkLock, Goto, NameOwn, Stays, Names, Tests, NamedInv, Named, Creating, files, members
      <4>2. Gains(j, <<p, "own">>)
        <5>1. Names(j)' \subseteq Names(j) \union {<<p, "own">>}
          BY <1>9, <3>2, <4>0 DEF LinkLock, Goto, NameOwn, Names, Tests, NamedInv, Named, Creating, files, members
        <5>2. links'[j] = links[j] + 1
          BY <1>9, <3>2, <4>0 DEF LinkLock, Goto, NameOwn, Free, files, members
        <5> QED
          BY <5>1, <5>2 DEF Gains
      <4> QED
        BY <4>1, <4>2, <1>c
    <3> QED
      BY <3>1, <3>2
  <2> QED
    BY <2>1, <2>2, <2>3, <2>4
<1>10. ASSUME NEW p \in Proc, CheckOwn(p) PROVE HoldInv'
  <2>1. OwnInv'
    BY <1>10 DEF CheckOwn, Goto, OwnInv, NamedInv, Named, Creating, files, members
  <2>2. HolderInv'
    BY <1>10 DEF CheckOwn, Goto, HolderInv, Holding, OwnInv, NamedInv, Named, Creating, BreakInv, Breaking, JudgedRight, files, members
  <2>3. BreakInv'
    BY <1>10 DEF CheckOwn, Goto, BreakInv, Breaking, OneBreaks, JudgedRight, HolderInv, Holding, NamedInv, Named, Creating, files, members
  <2>4. LinksInv'
    <3>1. \A i \in Inodes : Stays(i)
      BY <1>10 DEF CheckOwn, Goto, Stays, Names, Tests, NamedInv, Named, Creating, files, members
    <3> QED
      BY <3>1, <1>c
  <2> QED
    BY <2>1, <2>2, <2>3, <2>4
<1>11. ASSUME NEW p \in Proc, CheckLock(p) PROVE HoldInv'
  <2>1. OwnInv'
    BY <1>11 DEF CheckLock, Goto, Expected, lstat, OwnInv, NamedInv, Named, Creating, files, members
  <2>2. HolderInv'
    BY <1>11 DEF CheckLock, Goto, Expected, lstat, HolderInv, Holding, OwnInv, NamedInv, Named, Creating, BreakInv, Breaking, JudgedRight, files, members
  <2>3. BreakInv'
    BY <1>11 DEF CheckLock, Goto, Expected, lstat, BreakInv, Breaking, OneBreaks, JudgedRight, HolderInv, Holding, NamedInv, Named, Creating, files, members
  <2>4. LinksInv'
    <3>1. \A i \in Inodes : Stays(i)
      BY <1>11 DEF CheckLock, Goto, Expected, lstat, Stays, Names, Tests, NamedInv, Named, Creating, files, members
    <3> QED
      BY <3>1, <1>c
  <2> QED
    BY <2>1, <2>2, <2>3, <2>4
<1>12. ASSUME NEW p \in Proc, TestLink(p) PROVE HoldInv'
  <2>1. OwnInv'
    BY <1>12 DEF TestLink, Goto, OwnInv, NamedInv, Named, Creating, files, members
  <2>2. HolderInv'
    BY <1>12 DEF TestLink, Goto, HolderInv, Holding, OwnInv, NamedInv, Named, Creating, BreakInv, Breaking, JudgedRight, files, members
  <2>3. BreakInv'
    BY <1>12 DEF TestLink, Goto, BreakInv, Breaking, OneBreaks, JudgedRight, HolderInv, Holding, NamedInv, Named, Creating, files, members
  <2>4. LinksInv'
    <3>0. PICK j \in Inodes : own[p] = j
      BY <1>12 DEF TestLink, Goto, NamedInv, Named, Creating
    <3>1. \A i \in Inodes : i # j => Stays(i)
      BY <1>12, <3>0 DEF TestLink, Goto, Stays, Names, Tests, NamedInv, Named, Creating, files, members
    <3>2. Gains(j, <<p, "test">>)
      <4>1. Names(j)' \subseteq Names(j) \union {<<p, "test">>}
        BY <1>12, <3>0 DEF TestLink, Goto, Names, Tests, NamedInv, Named, Creating, files, members
      <4>2. links'[j] = links[j] + 1
        BY <1>12, <3>0 DEF TestLink, Goto, Free, files, members
      <4> QED
        BY <4>1, <4>2 DEF Gains
    <3> QED
      BY <3>1, <3>2, <1>c
  <2> QED
    BY <2>1, <2>2, <2>3, <2>4
<1>13. ASSUME NEW p \in Proc, TestStat(p) PROVE HoldInv'
  <2>1. OwnInv'
    BY <1>13 DEF TestStat, Goto, OwnInv, NamedInv, Named, Creating, files, members
  <2>2. HolderInv'
    BY <1>13 DEF TestStat, Goto, HolderInv, Holding, OwnInv, NamedInv, Named, Creating, BreakInv, Breaking, JudgedRight, files, members
  <2>3. BreakInv'
    BY <1>13 DEF TestStat, Goto, BreakInv, Breaking, OneBreaks, JudgedRight, HolderInv, Holding, NamedInv, Named, Creating, files, members
  <2>4. LinksInv'
    <3>1. \A i \in Inodes : Stays(i)
      BY <1>13 DEF TestStat, Goto, Stays, Names, Tests, NamedInv, Named, Creating, files, members
    <3> QED
      BY <3>1, <1>c
  <2> QED
    BY <2>1, <2>2, <2>3, <2>4
<1>14. ASSUME NEW p \in Proc, TestUnlink(p) PROVE HoldInv'
  <2>1. OwnInv'
    BY <1>14 DEF TestUnlink, Goto, OwnInv, NamedInv, Named, Creating, files, members
  <2>2. HolderInv'
    BY <1>14 DEF TestUnlink, Goto, HolderInv, Holding, OwnInv, NamedInv, Named, Creating, BreakInv, Breaking, JudgedRight, files, members
  <2>3. BreakInv'
    BY <1>14 DEF TestUnlink, Goto, BreakInv, Breaking, OneBreaks, JudgedRight, HolderInv, Holding, NamedInv, Named, Creating, files, members
  <2>4. LinksInv'
    <3>0. PICK j \in Inodes : own[p] = j
      BY <1>14 DEF TestUnlink, Goto, NamedInv, Named, Creating
    <3>1. \A i \in Inodes : i # j => Stays(i)
      BY <1>14, <3>0 DEF TestUnlink, Goto, Stays, Names, Tests, NamedInv, Named, Creating, files, members
    <3>2. Loses(j, <<p, "test">>)
      <4>1. Names(j)' \subseteq Names(j) \ {<<p, "test">>} /\ <<p, "test">> \in Names(j)
        BY <1>14, <3>0 DEF TestUnlink, Goto, Names, Tests, NamedInv, Named, Creating, files, members
      <4>2. links'[j] = links[j] - 1
        BY <1>14, <3>0 DEF TestUnlink, Goto, Free, files, members
      <4> QED
        BY <4>1, <4>2 DEF Loses
    <3> QED
      BY <3>1, <3>2, <1>c
  <2> QED
    BY <2>1, <2>2, <2>3, <2>4
<1>15. ASSUME NEW p \in Proc, LastCheck(p) PROVE HoldInv'
  <2>1. OwnInv'
    BY <1>15 DEF LastCheck, Goto, lstat, OwnInv, NamedInv, Named, Creating, files, members
  <2>2. HolderInv'
    BY <1>15 DEF LastCheck, Goto, lstat, HolderInv, Holding, OwnInv, NamedInv, Named, Creating, BreakInv, Breaking, JudgedRight, files, members
  <2>3. BreakInv'
    BY <1>15 DEF LastCheck, Goto, lstat, BreakInv, Breaking, OneBreaks, JudgedRight, HolderInv, Holding, NamedInv, Named, Creating, files, members
  <2>4. LinksInv'
    <3>1. \A i \in Inodes : Stays(i)
      BY <1>15 DEF LastCheck, Goto, lstat, Stays, Names, Tests, NamedInv, Named, Creating, files, members
    <3> QED
      BY <3>1, <1>c
  <2> QED
    BY <2>1, <2>2, <2>3, <2>4
<1>16. ASSUME NEW p \in Proc, Break(p) PROVE HoldInv'
  <2>1. OwnInv'
    BY <1>16 DEF Break, Goto, UnlinkLock, OwnInv, NamedInv, Named, Creating, files, members
  <2>2. HolderInv'
    BY <1>16 DEF Break, Goto, UnlinkLock, HolderInv, Holding, OwnInv, NamedInv, Named, Creating, BreakInv, Breaking, JudgedRight, files, members
  <2>3. BreakInv'
    BY <1>16 DEF Break, Goto, UnlinkLock, BreakInv, Breaking, OneBreaks, JudgedRight, HolderInv, Holding, NamedInv, Named, Creating, files, members
  <2>4. LinksInv'
    <3>1. CASE lock = None
      <4>1. \A i \in Inodes : Stays(i)
        BY <1>16, <3>1 DEF Break, Goto, UnlinkLock, Stays, Names, Tests, NamedInv, Named, Creating, files, members
      <4> QED
        BY <4>1, <1>c
    <3>2. CASE lock # None
      <4>0. PICK j \in Inodes : lock = j
        BY <1>16, <3>2 DEF Break, Goto, UnlinkLock, NamedInv, Named, Creating
      <4>1. \A i \in Inodes : i # j => Stays(i)
        BY <1>16, <3>2, <4>0 DEF Break, Goto, UnlinkLock, Stays, Names, Tests, NamedInv, Named, Creating, files, members
      <4>2. Loses(j, <<None, "lock">>)
        <5>1. Names(j)' \subseteq Names(j) \ {<<None, "lock">>} /\ <<None, "lock">> \in Names(j)
          BY <1>16, <3>2, <4>0 DEF Break, Goto, UnlinkLock, Names, Tests, NamedInv, Named, Creating, files, members
        <5>2. links'[j] = links[j] - 1
          BY <1>16, <3>2, <4>0 DEF Break, Goto, UnlinkLock, Free, files, members
        <5> QED
          BY <5>1, <5>2 DEF Loses
      <4> QED
        BY <4>1, <4>2, <1>c
    <3> QED
      BY <3>1, <3>2
  <2> QED
    BY <2>1, <2>2, <2>3, <2>4
<1>17. ASSUME NEW p \in Proc, Unbreak(p) PROVE HoldInv'
  <2>1. OwnInv'
    BY <1>17 DEF Unbreak, Goto, UnlinkOwn, Forget, OwnInv, NamedInv, Named, Creating, files, members
  <2>2. HolderInv'
    BY <1>17 DEF Unbreak, Goto, UnlinkOwn, Forget, HolderInv, Holding, OwnInv, NamedInv, Named, Creating, BreakInv, Breaking, JudgedRight, files, members
  <2>3. BreakInv'
    BY <1>17 DEF Unbreak, Goto, UnlinkOwn, Forget, BreakInv, Breaking, OneBreaks, JudgedRight, HolderInv, Holding, NamedInv, Named, Creating, files, members
  <2>4. LinksInv'
    <3>0. PICK j \in Inodes : own[p] = j
      BY <1>17 DEF Unbreak, Goto, UnlinkOwn, Forget, NamedInv, Named, Creating
    <3>1. \A i \in Inodes : i # j => Stays(i)
      BY <1>17, <3>0 DEF Unbreak, Goto, UnlinkOwn, Forget, Stays, Names, Tests, NamedInv, Named, Creating, files, members
    <3>2. Loses(j, <<p, "own">>)
      <4>1. Names(j)' \subseteq Names(j) \ {<<p, "own">>} /\ <<p, "own">> \in Names(j)
        BY <1>17, <3>0 DEF Unbreak, Goto, UnlinkOwn, Forget, Names, Tests, NamedInv, Named, Creating, files, members
      <4>2. links'[j] = links[j] - 1
        BY <1>17, <3>0 DEF Unbreak, Goto, UnlinkOwn, Forget, Free, files, members
      <4> QED
        BY <4>1, <4>2 DEF Loses
    <3> QED
      BY <3>1, <3>2, <1>c
  <2> QED
    BY <2>1, <2>2, <2>3, <2>4
<1>18. ASSUME NEW p \in Proc, GiveUp(p) PROVE HoldInv'
  <2>1. OwnInv'
    BY <1>18 DEF GiveUp, Goto, UnlinkOwn, OwnInv, NamedInv, Named, Creating, files, members
  <2>2. HolderInv'
    BY <1>18 DEF GiveUp, Goto, UnlinkOwn, HolderInv, Holding, OwnInv, NamedInv, Named, Creating, BreakInv, Breaking, JudgedRight, files, members
  <2>3. BreakInv'
    BY <1>18 DEF GiveUp, Goto, UnlinkOwn, BreakInv, Breaking, OneBreaks, JudgedRight, HolderInv, Holding, NamedInv, Named, Creating, files, members
  <2>4. LinksInv'
    <3>0. PICK j \in Inodes : own[p] = j
      BY <1>18 DEF GiveUp, Goto, UnlinkOwn, NamedInv, Named, Creating
    <3>1. \A i \in Inodes : i # j => Stays(i)
      BY <1>18, <3>0 DEF GiveUp, Goto, UnlinkOwn, Stays, Names, Tests, NamedInv, Named, Creating, files, members
    <3>2. Loses(j, <<p, "own">>)
      <4>1. Names(j)' \subseteq Names(j) \ {<<p, "own">>} /\ <<p, "own">> \in Names(j)
        BY <1>18, <3>0 DEF GiveUp, Goto, UnlinkOwn, Names, Tests, NamedInv, Named, Creating, files, members
      <4>2. links'[j] = links[j] - 1
        BY <1>18, <3>0 DEF GiveUp, Goto, UnlinkOwn, Free, files, members
      <4> QED
        BY <4>1, <4>2 DEF Loses
    <3> QED
      BY <3>1, <3>2, <1>c
  <2> QED
    BY <2>1, <2>2, <2>3, <2>4
<1>19. ASSUME NEW p \in Proc, unlock(p) PROVE HoldInv'
  <2>1. OwnInv'
    BY <1>19 DEF unlock, Goto, UnlinkLock, OwnInv, NamedInv, Named, Creating, files, members
  <2>2. HolderInv'
    BY <1>19 DEF unlock, Goto, UnlinkLock, HolderInv, Holding, OwnInv, NamedInv, Named, Creating, BreakInv, Breaking, JudgedRight, files, members
  <2>3. BreakInv'
    BY <1>19 DEF unlock, Goto, UnlinkLock, BreakInv, Breaking, OneBreaks, JudgedRight, HolderInv, Holding, NamedInv, Named, Creating, files, members
  <2>4. LinksInv'
    <3>1. CASE lock = None
      <4>1. \A i \in Inodes : Stays(i)
        BY <1>19, <3>1 DEF unlock, Goto, UnlinkLock, Stays, Names, Tests, NamedInv, Named, Creating, files, members
      <4> QED
        BY <4>1, <1>c
    <3>2. CASE lock # None
      <4>0. PICK j \in Inodes : lock = j
        BY <1>19, <3>2 DEF unlock, Goto, UnlinkLock, NamedInv, Named, Creating
      <4>1. \A i \in Inodes : i # j => Stays(i)
        BY <1>19, <3>2, <4>0 DEF unlock, Goto, UnlinkLock, Stays, Names, Tests, NamedInv, Named, Creating, files, members
      <4>2. Loses(j, <<None, "lock">>)
        <5>1. Names(j)' \subseteq Names(j) \ {<<None, "lock">>} /\ <<None, "lock">> \in Names(j)
          BY <1>19, <3>2, <4>0 DEF unlock, Goto, UnlinkLock, Names, Tests, NamedInv, Named, Creating, files, members
        <5>2. links'[j] = links[j] - 1
          BY <1>19, <3>2, <4>0 DEF unlock, Goto, UnlinkLock, Free, files, members
        <5> QED
          BY <5>1, <5>2 DEF Loses
      <4> QED
        BY <4>1, <4>2, <1>c
    <3> QED
      BY <3>1, <3>2
  <2> QED
    BY <2>1, <2>2, <2>3, <2>4
<1>20. ASSUME NEW p \in Proc, Crash(p) PROVE HoldInv'
  <2>1. OwnInv'
    BY <1>20 DEF Crash, Goto, OwnInv, NamedInv, Named, Creating, files, members
  <2>2. HolderInv'
    BY <1>20 DEF Crash, Goto, HolderInv, Holding, OwnInv, NamedInv, Named, Creating, BreakInv, Breaking, JudgedRight, files, members
  <2>3. BreakInv'
    BY <1>20 DEF Crash, Goto, BreakInv, Breaking, OneBreaks, JudgedRight, HolderInv, Holding, NamedInv, Named, Creating, files, members
  <2>4. LinksInv'
    <3>1. \A i \in Inodes : Stays(i)
      BY <1>20 DEF Crash, Goto, Stays, Names, Tests, NamedInv, Named, Creating, files, members
    <3> QED
      BY <3>1, <1>c
  <2> QED
    BY <2>1, <2>2, <2>3, <2>4
<1>21. CASE UNCHANGED vars
  BY <1>21 DEF vars, files, members, OwnInv, HolderInv, BreakInv, LinksInv, Names, Tests
<1> QED
  BY <1>1, <1>2, <1>3, <1>4, <1>5, <1>6, <1>7, <1>8, <1>9, <1>10, <1>11, <1>12, <1>13, <1>14, <1>15, <1>16, <1>17, <1>18, <1>19, <1>20, <1>21 DEF Next, Step

\* The lock file of a process that has the lock is its own: nobody else's lock is in
\* its place and no breaker has deleted it.  So it is, with any number of breakers and
\* even when inode numbers are used again and locks of live processes get old, as long
\* as no two processes are about to delete the lock at the same time and none has
\* taken the lock of a live process for stale.
THEOREM HolderOwnsFileHolds == Spec /\ []OneBreaks /\ []JudgedRight => []HolderOwnsFile
<1>1. Init => HoldInv
  BY HoldInit
<1>2. HoldInv /\ OneBreaks /\ JudgedRight /\ [Next]_vars => HoldInv'
  BY HoldStep
<1>3. HoldInv => HolderOwnsFile
  BY DEF HoldInv, HolderInv, Holding, HolderOwnsFile
<1> QED
  BY <1>1, <1>2, <1>3, PTL DEF Spec

\* Two processes never both have the lock, under the same two conditions.
THEOREM LockMutualExclusion == Spec /\ []OneBreaks /\ []JudgedRight => []MutualExclusion
<1>1. Spec /\ []OneBreaks /\ []JudgedRight => []HolderOwnsFile
  BY HolderOwnsFileHolds
<1>2. HolderOwnsFile => MutualExclusion
  BY DEF HolderOwnsFile, MutualExclusion
<1> QED
  BY <1>1, <1>2, PTL

\* When inode numbers are not used again and no lock of a live process gets too old, that
\* two breakers delete at the same time is all that can go wrong.
THEOREM OnlyBreakersCollide ==
  ASSUME ~Reuse, ~StaleByTime PROVE Spec /\ []OneBreaks => []MutualExclusion
<1>1. Spec => []JudgedRight
  BY StaleLocksJudgedRight
<1>2. Spec /\ []OneBreaks /\ []JudgedRight => []MutualExclusion
  BY LockMutualExclusion
<1> QED
  BY <1>1, <1>2, PTL
=============================================================================
