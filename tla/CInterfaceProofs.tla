--------------------------- MODULE CInterfaceProofs ---------------------------
(***************************************************************************)
(* Proofs about CInterface and LockFile, for any threads, handles, engines *)
(* and number of calls.  CInv is inductive.  Of the C interface it needs   *)
(* Admission, as HandleGate does; of the lock file, that until a Drop has  *)
(* raced with an open all engines that are not past their unlink have the  *)
(* file which the name stands for, and that a file is locked by one.       *)
(***************************************************************************)
EXTENDS CInterface, FiniteSetTheorems, TLAPS

-----------------------------------------------------------------------------
(* What a step of the process is to the engines, and to its own variables. *)

\* A step of CNext is one step of one engine, or none.
EngineStep(e) ==
  \/ raced' = raced /\ (\/ Look(e) \/ OpenLockFile(e) \/ TryLock(e) \/ OpenPageFile(e)
                        \/ DropCheckpoint(e) \/ DropRelease(e) \/ Kill(e))
  \/ Unlinks(e)

LEMMA StepsOfEngines ==
  ASSUME [CNext]_cVars
  PROVE  (\E e \in Engine : EngineStep(e)) \/ UNCHANGED <<vars, raced>>
<1> USE CInterfaceAssumption
<1>1. ASSUME NEW t \in Thread,
             DbExecute(t) \/ Lock(t) \/ Finish(t) \/ Begin(t) \/ ClearError(t)
      PROVE  UNCHANGED <<vars, raced>>
  BY <1>1 DEF DbExecute, Lock, Finish, Begin, ClearError
<1>2. ASSUME NEW t \in Thread, NEW error, BadArgument(t, error)  PROVE UNCHANGED <<vars, raced>>
  BY <1>2 DEF BadArgument
<1>3. ASSUME NEW t \in Thread, NEW x \in Tx, TxExecute(t, x) \/ Commit(t, x) \/ Rollback(t, x)
      PROVE  UNCHANGED <<vars, raced>>
  BY <1>3 DEF TxExecute, Commit, Rollback, EndTx
<1>4. ASSUME NEW t \in Thread, OpenDb(t) \/ Opening(t) \/ CloseDb(t) \/ Closing(t)  PROVE EngineStep(Handle)
  BY <1>4 DEF OpenDb, Opening, CloseDb, Closing, EngineStep
<1>5. CASE Die
  BY <1>5 DEF Die, EngineStep
<1>6. ASSUME NEW e \in Engine, Other(e)  PROVE EngineStep(e)
  BY <1>6 DEF Other, EngineStep
<1>7. CASE UNCHANGED cVars
  BY <1>7 DEF cVars
<1> QED BY <1>1, <1>2, <1>3, <1>4, <1>5, <1>6, <1>7 DEF CNext

-----------------------------------------------------------------------------
(* The lock file.                                                          *)

LEMMA InitLockFile == CInit => TypeOK /\ LockedOnce /\ NameHeld
<1> SUFFICES ASSUME CInit  PROVE TypeOK /\ LockedOnce /\ NameHeld
  OBVIOUS
<1>1. 0 \in 0..MaxInode
  BY InodeAssumption
<1>2. TypeOK
  BY <1>1 DEF CInit, Init, TypeOK
<1>3. \A e \in Engine : pc[e] = "closed"
  BY DEF CInit, Init
<1>4. LockedOnce /\ NameHeld
  BY <1>3 DEF LockedOnce, Holds, NameHeld
<1> QED BY <1>2, <1>4

LEMMA StepEngineType ==
  ASSUME TypeOK, [CNext]_cVars  PROVE TypeOK'
<1>1. ASSUME NEW e \in Engine, EngineStep(e)  PROVE TypeOK'
  <2> USE InodeAssumption DEF TypeOK, Goto, Release
  <2>1. CASE Look(e)
    BY <2>1 DEF Look
  <2>2. CASE OpenLockFile(e)
    BY <2>2 DEF OpenLockFile
  <2>3. CASE TryLock(e)
    BY <2>3 DEF TryLock
  <2>4. CASE OpenPageFile(e)
    <3>1. pc' \in {[pc EXCEPT ![e] = "closed"], [pc EXCEPT ![e] = "open"]}
      BY <2>4 DEF OpenPageFile
    <3>2. lockFile' \in {lockFile, [lockFile EXCEPT ![e] = 0]}
      BY <2>4 DEF OpenPageFile
    <3>3. dbFile' = TRUE /\ UNCHANGED <<lockPath, inodes, sawDb>>
      BY <2>4 DEF OpenPageFile
    <3> QED BY <3>1, <3>2, <3>3
  <2>5. CASE DropCheckpoint(e) \/ Unlinks(e) \/ DropRelease(e) \/ Kill(e)
    BY <2>5 DEF DropCheckpoint, Unlinks, DropUnlink, DropRelease, Kill
  <2> QED BY <1>1, <2>1, <2>2, <2>3, <2>4, <2>5 DEF EngineStep
<1>2. CASE UNCHANGED vars
  BY <1>2 DEF vars, TypeOK
<1> QED BY <1>1, <1>2, StepsOfEngines

LEMMA StepLockedOnce ==
  ASSUME TypeOK, LockedOnce, [CNext]_cVars  PROVE LockedOnce'
<1>1. ASSUME NEW e \in Engine, EngineStep(e)  PROVE LockedOnce'
  <2> USE DEF TypeOK, LockedOnce, Holds, Goto, Release
  <2>1. CASE Look(e)
    BY <2>1 DEF Look
  <2>2. CASE OpenLockFile(e)
    BY <2>2 DEF OpenLockFile
  <2>3. CASE TryLock(e)
    BY <2>3 DEF TryLock, Locked
  <2>4. CASE OpenPageFile(e)
    BY <2>4 DEF OpenPageFile
  <2>5. CASE DropCheckpoint(e) \/ Unlinks(e)
    BY <2>5 DEF DropCheckpoint, Unlinks, DropUnlink
  <2>6. CASE DropRelease(e) \/ Kill(e)
    BY <2>6 DEF DropRelease, Kill
  <2> QED BY <1>1, <2>1, <2>2, <2>3, <2>4, <2>5, <2>6 DEF EngineStep
<1>2. CASE UNCHANGED vars
  BY <1>2 DEF vars, LockedOnce, Holds
<1> QED BY <1>1, <1>2, StepsOfEngines

\* The name goes when the engine that unlinks it is the only one with the file, or there is a race.
LEMMA StepNameHeld ==
  ASSUME TypeOK, LockedOnce, NameHeld, raced \in BOOLEAN, [CNext]_cVars  PROVE NameHeld'
<1>1. ASSUME NEW e \in Engine, EngineStep(e)  PROVE NameHeld'
  <2> USE DEF TypeOK, NameHeld, Goto, Release
  <2>1. CASE Look(e) /\ raced' = raced
    BY <2>1 DEF Look
  <2>2. CASE OpenLockFile(e) /\ raced' = raced
    <3>1. lockFile' = [lockFile EXCEPT ![e] = lockPath'] /\ pc' = [pc EXCEPT ![e] = "unlocked"] /\ pc[e] = "looked"
      BY <2>2 DEF OpenLockFile
    <3>2. CASE lockPath # 0
      <4>1. lockPath' = lockPath
        BY <2>2, <3>2 DEF OpenLockFile
      <4> QED BY <2>2, <3>1, <3>2, <4>1
    <3>3. CASE lockPath = 0
      <4>1. lockPath' = inodes + 1 /\ lockPath' # 0
        BY <2>2, <3>3, InodeAssumption DEF OpenLockFile
      <4> QED BY <2>2, <3>1, <3>3, <4>1
    <3> QED BY <3>2, <3>3
  <2>3. CASE (TryLock(e) \/ OpenPageFile(e)) /\ raced' = raced
    BY <2>3 DEF TryLock, OpenPageFile
  <2>4. CASE (DropCheckpoint(e) \/ DropRelease(e) \/ Kill(e)) /\ raced' = raced
    BY <2>4 DEF DropCheckpoint, DropRelease, Kill
  <2>5. CASE Unlinks(e)
    <3> SUFFICES ASSUME ~ raced', NEW o \in Engine, pc'[o] \in {"unlocked", "locked", "open", "checkpointed"}
                 PROVE  FALSE
      OBVIOUS
    <3>1. /\ ~ raced /\ \A k \in Engine : pc[k] # "unlocked"
          /\ pc[e] = "checkpointed" /\ pc' = [pc EXCEPT ![e] = "unlinked"]
      BY <2>5 DEF Unlinks, DropUnlink
    <3>2. o # e /\ pc[o] \in {"locked", "open", "checkpointed"}
      BY <3>1
    <3>3. lockFile[e] = lockPath /\ lockFile[o] = lockPath
      BY <3>1, <3>2
    <3> QED BY <3>1, <3>2, <3>3 DEF LockedOnce, Holds
  <2> QED BY <1>1, <2>1, <2>2, <2>3, <2>4, <2>5 DEF EngineStep
<1>2. CASE UNCHANGED <<vars, raced>>
  BY <1>2 DEF vars, NameHeld
<1> QED BY <1>1, <1>2, StepsOfEngines

-----------------------------------------------------------------------------
(* Threads and transactions.                                               *)

LEMMA InitThreads == CInit => CTypeOK /\ MutexHeld /\ Admission /\ Exclusion
<1> SUFFICES ASSUME CInit  PROVE CTypeOK /\ MutexHeld /\ Admission /\ Exclusion
  OBVIOUS
<1>1. CTypeOK
  <2>1. calls \in 0..MaxCalls
    BY CInterfaceAssumption DEF CInit
  <2> flag \in BOOLEAN /\ raced \in BOOLEAN
    BY DEF CInit
  <2>2. intruders \in [Thread -> Nat] /\ tx \in [Tx -> {"none", "live", "freed"}] /\ lock \in Thread \cup {NoThread}
    BY DEF CInit
  <2>3. job \in [Thread -> {"none", "db"} \cup Tx]
    BY DEF CInit
  <2>4. at \in [Thread -> {"idle", "opening", "locking", "running", "closing"}]
    BY DEF CInit
  <2> QED BY <2>1, <2>2, <2>3, <2>4 DEF CTypeOK
<1>2. MutexHeld
  BY CInterfaceAssumption DEF CInit, MutexHeld
<1>3. Admission /\ Exclusion
  BY DEF CInit, Admission, Exclusion
<1> QED BY <1>1, <1>2, <1>3

LEMMA StepThreadType ==
  ASSUME CTypeOK, [CNext]_cVars  PROVE CTypeOK'
<1> USE CInterfaceAssumption DEF CTypeOK, Continue, Calls
<1>1. ASSUME NEW t \in Thread, OpenDb(t) \/ Opening(t) \/ CloseDb(t)  PROVE CTypeOK'
  <2>1. CASE OpenDb(t)
    BY <2>1 DEF OpenDb
  <2>2. CASE Opening(t)
    <3>1. at' = at \/ at' = [at EXCEPT ![t] = "idle"]
      BY <2>2 DEF Opening
    <3> QED BY <2>2, <3>1 DEF Opening
  <2>3. CASE CloseDb(t)
    BY <2>3 DEF CloseDb
  <2> QED BY <1>1, <2>1, <2>2, <2>3
<1>2. ASSUME NEW t \in Thread, Closing(t)  PROVE CTypeOK'
  <2>1. raced' \in BOOLEAN
    BY <1>2 DEF Closing, Unlinks
  <2>2. at' = at \/ at' = [at EXCEPT ![t] = "idle"]
    BY <1>2 DEF Closing
  <2> QED BY <1>2, <2>1, <2>2 DEF Closing
<1>3. ASSUME NEW t \in Thread, DbExecute(t) \/ Lock(t)  PROVE CTypeOK'
  <2>1. CASE DbExecute(t)
    BY <2>1 DEF DbExecute, Refused, Starts
  <2>2. CASE Lock(t)
    BY <2>2 DEF Lock
  <2> QED BY <1>3, <2>1, <2>2
<1>4. ASSUME NEW t \in Thread, Finish(t)  PROVE CTypeOK'
  <2>1. intruders' \in [Thread -> Nat]
    BY <1>4 DEF Finish
  <2> QED BY <1>4, <2>1 DEF Finish
<1>5. ASSUME NEW t \in Thread, Begin(t) \/ ClearError(t)  PROVE CTypeOK'
  <2>1. CASE Begin(t)
    <3>1. flag' \in BOOLEAN /\ tx' \in [Tx -> {"none", "live", "freed"}]
      BY <2>1 DEF Begin, Begins
    <3> QED BY <2>1, <3>1 DEF Begin
  <2>2. CASE ClearError(t)
    BY <2>2 DEF ClearError, callVars
  <2> QED BY <1>5, <2>1, <2>2
<1>6. ASSUME NEW t \in Thread, NEW error, BadArgument(t, error)  PROVE CTypeOK'
  BY <1>6 DEF BadArgument, callVars
<1>7. ASSUME NEW t \in Thread, NEW x \in Tx, TxExecute(t, x) \/ Commit(t, x) \/ Rollback(t, x)  PROVE CTypeOK'
  <2>1. CASE TxExecute(t, x)
    BY <2>1 DEF TxExecute, Starts
  <2>2. CASE EndTx(t, x)
    <3>1. tx' \in [Tx -> {"none", "live", "freed"}] /\ intruders' \in [Thread -> Nat]
      BY <2>2 DEF EndTx
    <3>2. flag' \in BOOLEAN
      BY <2>2 DEF EndTx
    <3>3. calls' \in 0..MaxCalls
      BY <2>2 DEF EndTx
    <3> QED BY <2>2, <3>1, <3>2, <3>3 DEF EndTx
  <2> QED BY <1>7, <2>1, <2>2 DEF Commit, Rollback
<1>8. CASE Die
  BY <1>8 DEF Die
<1>9. ASSUME NEW e \in Engine, Other(e)  PROVE CTypeOK'
  <2>1. raced' \in BOOLEAN
    BY <1>9 DEF Other, Unlinks
  <2> QED BY <1>9, <2>1 DEF Other, callVars
<1>10. CASE UNCHANGED cVars
  BY <1>10 DEF cVars, callVars
<1> QED BY <1>1, <1>2, <1>3, <1>4, <1>5, <1>6, <1>7, <1>8, <1>9, <1>10 DEF CNext

\* What opens, closes and other processes do leaves the flag, the transactions and the statements.
LEMMA Aside ==
  ASSUME [CNext]_cVars
  PROVE  \/ UNCHANGED <<flag, tx, lock, job, intruders>> /\ (UNCHANGED at \/ \E t \in Thread :
              at[t] \notin {"running", "locking"} /\ \E step \in {"idle", "opening", "closing"} : Continue(t, step))
         \/ Die
         \/ \E t \in Thread : \/ DbExecute(t) \/ Lock(t) \/ Finish(t) \/ Begin(t)
                              \/ \E x \in Tx : TxExecute(t, x) \/ Commit(t, x) \/ Rollback(t, x)
<1>1. ASSUME NEW t \in Thread, OpenDb(t) \/ Opening(t) \/ CloseDb(t) \/ Closing(t)
      PROVE  /\ UNCHANGED <<flag, tx, lock, job, intruders>>
             /\ at[t] \notin {"running", "locking"}
             /\ UNCHANGED at \/ \E step \in {"idle", "opening", "closing"} : Continue(t, step)
  <2>1. CASE OpenDb(t)
    BY <2>1 DEF OpenDb, Calls
  <2>2. CASE Opening(t)
    BY <2>2 DEF Opening
  <2>3. CASE CloseDb(t)
    BY <2>3 DEF CloseDb, Calls
  <2>4. CASE Closing(t)
    BY <2>4 DEF Closing
  <2> QED BY <1>1, <2>1, <2>2, <2>3, <2>4
<1>2. ASSUME NEW t \in Thread, NEW error, ClearError(t) \/ BadArgument(t, error)
      PROVE  UNCHANGED <<flag, tx, lock, at, job, intruders>>
  BY <1>2 DEF ClearError, BadArgument, callVars
<1>3. ASSUME NEW e \in Engine, Other(e)  PROVE UNCHANGED <<flag, tx, lock, at, job, intruders>>
  BY <1>3 DEF Other, callVars
<1>4. CASE UNCHANGED cVars
  BY <1>4 DEF cVars, callVars
<1> QED BY <1>1, <1>2, <1>3, <1>4 DEF CNext

LEMMA StepMutex ==
  ASSUME CTypeOK, MutexHeld, [CNext]_cVars  PROVE MutexHeld'
<1> USE CInterfaceAssumption DEF CTypeOK, MutexHeld, Continue
<1>1. CASE UNCHANGED <<at, lock>>
  BY <1>1
<1>2. ASSUME NEW t \in Thread, at[t] \notin {"running", "locking"},
             NEW step \in {"idle", "opening", "closing"}, Continue(t, step), lock' = lock
      PROVE  MutexHeld'
  BY <1>2
<1>3. ASSUME NEW t \in Thread, DbExecute(t) \/ Lock(t) \/ Finish(t) \/ Begin(t)  PROVE MutexHeld'
  <2>1. CASE DbExecute(t)
    BY <2>1 DEF DbExecute, Refused, Starts, Calls
  <2>2. CASE Lock(t)
    BY <2>2 DEF Lock
  <2>3. CASE Finish(t)
    BY <2>3 DEF Finish
  <2>4. CASE Begin(t)
    BY <2>4 DEF Begin
  <2> QED BY <1>3, <2>1, <2>2, <2>3, <2>4
<1>4. ASSUME NEW t \in Thread, NEW x \in Tx, TxExecute(t, x) \/ Commit(t, x) \/ Rollback(t, x)  PROVE MutexHeld'
  BY <1>4 DEF TxExecute, Starts, Calls, Commit, Rollback, EndTx
<1>5. CASE Die
  BY <1>5 DEF Die
<1> QED BY <1>1, <1>2, <1>3, <1>4, <1>5, Aside

LEMMA StepAdmission ==
  ASSUME CTypeOK, Admission, \A t \in Thread : intruders[t] <= 1, [CNext]_cVars
  PROVE  Admission' /\ \A t \in Thread : intruders'[t] <= 1
<1> USE CInterfaceAssumption DEF CTypeOK, Admission
<1>1. CASE UNCHANGED <<flag, job, intruders>>
  BY <1>1
<1>2. ASSUME NEW t \in Thread, DbExecute(t) \/ Lock(t) \/ Begin(t)
      PROVE  Admission' /\ \A u \in Thread : intruders'[u] <= 1
  <2>1. CASE DbExecute(t)
    BY <2>1 DEF DbExecute, Refused, Starts
  <2>2. CASE Lock(t)
    BY <2>2 DEF Lock
  <2>3. CASE Begin(t)
    BY <2>3 DEF Begin, Begins
  <2> QED BY <1>2, <2>1, <2>2, <2>3
<1>3. ASSUME NEW t \in Thread, Finish(t)  PROVE Admission' /\ \A u \in Thread : intruders'[u] <= 1
  <2>1. flag' = flag /\ job' = [job EXCEPT ![t] = "none"]
    BY <1>3 DEF Finish
  <2>2. CASE job[t] = "db" /\ flag
    <3>1. intruders' = [intruders EXCEPT ![t] = intruders[t] + 1]
      BY <1>3, <2>2 DEF Finish
    <3> QED BY <2>1, <2>2, <3>1
  <2>3. CASE ~ (job[t] = "db" /\ flag)
    <3>1. intruders' = intruders
      BY <1>3, <2>3 DEF Finish
    <3> QED BY <2>1, <3>1
  <2> QED BY <2>2, <2>3
<1>4. ASSUME NEW t \in Thread, NEW x \in Tx, TxExecute(t, x) \/ Commit(t, x) \/ Rollback(t, x)
      PROVE  Admission' /\ \A u \in Thread : intruders'[u] <= 1
  BY <1>4 DEF TxExecute, Starts, Commit, Rollback, EndTx
<1>5. CASE Die
  BY <1>5 DEF Die
<1> QED BY <1>1, <1>2, <1>3, <1>4, <1>5, Aside

LEMMA StepFlag ==
  ASSUME CTypeOK, [CNext]_cVars,
         flag <=> \E x \in Tx : tx[x] = "live",
         \A x, y \in Tx : tx[x] = "live" /\ tx[y] = "live" => x = y
  PROVE  /\ flag' <=> \E x \in Tx : tx'[x] = "live"
         /\ \A x, y \in Tx : tx'[x] = "live" /\ tx'[y] = "live" => x = y
<1> USE DEF CTypeOK
<1>1. CASE UNCHANGED <<flag, tx>>
  BY <1>1
<1>2. ASSUME NEW t \in Thread, DbExecute(t) \/ Lock(t) \/ Finish(t)  PROVE UNCHANGED <<flag, tx>>
  BY <1>2 DEF DbExecute, Lock, Finish
<1>3. ASSUME NEW t \in Thread, Begin(t), ~ UNCHANGED <<flag, tx>>
      PROVE  /\ flag' <=> \E x \in Tx : tx'[x] = "live"
             /\ \A x, y \in Tx : tx'[x] = "live" /\ tx'[y] = "live" => x = y
  <2>1. ~ flag /\ flag' = TRUE
    BY <1>3 DEF Begin, Begins
  <2>2. PICK x \in Tx : tx[x] = "none" /\ tx' = [tx EXCEPT ![x] = "live"]
    BY <1>3, <2>1 DEF Begin, Begins
  <2> QED BY <2>1, <2>2
<1>4. ASSUME NEW t \in Thread, NEW x \in Tx, TxExecute(t, x)  PROVE UNCHANGED <<flag, tx>>
  BY <1>4 DEF TxExecute
<1>5. ASSUME NEW t \in Thread, NEW x \in Tx, Commit(t, x) \/ Rollback(t, x)
      PROVE  /\ flag' <=> \E y \in Tx : tx'[y] = "live"
             /\ \A y, z \in Tx : tx'[y] = "live" /\ tx'[z] = "live" => y = z
  <2>1. tx[x] = "live" /\ tx' = [tx EXCEPT ![x] = "freed"] /\ flag' = FALSE
    BY <1>5 DEF Commit, Rollback, EndTx, Valid
  <2> QED BY <2>1
<1>6. CASE Die
  BY <1>6 DEF Die
<1> QED BY <1>1, <1>2, <1>3, <1>4, <1>5, <1>6, Aside

-----------------------------------------------------------------------------
(* The invariant, and what follows from it.                                *)

LEMMA CInvStep == CInv /\ [CNext]_cVars => CInv'
<1> SUFFICES ASSUME CInv, [CNext]_cVars  PROVE CInv'
  OBVIOUS
<1>1. TypeOK' /\ LockedOnce' /\ CTypeOK' /\ MutexHeld'
  BY StepEngineType, StepLockedOnce, StepThreadType, StepMutex DEF CInv
<1>2. NameHeld'
  BY StepNameHeld DEF CInv, CTypeOK
<1>3. Admission' /\ Exclusion'
  BY StepAdmission, StepFlag DEF CInv, Exclusion
<1> QED BY <1>1, <1>2, <1>3 DEF CInv

\* However threads call, engines of other processes open, close and die, and the process dies itself.
THEOREM CInvCorrect == CSpec => []CInv
<1>1. CInit => CInv
  BY InitLockFile, InitThreads DEF CInv
<1> QED BY <1>1, CInvStep, PTL DEF CSpec

\* query.rs: the flag is up while one CylTx lives, and each thread gets at most one statement of the
\* Database past it (cyl_db_execute, cyl_tx_begin, cyl_tx_commit, cyl_tx_rollback).
THEOREM ExclusionCorrect == CSpec => []Exclusion
<1>1. CInv => Exclusion
  BY DEF CInv
<1> QED BY <1>1, CInvCorrect, PTL

LEMMA InvOneEngine == CInv => OneEngineUnlessRaced
<1> SUFFICES ASSUME CInv, ~ raced  PROVE Cardinality({e \in Engine : Using(e)}) <= 1
  BY DEF OneEngineUnlessRaced
<1> DEFINE users == {e \in Engine : Using(e)}
<1>1. \A e, o \in users : e = o
  BY DEF CInv, NameHeld, LockedOnce, Using, Holds
<1>2. CASE users = {}
  BY <1>2, FS_EmptySet
<1>3. CASE users # {}
  <2>1. PICK e \in users : users = {e}
    BY <1>1, <1>3
  <2>2. Cardinality(users) = 1
    BY <2>1, FS_Singleton
  <2> QED BY <2>2
<1> QED BY <1>2, <1>3

\* StorageEngine::open and Drop: no two engines use the database, until a Drop has removed the lock
\* file's name between another engine's open of it and its lock.
THEOREM OneEngineCorrect == CSpec => []OneEngineUnlessRaced
BY CInvCorrect, InvOneEngine, PTL
=============================================================================
