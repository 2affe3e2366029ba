------------------------------ MODULE CInterface ------------------------------
(***************************************************************************)
(* The C interface (cypherlite-ffi) in one process, beside the engines of  *)
(* other processes: threads that share a CylDb and its CylTx handles.  The *)
(* handle's engine opens and closes by the steps of LockFile.              *)
(*                                                                         *)
(* C callers keep the documented rules: no call on a handle that is being  *)
(* closed or opened, a CylTx used by one thread at a time and ended before *)
(* the handle is closed.  A panic cannot leave an extern "C" function: it  *)
(* ends the process (Die).  Results and values handed to C are left out.   *)
(*                                                                         *)
(* Bounds: one element of Tx per begin, MaxCalls calls, MaxInode lock      *)
(* files (LockFile).                                                       *)
(***************************************************************************)
EXTENDS LockFile

CONSTANTS
  Handle,          \* the engine behind the CylDb
  Thread, NoThread,
  Tx,              \* CylTx handles
  StatementError,  \* errors that executing a statement can end in
  MaxCalls

ASSUME CInterfaceAssumption ==
  /\ Handle \in Engine /\ NoThread \notin Thread
  /\ {"none", "db"} \cap Tx = {} /\ MaxCalls \in Nat

VARIABLES
  flag,       \* CylDb.in_transaction
  tx,         \* CylTx handles: "none", "live" or "freed"
  lock,       \* holder of CylDb.inner
  at,         \* what each thread does in its call
  job,        \* what its statement runs on: the Database or a CylTx
  lastError,  \* LAST_ERROR of each thread: the kind of error, or "none"
  intruders,  \* history: statements of the Database inside this transaction
  calls,      \* calls so far
  raced       \* history: a Drop has unlinked the lock file between another engine's open and lock

callVars == <<flag, tx, lock, at, job, intruders>>
cVars == <<callVars, lastError, calls, raced, vars>>

CTypeOK ==
  /\ flag \in BOOLEAN /\ tx \in [Tx -> {"none", "live", "freed"}] /\ lock \in Thread \cup {NoThread}
  /\ at \in [Thread -> {"idle", "opening", "locking", "running", "closing"}]
  /\ job \in [Thread -> {"none", "db"} \cup Tx]
  /\ intruders \in [Thread -> Nat] /\ calls \in 0..MaxCalls /\ raced \in BOOLEAN

CInit ==
  /\ Init
  /\ flag = FALSE /\ tx = [x \in Tx |-> "none"] /\ lock = NoThread
  /\ at = [t \in Thread |-> "idle"] /\ job = [t \in Thread |-> "none"]
  /\ lastError = [t \in Thread |-> "none"] /\ intruders = [t \in Thread |-> 0]
  /\ calls = 0 /\ raced = FALSE

Continue(t, step) == at' = [at EXCEPT ![t] = step]
Calls(t) == at[t] = "idle" /\ calls < MaxCalls /\ calls' = calls + 1
Usable == pc[Handle] = "open" /\ \A t \in Thread : at[t] # "closing"
-------------------------------------------------------------------------------
(* Errors: a code for the caller and a message for the thread.             *)

\* error_to_code: a code for each kind of error, but for one.
ErrorToCode(error) == IF error = "FeatureRequiresSubgraph" THEN "SubgraphNotFound" ELSE error

SetError(t, error) == lastError' = [lastError EXCEPT ![t] = ErrorToCode(error)]
SetOk(t) == lastError' = [lastError EXCEPT ![t] = "none"]

\* Any call, with a null pointer or a string that is not UTF-8 (c_str_to_str and the like).
BadArgument(t, error) ==
  /\ Calls(t) /\ SetError(t, error)
  /\ UNCHANGED <<callVars, raced, vars>>

ClearError(t) == Calls(t) /\ SetOk(t) /\ UNCHANGED <<callVars, raced, vars>>
-------------------------------------------------------------------------------
(* cyl_db_open, cyl_db_close                                               *)

OpenDb(t) ==
  /\ Calls(t) /\ \A u \in Thread : at[u] # "opening"
  /\ Look(Handle) /\ Continue(t, "opening")
  /\ UNCHANGED <<flag, tx, lock, job, intruders, lastError, raced>>

\* The engine's next step; when it is open or gave up the call returns.
Opening(t) ==
  /\ at[t] = "opening"
  /\ OpenLockFile(Handle) \/ TryLock(Handle) \/ OpenPageFile(Handle)
  /\ CASE pc'[Handle] = "open" -> Continue(t, "idle") /\ SetOk(t)
       [] pc'[Handle] = "closed" ->
            /\ Continue(t, "idle")
            /\ SetError(t, IF pc[Handle] = "unlocked" THEN "DatabaseLocked" ELSE "Io")
       [] OTHER -> UNCHANGED <<at, lastError>>
  /\ UNCHANGED <<flag, tx, lock, job, intruders, calls, raced>>

\* An engine is between the open and the lock of the file that loses its name.
Unlinks(e) == /\ DropUnlink(e)
              /\ raced' = (raced \/ \E o \in Engine : pc[o] = "unlocked")

CloseDb(t) ==
  /\ Usable /\ Calls(t) /\ DropCheckpoint(Handle)
  /\ \A x \in Tx : tx[x] # "live"
  /\ \A u \in Thread : at[u] = "idle"
  /\ Continue(t, "closing")
  /\ UNCHANGED <<flag, tx, lock, job, intruders, lastError, raced>>

Closing(t) ==
  /\ at[t] = "closing"
  /\ \/ Unlinks(Handle) /\ UNCHANGED at
     \/ DropRelease(Handle) /\ Continue(t, "idle") /\ UNCHANGED raced
  /\ UNCHANGED <<flag, tx, lock, job, intruders, lastError, calls>>
-------------------------------------------------------------------------------
(* Statements                                                              *)

Starts(t, what) == Continue(t, "locking") /\ job' = [job EXCEPT ![t] = what]

\* validate_db: a statement of the Database is refused inside a transaction.
Refused(t) == flag /\ SetError(t, "TransactionConflict") /\ UNCHANGED <<at, job>>

\* cyl_db_execute, with parameters or without: the flag is read before the mutex is locked.
DbExecute(t) ==
  /\ Usable /\ Calls(t)
  /\ Refused(t) \/ (~ flag /\ Starts(t, "db") /\ UNCHANGED lastError)
  /\ UNCHANGED <<flag, tx, lock, intruders, raced, vars>>

\* validate_tx, and the rule that one thread at a time uses a CylTx.
Busy(x) == \E t \in Thread : job[t] = x
Valid(x) == tx[x] = "live" /\ ~ Busy(x)

\* cyl_tx_execute, with parameters or without.
TxExecute(t, x) ==
  /\ Usable /\ Calls(t) /\ Valid(x)
  /\ Starts(t, x)
  /\ UNCHANGED <<flag, tx, lock, intruders, lastError, raced, vars>>

Lock(t) ==
  /\ at[t] = "locking" /\ lock = NoThread
  /\ lock' = t /\ Continue(t, "running")
  /\ UNCHANGED <<flag, tx, job, intruders, lastError, calls, raced, vars>>

\* The statement runs and the call returns.
Finish(t) ==
  /\ at[t] = "running"
  /\ SetOk(t) \/ \E error \in StatementError : SetError(t, error)
  /\ lock' = NoThread /\ Continue(t, "idle") /\ job' = [job EXCEPT ![t] = "none"]
  /\ intruders' = IF job[t] = "db" /\ flag THEN [intruders EXCEPT ![t] = @ + 1] ELSE intruders
  /\ UNCHANGED <<flag, tx, calls, raced, vars>>
-------------------------------------------------------------------------------
(* Transactions                                                            *)

Begins(t) ==
  /\ flag' = TRUE /\ SetOk(t)
  /\ \E x \in Tx : tx[x] = "none" /\ tx' = [tx EXCEPT ![x] = "live"]

BeginUnexchanged(t) ==                              \* a mistake: the flag is stored, not exchanged
  /\ Usable /\ Calls(t) /\ Begins(t)
  /\ UNCHANGED <<lock, at, job, intruders, raced, vars>>

\* cyl_tx_begin: compare_exchange, without the mutex.
Begin(t) ==
  /\ Usable /\ Calls(t)
  /\ IF flag THEN SetError(t, "TransactionConflict") /\ UNCHANGED <<flag, tx>> ELSE Begins(t)
  /\ UNCHANGED <<lock, at, job, intruders, raced, vars>>

\* cyl_tx_commit, cyl_tx_rollback and cyl_tx_free free the handle and clear the flag; the first
\* also reports success.  None of them undoes a statement.
EndTx(t, x) ==
  /\ Usable /\ Calls(t) /\ Valid(x)
  /\ tx' = [tx EXCEPT ![x] = "freed"] /\ flag' = FALSE
  /\ intruders' = [u \in Thread |-> 0]
  /\ UNCHANGED <<lock, at, job, raced, vars>>

Commit(t, x) == EndTx(t, x) /\ SetOk(t)
Rollback(t, x) == EndTx(t, x) /\ UNCHANGED lastError
-------------------------------------------------------------------------------
(* The process dies; other processes open, close and die.                  *)

Die ==
  /\ Kill(Handle)
  /\ flag' = FALSE /\ tx' = [x \in Tx |-> "none"] /\ lock' = NoThread
  /\ at' = [t \in Thread |-> "idle"] /\ job' = [t \in Thread |-> "none"]
  /\ lastError' = [t \in Thread |-> "none"] /\ intruders' = [t \in Thread |-> 0]
  /\ UNCHANGED <<calls, raced>>

Other(e) ==
  /\ e # Handle
  /\ \/ Look(e) /\ UNCHANGED raced
     \/ OpenLockFile(e) /\ UNCHANGED raced
     \/ TryLock(e) /\ UNCHANGED raced
     \/ OpenPageFile(e) /\ UNCHANGED raced
     \/ DropCheckpoint(e) /\ UNCHANGED raced
     \/ Unlinks(e)
     \/ DropRelease(e) /\ UNCHANGED raced
     \/ Kill(e) /\ UNCHANGED raced
  /\ UNCHANGED <<callVars, lastError, calls>>

CNext ==
  \/ \E t \in Thread :
       \/ OpenDb(t) \/ Opening(t) \/ CloseDb(t) \/ Closing(t)
       \/ DbExecute(t) \/ Lock(t) \/ Finish(t) \/ Begin(t) \/ ClearError(t)
       \/ \E error \in {"NullPointer", "InvalidUtf8"} : BadArgument(t, error)
       \/ \E x \in Tx : TxExecute(t, x) \/ Commit(t, x) \/ Rollback(t, x)
  \/ Die
  \/ \E e \in Engine : Other(e)

CSpec == CInit /\ [][CNext]_cVars
-------------------------------------------------------------------------------
(* What must hold                                                          *)

\* query.rs "db must be valid (not in-transaction)": the flag is up exactly while one CylTx
\* lives, and what slips past it is at most one statement of each thread, which had read the
\* flag before the transaction began.
Exclusion ==
  /\ flag <=> \E x \in Tx : tx[x] = "live"
  /\ \A x, y \in Tx : tx[x] = "live" /\ tx[y] = "live" => x = y
  /\ \A t \in Thread : intruders[t] <= 1

\* R-PERSIST-038: engines exclude each other, whatever opens fail or race and whatever
\* process dies, as long as no engine has opened the lock file and not yet locked it when
\* another one's Drop removes the name.
OneEngineUnlessRaced == ~ raced => Cardinality({e \in Engine : Using(e)}) <= 1
-------------------------------------------------------------------------------
(* Why: the inductive invariant                                            *)

\* The mutex is held by the thread whose statement runs.
MutexHeld == \A t \in Thread : at[t] = "running" <=> lock = t

\* A statement of the Database that has not run is its thread's first in this transaction.
Admission == \A t \in Thread : ~ flag \/ job[t] = "db" => intruders[t] = 0

\* A lock file is locked by one engine; until a Drop has raced with an open, every engine that has
\* opened it and is not past the unlink of its Drop has the file that the name still stands for.
LockedOnce == \A e, o \in Engine : Holds(e) /\ Holds(o) /\ lockFile[e] = lockFile[o] => e = o
NameHeld == ~ raced => \A e \in Engine : pc[e] \in {"unlocked", "locked", "open", "checkpointed"} =>
                         lockPath # 0 /\ lockFile[e] = lockPath

CInv == TypeOK /\ CTypeOK /\ MutexHeld /\ Admission /\ Exclusion /\ LockedOnce /\ NameHeld
===============================================================================
