----------------------------- MODULE HandleGate -----------------------------
(***************************************************************************)
(* The Python handle (cypherlite-python, database.rs and transaction.rs):  *)
(* threads that share a Database and its Transactions.  The engine sits    *)
(* behind a mutex; the flag in_transaction keeps statements on the         *)
(* Database out while a Transaction is active.  Statements and close give  *)
(* up the interpreter lock (GIL) while they work, begin does not; what a   *)
(* call does while it holds the GIL is one step.                           *)
(*                                                                         *)
(* A call that is refused before it gives up the GIL changes nothing and   *)
(* is left out.  Bounds: MaxCalls calls, one element of Tx per begin.      *)
(***************************************************************************)
EXTENDS Integers

CONSTANTS Thread, Tx, NoThread, MaxCalls

ASSUME ThreadAssumption == NoThread \notin Thread
ASSUME TxAssumption == {"none", "execute", "close"} \cap Tx = {}
ASSUME CallsAssumption == MaxCalls \in Nat

VARIABLES db,           \* Option<CypherLite>: "open" or "closed"
          poisoned,     \* a thread panicked while it held the mutex
          lock,         \* holder of the mutex around the engine
          gil,          \* holder of the GIL, where it is held across a step
          flag,         \* in_transaction
          tx,           \* the Transaction objects
          pc,           \* next step of each thread's call
          job,          \* what the call runs: a statement, close, or a statement of a Tx
          intruders,    \* history: statements of the Database inside this transaction
          calls         \* calls so far

vars == <<db, poisoned, lock, gil, flag, tx, pc, job, intruders, calls>>

TypeOK == /\ db \in {"open", "closed"} /\ poisoned \in BOOLEAN
          /\ lock \in Thread \cup {NoThread} /\ gil \in Thread \cup {NoThread}
          /\ flag \in BOOLEAN /\ tx \in [Tx -> {"none", "active", "finished"}]
          /\ pc \in [Thread -> {"idle", "beginning", "claiming", "locking", "running", "returning"}]
          /\ job \in [Thread -> {"none", "execute", "close"} \cup Tx]
          /\ intruders \in [Thread -> Nat] /\ calls \in 0..MaxCalls

Init == /\ db = "open" /\ poisoned = FALSE /\ lock = NoThread /\ gil = NoThread
        /\ flag = FALSE /\ tx = [x \in Tx |-> "none"]
        /\ pc = [t \in Thread |-> "idle"] /\ job = [t \in Thread |-> "none"]
        /\ intruders = [t \in Thread |-> 0] /\ calls = 0

Goto(t, step) == pc' = [pc EXCEPT ![t] = step]

\* A thread in Python code, with the GIL, makes a call.
Calls(t) == /\ pc[t] = "idle" /\ gil = NoThread
            /\ calls < MaxCalls /\ calls' = calls + 1

\* A Transaction is borrowed mutably for as long as it executes; pyo3 refuses other calls on it.
Borrowed(x) == \E t \in Thread : job[t] = x

-----------------------------------------------------------------------------
(* Database: execute, close, begin.                                        *)

AllowThreads(t, what) == /\ job' = [job EXCEPT ![t] = what]
                         /\ Goto(t, "locking")
                         /\ UNCHANGED <<db, poisoned, lock, gil, flag, tx, intruders>>

\* Mutant: execute does not look at the flag.
ExecuteUnchecked(t) == Calls(t) /\ AllowThreads(t, "execute")

Execute(t) == Calls(t) /\ ~ flag /\ AllowThreads(t, "execute")

Close(t) == Calls(t) /\ AllowThreads(t, "close")

\* begin keeps the GIL while it waits for the mutex, ...
Begin(t) == /\ Calls(t) /\ \E x \in Tx : tx[x] = "none"
            /\ gil' = t
            /\ Goto(t, "beginning")
            /\ UNCHANGED <<db, poisoned, lock, flag, tx, job, intruders>>

\* ... looks whether the database is open, ...
CheckOpen(t) == /\ pc[t] = "beginning" /\ lock = NoThread
                /\ IF db = "open" /\ ~ poisoned THEN Goto(t, "claiming") /\ UNCHANGED gil
                   ELSE Goto(t, "idle") /\ gil' = NoThread
                /\ UNCHANGED <<db, poisoned, lock, flag, tx, job, intruders, calls>>

\* ... and sets the flag, unless it is set.
Claim(t) == /\ pc[t] = "claiming"
            /\ flag' = TRUE
            /\ IF flag THEN UNCHANGED tx
               ELSE \E x \in Tx : tx[x] = "none" /\ tx' = [tx EXCEPT ![x] = "active"]
            /\ Goto(t, "idle") /\ gil' = NoThread
            /\ UNCHANGED <<db, poisoned, lock, job, intruders, calls>>

-----------------------------------------------------------------------------
(* Transaction: execute; commit, rollback, __exit__ and drop, which do the *)
(* same thing: the statements have taken effect, and rollback undoes none. *)

TxExecute(t, x) == /\ Calls(t) /\ tx[x] = "active" /\ ~ Borrowed(x)
                   /\ AllowThreads(t, x)

EndTransaction(t, x) == /\ tx' = [tx EXCEPT ![x] = "finished"]
                        /\ flag' = FALSE
                        /\ intruders' = [u \in Thread |-> 0]
                        /\ UNCHANGED <<db, poisoned, lock, gil, pc, job>>

\* Mutant: finish() clears the flag also when the transaction is already finished.
FinishAgain(t, x) == Calls(t) /\ tx[x] # "none" /\ ~ Borrowed(x) /\ EndTransaction(t, x)

Finish(t, x) == Calls(t) /\ tx[x] = "active" /\ ~ Borrowed(x) /\ EndTransaction(t, x)

-----------------------------------------------------------------------------
(* Without the GIL: the mutex, the engine, and back.                       *)

Lock(t) == /\ pc[t] = "locking" /\ lock = NoThread
           /\ lock' = t
           /\ Goto(t, "running")
           /\ UNCHANGED <<db, poisoned, gil, flag, tx, job, intruders, calls>>

Unlock(t) == /\ pc[t] = "running"
             /\ lock' = NoThread
             /\ Goto(t, "returning")
             /\ UNCHANGED <<gil, flag, tx, job, calls>>

Usable == db = "open" /\ ~ poisoned

\* Mutant: the result is converted, which needs the GIL, before the mutex is released.
StatementUnderGil(t) ==
    /\ Unlock(t) /\ Usable /\ job[t] # "close" /\ gil = NoThread
    /\ intruders' = IF job[t] = "execute" /\ flag THEN [intruders EXCEPT ![t] = @ + 1]
                    ELSE intruders
    /\ UNCHANGED <<db, poisoned>>

Statement(t) ==
    /\ Unlock(t) /\ Usable /\ job[t] # "close"
    /\ intruders' = IF job[t] = "execute" /\ flag THEN [intruders EXCEPT ![t] = @ + 1]
                    ELSE intruders
    /\ UNCHANGED <<db, poisoned>>

\* The executor panics (i64::MIN / -1, for one): the guard poisons the mutex on its way out.
Panic(t) == /\ Unlock(t) /\ Usable /\ job[t] # "close"
            /\ poisoned' = TRUE
            /\ UNCHANGED <<db, intruders>>

TakeEngine(t) == /\ Unlock(t) /\ ~ poisoned /\ job[t] = "close"
                 /\ db' = "closed"
                 /\ UNCHANGED <<poisoned, intruders>>

\* "database is closed", or the mutex is poisoned, which close cannot pass either.
Refuse(t) == /\ Unlock(t) /\ (poisoned \/ (db = "closed" /\ job[t] # "close"))
             /\ UNCHANGED <<db, poisoned, intruders>>

\* The call takes the GIL back and returns.
Return(t) == /\ pc[t] = "returning" /\ gil = NoThread
             /\ job' = [job EXCEPT ![t] = "none"]
             /\ Goto(t, "idle")
             /\ UNCHANGED <<db, poisoned, lock, gil, flag, tx, intruders, calls>>

Work(t) == \/ CheckOpen(t) \/ Claim(t) \/ Lock(t) \/ Statement(t)
           \/ TakeEngine(t) \/ Refuse(t) \/ Return(t)

Next == \E t \in Thread :
          \/ Execute(t) \/ Close(t) \/ Begin(t) \/ Work(t) \/ Panic(t)
          \/ \E x \in Tx : TxExecute(t, x) \/ Finish(t, x)

\* The operating system runs every thread; neither lock is handed out in turn, and no
\* thread is made to panic.
Spec == Init /\ [][Next]_vars
FairSpec == Spec /\ \A t \in Thread : WF_vars(Work(t))

-----------------------------------------------------------------------------
(* What must hold.                                                         *)

\* The flag says whether there is an unfinished Transaction, and there is at most one
\* (Database::begin, Transaction::finish).
FlagIsTransaction ==
    /\ flag <=> \E x \in Tx : tx[x] = "active"
    /\ \A x, y \in Tx : tx[x] = "active" /\ tx[y] = "active" => x = y

\* The engine is used by the holder of the mutex; the GIL is kept by begin alone.
LocksHeld == \A t \in Thread : /\ pc[t] = "running" <=> lock = t
                               /\ pc[t] \in {"beginning", "claiming"} <=> gil = t

\* Statements on the Database that passed the flag and have not run.
Admitted(t) == job[t] = "execute" /\ pc[t] \in {"locking", "running"}

Admission == \A t \in Thread : /\ ~ flag => intruders[t] = 0
                               /\ Admitted(t) => intruders[t] = 0

\* execute looks at the flag before it waits for the mutex, so a statement on the
\* Database may run inside a transaction that began in between, or even inside a later
\* one; but every thread gets at most one such statement into a transaction.
IntruderBound == \A t \in Thread : intruders[t] <= 1

Inv == TypeOK /\ FlagIsTransaction /\ LocksHeld /\ Admission /\ IntruderBound

\* Every call returns: begin waits for the mutex with the GIL in hand, and no holder of
\* the mutex waits for the GIL (py.allow_threads in execute and close).
CallsReturn == \A t \in Thread : pc[t] # "idle" ~> pc[t] = "idle"
=============================================================================
