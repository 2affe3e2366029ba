-------------------------- MODULE HandleGateProofs --------------------------
(***************************************************************************)
(* Proofs about HandleGate for any threads, transactions and number of     *)
(* calls.  Inv is inductive: that a thread gets one statement of the       *)
(* Database into a transaction follows from Admission (a statement that    *)
(* passed the flag and has not run is the thread's first).                 *)
(***************************************************************************)
EXTENDS HandleGate, TLAPS

LEMMA InitInv == Init => Inv
<1> SUFFICES ASSUME Init  PROVE Inv
  OBVIOUS
<1>1. TypeOK
  <2>1. calls \in 0..MaxCalls
    BY CallsAssumption DEF Init
  <2>2. poisoned \in BOOLEAN /\ flag \in BOOLEAN
    BY DEF Init
  <2>3. /\ tx \in [Tx -> {"none", "active", "finished"}]
        /\ intruders \in [Thread -> Nat]
    BY DEF Init
  <2> QED BY <2>1, <2>2, <2>3 DEF Init, TypeOK
<1>2. FlagIsTransaction
  BY DEF Init, FlagIsTransaction
<1>3. LocksHeld
  BY ThreadAssumption DEF Init, LocksHeld
<1>4. Admission /\ IntruderBound
  BY DEF Init, Admission, Admitted, IntruderBound
<1> QED BY <1>1, <1>2, <1>3, <1>4 DEF Inv

LEMMA StepType ==
  ASSUME TypeOK, [Next]_vars  PROVE TypeOK'
<1> USE CallsAssumption DEF TypeOK, Goto
<1>1. ASSUME NEW t \in Thread, Execute(t) \/ Close(t) \/ Begin(t)  PROVE TypeOK'
  <2>1. calls' \in 0..MaxCalls
    BY <1>1 DEF Execute, Close, Begin, Calls
  <2>2. CASE Execute(t)
    BY <2>1, <2>2 DEF Execute, AllowThreads
  <2>3. CASE Close(t)
    BY <2>1, <2>3 DEF Close, AllowThreads
  <2>4. CASE Begin(t)
    BY <2>1, <2>4 DEF Begin
  <2> QED BY <1>1, <2>2, <2>3, <2>4
<1>2. ASSUME NEW t \in Thread, NEW x \in Tx, TxExecute(t, x) \/ Finish(t, x)  PROVE TypeOK'
  <2>1. calls' \in 0..MaxCalls
    BY <1>2 DEF TxExecute, Finish, Calls
  <2>2. CASE TxExecute(t, x)
    BY <2>1, <2>2 DEF TxExecute, AllowThreads
  <2>3. CASE Finish(t, x)
    BY <2>1, <2>3 DEF Finish, EndTransaction
  <2> QED BY <1>2, <2>2, <2>3
<1>3. ASSUME NEW t \in Thread, CheckOpen(t) \/ Claim(t) \/ Lock(t) \/ Return(t)  PROVE TypeOK'
  BY <1>3 DEF CheckOpen, Claim, Lock, Return
<1>4. ASSUME NEW t \in Thread, Statement(t) \/ Panic(t) \/ TakeEngine(t) \/ Refuse(t)
      PROVE  TypeOK'
  <2>1. CASE Statement(t)
    <3>1. intruders' \in [Thread -> Nat]
      BY <2>1 DEF Statement
    <3> QED BY <2>1, <3>1 DEF Statement, Unlock
  <2>2. CASE Panic(t)
    <3>1. poisoned' \in BOOLEAN
      BY <2>2 DEF Panic
    <3> QED BY <2>2, <3>1 DEF Panic, Unlock
  <2>3. CASE TakeEngine(t)
    BY <2>3 DEF TakeEngine, Unlock
  <2>4. CASE Refuse(t)
    BY <2>4 DEF Refuse, Unlock
  <2> QED BY <1>4, <2>1, <2>2, <2>3, <2>4
<1>5. CASE UNCHANGED vars
  BY <1>5 DEF vars
<1> QED BY <1>1, <1>2, <1>3, <1>4, <1>5 DEF Next, Work

\* begin sets the flag with the Transaction it makes, the end clears it with it.
LEMMA StepFlag ==
  ASSUME TypeOK, FlagIsTransaction, [Next]_vars  PROVE FlagIsTransaction'
<1>1. CASE UNCHANGED <<flag, tx>>
  BY <1>1 DEF FlagIsTransaction
<1>2. ASSUME NEW t \in Thread, Claim(t)  PROVE FlagIsTransaction'
  <2>1. CASE flag
    BY <1>2, <2>1 DEF Claim, FlagIsTransaction
  <2>2. CASE ~ flag
    BY <1>2, <2>2 DEF Claim, FlagIsTransaction, TypeOK
  <2> QED BY <2>1, <2>2
<1>3. ASSUME NEW t \in Thread, NEW x \in Tx, Finish(t, x)  PROVE FlagIsTransaction'
  BY <1>3 DEF Finish, EndTransaction, FlagIsTransaction, TypeOK
<1>4. \/ UNCHANGED <<flag, tx>>
      \/ \E t \in Thread : Claim(t) \/ \E x \in Tx : Finish(t, x)
  BY DEF Next, Work, Execute, Close, Begin, TxExecute, AllowThreads, CheckOpen, Lock, Return,
         Statement, Panic, TakeEngine, Refuse, Unlock, vars
<1> QED BY <1>1, <1>2, <1>3, <1>4

LEMMA StepLocks ==
  ASSUME TypeOK, LocksHeld, [Next]_vars  PROVE LocksHeld'
<1> USE ThreadAssumption DEF TypeOK, LocksHeld, Goto
<1>1. ASSUME NEW t \in Thread, Execute(t) \/ Close(t) \/ Begin(t)  PROVE LocksHeld'
  BY <1>1 DEF Execute, Close, Begin, Calls, AllowThreads
<1>2. ASSUME NEW t \in Thread, NEW x \in Tx, TxExecute(t, x) \/ Finish(t, x)  PROVE LocksHeld'
  BY <1>2 DEF TxExecute, Finish, Calls, AllowThreads, EndTransaction
<1>3. ASSUME NEW t \in Thread, CheckOpen(t) \/ Claim(t) \/ Lock(t) \/ Return(t)
      PROVE  LocksHeld'
  BY <1>3 DEF CheckOpen, Claim, Lock, Return
<1>4. ASSUME NEW t \in Thread, Statement(t) \/ Panic(t) \/ TakeEngine(t) \/ Refuse(t)
      PROVE  LocksHeld'
  BY <1>4 DEF Statement, Panic, TakeEngine, Refuse, Unlock
<1>5. CASE UNCHANGED vars
  BY <1>5 DEF vars
<1> QED BY <1>1, <1>2, <1>3, <1>4, <1>5 DEF Next, Work

LEMMA StepAdmission ==
  ASSUME TypeOK, Admission, IntruderBound, [Next]_vars
  PROVE  Admission' /\ IntruderBound'
<1> USE TxAssumption DEF TypeOK, Admission, Admitted, IntruderBound, Goto
<1>1. ASSUME NEW t \in Thread, Execute(t) \/ Close(t) \/ Begin(t)
      PROVE  Admission' /\ IntruderBound'
  BY <1>1 DEF Execute, Close, Begin, Calls, AllowThreads
<1>2. ASSUME NEW t \in Thread, NEW x \in Tx, TxExecute(t, x)
      PROVE  Admission' /\ IntruderBound'
  BY <1>2 DEF TxExecute, Calls, AllowThreads
<1>3. ASSUME NEW t \in Thread, NEW x \in Tx, Finish(t, x)
      PROVE  Admission' /\ IntruderBound'
  BY <1>3 DEF Finish, EndTransaction
<1>4. ASSUME NEW t \in Thread, CheckOpen(t) \/ Claim(t) \/ Lock(t) \/ Return(t)
      PROVE  Admission' /\ IntruderBound'
  BY <1>4 DEF CheckOpen, Claim, Lock, Return
<1>5. ASSUME NEW t \in Thread, Statement(t)  PROVE Admission' /\ IntruderBound'
  BY <1>5 DEF Statement, Unlock
<1>6. ASSUME NEW t \in Thread, Panic(t) \/ TakeEngine(t) \/ Refuse(t)
      PROVE  Admission' /\ IntruderBound'
  BY <1>6 DEF Panic, TakeEngine, Refuse, Unlock
<1>7. CASE UNCHANGED vars
  BY <1>7 DEF vars
<1> QED BY <1>1, <1>2, <1>3, <1>4, <1>5, <1>6, <1>7 DEF Next, Work

\* At most one Transaction is unfinished and the flag says so; the mutex and the GIL are
\* held by whom the steps say (Database::begin, Transaction::finish).
THEOREM InvCorrect == Spec => []Inv
<1>1. ASSUME Inv, [Next]_vars  PROVE Inv'
  BY <1>1, StepType, StepFlag, StepLocks, StepAdmission DEF Inv
<1> QED BY InitInv, <1>1, PTL DEF Spec

\* No thread gets a second statement of the Database into a transaction.
THEOREM IntruderBoundCorrect == Spec => []IntruderBound
<1>1. Inv => IntruderBound
  BY DEF Inv
<1> QED BY <1>1, InvCorrect, PTL
=============================================================================
