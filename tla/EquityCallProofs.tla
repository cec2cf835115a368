---------------------------- MODULE EquityCallProofs ----------------------------
(***************************************************************************)
(* Theorems about the equity entry points of the Python extension, for any *)
(* number of Python threads: what a call raises is its own failure, the    *)
(* result handle lives as long as it is read, and interpreter state is     *)
(* touched under the lock. They follow from CallInv, which says what each  *)
(* place in a call implies about the thread's own slot, captured outcome   *)
(* and handle.                                                             *)
(***************************************************************************)
EXTENDS EquityCall, TLAPS

(* The places of a call where nothing has failed.                          *)
Sound == {"equity", "range", "summary", "hero", "villain"}

(* The failure is in the slot when the slot is about to be read, and in    *)
(* the captured outcome from then on, until it is raised.                  *)
ErrorAt(t) ==
  /\ pc[t] \in {"check", "capture"} => slot[t] = met[t]
  /\ pc[t] \in {"unwind", "relock"} => outcome[t] = met[t]
  /\ pc[t] \in Sound => met[t] = NoError
  /\ pc[t] \in Sound \union {"python", "check"} => outcome[t] = NoError
  /\ pc[t] = "python" => raised[t] = met[t]

HandleAt(t) ==
  /\ pc[t] \in {"python", "check", "equity", "range", "capture"} => handle[t] = "none"
  /\ pc[t] \in {"summary", "hero", "villain"} => handle[t] = "live"
  /\ pc[t] = "relock" => handle[t] # "live"
  /\ pc[t] = "unwind" => handle[t] \in {"none", "live"}

(* A thread that reads its slot to raise holds the lock.                   *)
LockAt(t) == pc[t] = "check" => gil = t

CallInv ==
  /\ TypeOK
  /\ \A t \in Threads : ErrorAt(t) /\ HandleAt(t) /\ LockAt(t)

(* The readable places of the result, spelled out.                         *)
LEMMA AfterFacts ==
  /\ DOMAIN After = {"summary", "hero", "villain"}
  /\ After["summary"] = "hero" /\ After["hero"] = "villain"
  /\ After["villain"] = "unwind"
BY DEF After

-----------------------------------------------------------------------------
(* A program starts with no failure, no handle and nobody in a call.       *)
LEMMA InitInv == Init => CallInv
BY CallAssumption DEF Init, CallInv, TypeOK, ErrorAt, HandleAt, LockAt, Sound, Failures

(* Every step leaves every variable in its type.                           *)
LEMMA StepType == ASSUME TypeOK, [Next]_vars PROVE TypeOK'
<1>1. CASE UNCHANGED vars
  BY <1>1 DEF vars, TypeOK
<1>2. ASSUME NEW t \in Threads,
             \/ Acquire(t) \/ Yield(t) \/ CheckStatus(t)
             \/ EquityDone(t) \/ Capture(t) \/ Unwind(t)
      PROVE  TypeOK'
  BY <1>2 DEF TypeOK, Acquire, Yield, Interpreting, CheckStatus, EquityDone,
              Capture, Unwind, Goto, Failures
<1>3. ASSUME NEW t \in Threads, CheckedCall(t) \/ CallFails(t)
      PROVE  TypeOK'
  BY <1>3 DEF TypeOK, CheckedCall, CallFails, Interpreting, Fail, Goto, Failures
<1>4. ASSUME NEW t \in Threads, Combos(t) \/ SetWeight(t)
      PROVE  TypeOK'
  BY <1>4, CallAssumption DEF TypeOK, Combos, SetWeight, Interpreting
<1>5. ASSUME NEW t \in Threads, MismatchRaised(t) \/ AllocationFails(t)
      PROVE  TypeOK'
  BY <1>5 DEF TypeOK, MismatchRaised, AllocationFails, Throw, Interpreting, Goto, Failures
<1>6. ASSUME NEW t \in Threads, Enter(t)
      PROVE  TypeOK'
  <2>1. Shown \in Weights
    BY CallAssumption DEF Shown, TypeOK
  <2> QED
    BY <1>6, <2>1 DEF TypeOK, Enter, Begin, Interpreting, Goto, Failures
<1>7. ASSUME NEW t \in Threads, RangeDone(t) \/ Finish(t)
      PROVE  TypeOK'
  BY <1>7, CallAssumption DEF TypeOK, RangeDone, Finish, Goto, Failures
<1>8. ASSUME NEW t \in Threads, ReadResult(t)
      PROVE  TypeOK'
  BY <1>8, AfterFacts DEF TypeOK, ReadResult, Goto
<1> QED
  BY <1>1, <1>2, <1>3, <1>4, <1>5, <1>6, <1>7, <1>8 DEF Next

(* A step of one thread changes what CallInv says of that thread only, but *)
(* for the lock.                                                           *)
LEMMA StepInv == ASSUME CallInv, [Next]_vars PROVE CallInv'
<1> USE DEF CallInv
<1>1. TypeOK'
  BY StepType
<1>2. SUFFICES ASSUME NEW u \in Threads
               PROVE  ErrorAt(u)' /\ HandleAt(u)' /\ LockAt(u)'
  BY <1>1
<1> USE DEF ErrorAt, HandleAt, LockAt, Sound
<1>3. CASE UNCHANGED vars
  BY <1>3 DEF vars
<1>4. ASSUME NEW t \in Threads, Acquire(t) \/ Yield(t)
      PROVE  ErrorAt(u)' /\ HandleAt(u)' /\ LockAt(u)'
  BY <1>4, CallAssumption DEF Acquire, Yield, Interpreting, TypeOK
<1>5. ASSUME NEW t \in Threads, CheckedCall(t) \/ CallFails(t)
      PROVE  ErrorAt(u)' /\ HandleAt(u)' /\ LockAt(u)'
  BY <1>5 DEF CheckedCall, CallFails, Fail, Goto, Interpreting, TypeOK
<1>6. ASSUME NEW t \in Threads, CheckStatus(t) \/ Capture(t)
      PROVE  ErrorAt(u)' /\ HandleAt(u)' /\ LockAt(u)'
  BY <1>6 DEF CheckStatus, Capture, Goto, TypeOK
<1>7. ASSUME NEW t \in Threads, Combos(t) \/ SetWeight(t) \/ MismatchRaised(t)
      PROVE  ErrorAt(u)' /\ HandleAt(u)' /\ LockAt(u)'
  BY <1>7 DEF Combos, SetWeight, MismatchRaised, Interpreting, TypeOK
<1>8. ASSUME NEW t \in Threads, Enter(t)
      PROVE  ErrorAt(u)' /\ HandleAt(u)' /\ LockAt(u)'
  BY <1>8, CallAssumption DEF Enter, Begin, Goto, Interpreting, TypeOK
<1>9. ASSUME NEW t \in Threads, EquityDone(t) \/ RangeDone(t)
      PROVE  ErrorAt(u)' /\ HandleAt(u)' /\ LockAt(u)'
  BY <1>9 DEF EquityDone, RangeDone, Goto, TypeOK
<1>10. ASSUME NEW t \in Threads, ReadResult(t)
       PROVE  ErrorAt(u)' /\ HandleAt(u)' /\ LockAt(u)'
  BY <1>10, AfterFacts DEF ReadResult, Goto, TypeOK
<1>11. ASSUME NEW t \in Threads, AllocationFails(t)
       PROVE  ErrorAt(u)' /\ HandleAt(u)' /\ LockAt(u)'
  BY <1>11 DEF AllocationFails, Throw, Goto, TypeOK
<1>12. ASSUME NEW t \in Threads, Unwind(t) \/ Finish(t)
       PROVE  ErrorAt(u)' /\ HandleAt(u)' /\ LockAt(u)'
  BY <1>12 DEF Unwind, Finish, Goto, TypeOK
<1> QED
  BY <1>3, <1>4, <1>5, <1>6, <1>7, <1>8, <1>9, <1>10, <1>11, <1>12 DEF Next

(* What each place of a call implies holds throughout every run.           *)
THEOREM CallInvariant == Spec => []CallInv
BY InitInv, StepInv, PTL DEF Spec

(* Every variable keeps its type.                                          *)
THEOREM CallTypes == Spec => []TypeOK
<1>1. CallInv => TypeOK
  BY DEF CallInv
<1> QED
  BY <1>1, CallInvariant, PTL

(* However many threads fail at once, a thread raises the failure its own  *)
(* call met, and raises nothing when it met none.                          *)
THEOREM RaisesOwnError == Spec => []ErrorIsOwn
<1>1. CallInv => ErrorIsOwn
  BY DEF CallInv, ErrorIsOwn, ErrorAt
<1> QED
  BY <1>1, CallInvariant, PTL

(* The range result is there whenever it is read, and gone once the call   *)
(* has left the released region, on every path.                            *)
THEOREM ResultHandleBounded == Spec => []ResultLivesForTheCall
<1>1. CallInv => ResultLivesForTheCall
  BY AfterFacts DEF CallInv, ResultLivesForTheCall, HandleAt
<1> QED
  BY <1>1, CallInvariant, PTL

(* No thread raises, and none writes a Combo, without holding the lock.    *)
THEOREM InterpreterUnderTheLock == Spec => PythonUnderTheLock
<1> DEFINE Touch == /\ \A t \in Threads : raised'[t] # raised[t] => gil = t
                    /\ shown' # shown => gil # NoThread
<1>1. ASSUME CallInv, [Next]_vars PROVE [Touch]_vars
  <2>1. CASE UNCHANGED vars
    BY <2>1
  <2>2. ASSUME NEW t \in Threads, CheckedCall(t) \/ MismatchRaised(t) \/ Combos(t)
                                  \/ SetWeight(t) \/ Enter(t)
        PROVE  Touch
    BY <2>2, <1>1, CallAssumption
       DEF CheckedCall, MismatchRaised, Combos, SetWeight, Enter, Begin,
           Interpreting, CallInv, TypeOK
  <2>3. ASSUME NEW t \in Threads, CheckStatus(t) \/ Finish(t)
        PROVE  Touch
    BY <2>3, <1>1 DEF CheckStatus, Finish, CallInv, TypeOK, LockAt
  <2>4. ASSUME NEW t \in Threads,
               \/ Acquire(t) \/ Yield(t) \/ CallFails(t) \/ EquityDone(t)
               \/ RangeDone(t) \/ Capture(t) \/ ReadResult(t)
               \/ AllocationFails(t) \/ Unwind(t)
        PROVE  Touch
    BY <2>4 DEF Acquire, Yield, CallFails, EquityDone, RangeDone, Capture,
                ReadResult, AllocationFails, Unwind
  <2> QED
    BY <1>1, <2>1, <2>2, <2>3, <2>4 DEF Next
<1> QED
  BY <1>1, CallInvariant, PTL DEF Spec, PythonUnderTheLock
=============================================================================
