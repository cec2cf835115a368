------------------------------- MODULE EquityCall -------------------------------
(***************************************************************************)
(* The equity entry points of the Python extension                         *)
(* (binding/core_simulation.cpp) over the C functions they call: the        *)
(* interpreter lock is released around the calculation, the C functions    *)
(* leave their error text in a slot of the calling thread                  *)
(* (src/api/waist_error.h), the range result is a handle that lives for one *)
(* call, and a Range keeps a copy of its combos for Range.combos().         *)
(***************************************************************************)
EXTENDS Integers, FiniteSets

CONSTANTS
  Threads,       (* Python threads                                          *)
  NoThread,
  Errors,        (* texts a C function can fail with                        *)
  BadAlloc,      (* an allocation of the binding itself fails               *)
  Mismatch,      (* the two ranges are of different games                   *)
  NoError,
  Weights,       (* weights Python may write to a Combo                     *)
  StoredWeight,  (* the weight the range was built with                     *)
  Unread         (* Range.combos() has not been called                      *)

ASSUME CallAssumption ==
  /\ NoThread \notin Threads /\ Unread \notin Weights
  /\ StoredWeight \in Weights
  /\ NoError \notin Errors \union {BadAlloc, Mismatch}

VARIABLES
  gil,      (* the thread that holds the interpreter lock                    *)
  pc,       (* where each thread is; "python" is interpreter code            *)
  slot,     (* g_last_error                                                  *)
  outcome,  (* the captured failure of the call in progress                  *)
  handle,   (* the range result of the call in progress                      *)
  answer,   (* the weight the range call in progress was computed with       *)
  raised,   (* the text of the last exception                                *)
  shown,    (* PyRange::exposed_: the weight Range.combos() shows            *)
  met,      (* history: the failure the thread's last call itself met        *)
  onView    (* history: the weights combos() showed while the call ran       *)

vars == <<gil, pc, slot, outcome, handle, answer, raised, shown, met, onView>>

Failures == Errors \union {BadAlloc, Mismatch, NoError}

(* Variant: the copy is used before it is made.                              *)
ShownUnfilled == shown

(* What Range.combos() shows, or would if it were called now.               *)
Shown == IF shown = Unread THEN StoredWeight ELSE shown

Interpreting(t) == gil = t /\ pc[t] = "python"

Goto(t, where) == pc' = [pc EXCEPT ![t] = where]

(* Variant: one slot for the process.                                       *)
FailShared(t, e) == /\ slot' = [u \in Threads |-> e]
                    /\ met' = [met EXCEPT ![t] = e]

(* A C function fails: the text goes to the slot of the thread that called.  *)
Fail(t, e) == /\ slot' = [slot EXCEPT ![t] = e]
              /\ met' = [met EXCEPT ![t] = e]

(* A C++ exception leaves the released region: nothing is in the slot.       *)
Throw(t) == /\ outcome' = [outcome EXCEPT ![t] = BadAlloc]
            /\ met' = [met EXCEPT ![t] = BadAlloc]
            /\ UNCHANGED slot

Begin(t) == /\ met' = [met EXCEPT ![t] = NoError]
            /\ raised' = [raised EXCEPT ![t] = NoError]
            /\ onView' = [onView EXCEPT ![t] = {Shown}]
            /\ UNCHANGED <<slot, outcome, handle, answer, shown>>

-----------------------------------------------------------------------------
Init ==
  /\ gil = NoThread /\ shown = Unread
  /\ pc = [t \in Threads |-> "python"]
  /\ slot = [t \in Threads |-> NoError] /\ outcome = slot
  /\ raised = slot /\ met = slot
  /\ handle = [t \in Threads |-> "none"]
  /\ answer = [t \in Threads |-> Unread]
  /\ onView = [t \in Threads |-> {}]

(* The interpreter's own part: the lock is handed out, and given up between   *)
(* two bytecodes.                                                           *)
Acquire(t) ==
  /\ gil = NoThread /\ pc[t] \in {"python", "relock"}
  /\ gil' = t
  /\ UNCHANGED <<pc, slot, outcome, handle, answer, raised, shown, met, onView>>

Yield(t) ==
  /\ Interpreting(t)
  /\ gil' = NoThread
  /\ UNCHANGED <<pc, slot, outcome, handle, answer, raised, shown, met, onView>>

(* Any function that keeps the lock: it fails, and check_status raises.       *)
CheckedCall(t) ==
  /\ Interpreting(t)
  /\ \E e \in Errors : Fail(t, e)
  /\ raised' = [raised EXCEPT ![t] = NoError]
  /\ Goto(t, "check")
  /\ UNCHANGED <<gil, outcome, handle, answer, shown, onView>>

CheckStatus(t) ==
  /\ pc[t] = "check"
  /\ raised' = [raised EXCEPT ![t] = slot[t]]
  /\ Goto(t, "python")
  /\ UNCHANGED <<gil, slot, outcome, handle, answer, shown, met, onView>>

(* Range.combos(): read out of the handle once, then kept.                   *)
Combos(t) ==
  /\ Interpreting(t) /\ shown = Unread
  /\ shown' = StoredWeight
  /\ UNCHANGED <<gil, pc, slot, outcome, handle, answer, raised, met, onView>>

(* combo.weight = w, on an element of Range.combos().                        *)
SetWeight(t) ==
  /\ Interpreting(t) /\ shown # Unread
  /\ shown' \in Weights
  /\ onView' = [u \in Threads |-> IF pc[u] \in {"python", "check"} THEN onView[u]
                                  ELSE onView[u] \union {shown'}]
  /\ UNCHANGED <<gil, pc, slot, outcome, handle, answer, raised, met>>

(* calculate_range_equity checks the games while it still holds the lock.     *)
MismatchRaised(t) ==
  /\ Interpreting(t)
  /\ met' = [met EXCEPT ![t] = Mismatch]
  /\ raised' = [raised EXCEPT ![t] = Mismatch]
  /\ UNCHANGED <<gil, pc, slot, outcome, handle, answer, shown, onView>>

(* Variant: the lock is kept.                                               *)
EnterLocked(t) ==
  /\ Interpreting(t)
  /\ \E where \in {"equity", "range"} : Goto(t, where)
  /\ Begin(t)
  /\ UNCHANGED gil

(* The lock is released for the whole calculation.                           *)
Enter(t) ==
  /\ Interpreting(t)
  /\ \E where \in {"equity", "range"} : Goto(t, where)
  /\ Begin(t)
  /\ gil' = NoThread

(* The calculation itself. A range call that succeeds owns a result.          *)
CallFails(t) ==
  /\ pc[t] \in {"equity", "range"}
  /\ \E e \in Errors : Fail(t, e)
  /\ Goto(t, "capture")
  /\ UNCHANGED <<gil, outcome, handle, answer, raised, shown, onView>>

EquityDone(t) ==
  /\ pc[t] = "equity"
  /\ Goto(t, "unwind")
  /\ UNCHANGED <<gil, slot, outcome, handle, answer, raised, shown, met, onView>>

RangeDone(t) ==
  /\ pc[t] = "range"
  /\ handle' = [handle EXCEPT ![t] = "live"]
  /\ answer' = [answer EXCEPT ![t] = StoredWeight]
  /\ Goto(t, "summary")
  /\ UNCHANGED <<gil, slot, outcome, raised, shown, met, onView>>

Capture(t) ==
  /\ pc[t] = "capture"
  /\ outcome' = [outcome EXCEPT ![t] = slot[t]]
  /\ Goto(t, "unwind")
  /\ UNCHANGED <<gil, slot, handle, answer, raised, shown, met, onView>>

(* The summary and the two breakdowns are read out of the result.             *)
After == [summary |-> "hero", hero |-> "villain", villain |-> "unwind"]

ReadResult(t) ==
  /\ pc[t] \in DOMAIN After
  /\ Goto(t, After[pc[t]])
  /\ UNCHANGED <<gil, slot, outcome, handle, answer, raised, shown, met, onView>>

(* Variant: the exception leaves without running the guard.                  *)
AllocationFailsUnguarded(t) ==
  /\ pc[t] \in {"equity", "hero", "villain"}
  /\ Throw(t)
  /\ Goto(t, "relock")
  /\ UNCHANGED <<gil, handle, answer, raised, shown, onView>>

(* A column of the result cannot be allocated.                               *)
AllocationFails(t) ==
  /\ pc[t] \in {"equity", "hero", "villain"}
  /\ Throw(t)
  /\ Goto(t, "unwind")
  /\ UNCHANGED <<gil, handle, answer, raised, shown, onView>>

(* Variant: the failure is raised where it is found.                         *)
UnwindRaises(t) ==
  /\ pc[t] = "unwind"
  /\ handle' = [handle EXCEPT ![t] = IF @ = "live" THEN "freed" ELSE @]
  /\ raised' = [raised EXCEPT ![t] = outcome[t]]
  /\ Goto(t, "relock")
  /\ UNCHANGED <<gil, slot, outcome, answer, shown, met, onView>>

(* The scope ends: the guard destroys the result, then the lock is asked for.  *)
Unwind(t) ==
  /\ pc[t] = "unwind"
  /\ handle' = [handle EXCEPT ![t] = IF @ = "live" THEN "freed" ELSE @]
  /\ Goto(t, "relock")
  /\ UNCHANGED <<gil, slot, outcome, answer, raised, shown, met, onView>>

(* With the lock back: rethrow, or return the result. The locals are gone.     *)
Finish(t) ==
  /\ gil = t /\ pc[t] = "relock"
  /\ raised' = [raised EXCEPT ![t] = outcome[t]]
  /\ outcome' = [outcome EXCEPT ![t] = NoError]
  /\ handle' = [handle EXCEPT ![t] = IF @ = "freed" THEN "none" ELSE @]
  /\ answer' = [answer EXCEPT ![t] = Unread]
  /\ onView' = [onView EXCEPT ![t] = {}]
  /\ Goto(t, "python")
  /\ UNCHANGED <<gil, slot, shown, met>>

Next ==
  \E t \in Threads :
    \/ Acquire(t) \/ Yield(t)
    \/ CheckedCall(t) \/ CheckStatus(t)
    \/ Combos(t) \/ SetWeight(t)
    \/ MismatchRaised(t) \/ Enter(t)
    \/ CallFails(t) \/ EquityDone(t) \/ RangeDone(t) \/ Capture(t)
    \/ ReadResult(t) \/ AllocationFails(t) \/ Unwind(t) \/ Finish(t)

(* The interpreter hands the lock on when another thread asks for it, and a    *)
(* thread that holds it gets on with its work. Nothing is asked of the         *)
(* calculation: it may run for ever.                                        *)
Fairness ==
  \A t \in Threads :
    /\ SF_vars(Acquire(t)) /\ SF_vars(Yield(t))
    /\ WF_vars(CheckStatus(t)) /\ WF_vars(Finish(t))

Spec == Init /\ [][Next]_vars /\ Fairness

-----------------------------------------------------------------------------
(* Every thread is at a step of its call and every slot holds a text.         *)
TypeOK ==
  /\ gil \in Threads \union {NoThread}
  /\ pc \in [Threads -> {"python", "check", "equity", "range", "capture",
                         "summary", "hero", "villain", "unwind", "relock"}]
  /\ slot \in [Threads -> Errors \union {NoError}]
  /\ outcome \in [Threads -> Failures] /\ raised \in [Threads -> Failures]
  /\ met \in [Threads -> Failures]
  /\ handle \in [Threads -> {"none", "live", "freed"}]
  /\ answer \in [Threads -> Weights \union {Unread}]
  /\ shown \in Weights \union {Unread}
  /\ onView \in [Threads -> SUBSET Weights]

(* The exception a call raises is the failure that call met, however many      *)
(* other threads fail between the failure and the raise; a call that met none  *)
(* raises nothing.                                                          *)
ErrorIsOwn == \A t \in Threads : pc[t] = "python" => raised[t] = met[t]

(* The result of a range call is there while it is read, and is gone when the  *)
(* call ends, on every path: an error, a failed allocation, success.          *)
ResultLivesForTheCall ==
  \A t \in Threads :
    /\ pc[t] \in DOMAIN After => handle[t] = "live"
    /\ pc[t] \in {"relock", "python", "check"} => handle[t] # "live"

(* Interpreter state, an exception or a Combo, is touched by no thread but     *)
(* the one that holds the lock.                                             *)
PythonUnderTheLock ==
  [][/\ \A t \in Threads : raised'[t] # raised[t] => gil = t
     /\ shown' # shown => gil # NoThread]_vars

(* A thread with interpreter work to do gets to do it, were a calculation of   *)
(* another thread never to end (python/test/test_gil_release.py).             *)
OthersRun ==
  \A t \in Threads : (pc[t] \in {"python", "relock"} /\ gil # t) ~> gil = t

(* README.md:381-384 has calculate_range_equity read the Combo objects of       *)
(* Range.combos(): the weight a call was computed with is one they had while   *)
(* it ran.                                                                  *)
CallReadsCombos ==
  \A t \in Threads : answer[t] # Unread => answer[t] \in onView[t]
=============================================================================
