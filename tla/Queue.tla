------------------------------- MODULE Queue --------------------------------
(***************************************************************************)
(* The blocking operations of llarp::thread::Queue (queue.hpp) over the    *)
(* cell protocol of QueueManager: pushBack and popFront announce           *)
(* themselves in a waiting counter, look at the size once more and sleep   *)
(* on a semaphore; whoever changes the queue looks at the counter          *)
(* afterwards and notifies.  Counters, size() and semaphores are shared    *)
(* accesses of their own, so every one of them is a step.                  *)
(***************************************************************************)
EXTENDS QueueManager, FiniteSets

CONSTANTS Ops   \* the operations this instance calls

VARIABLES op,              \* the operation each thread runs
          stage,           \* where it is in it
          waitingPushers,  \* m_waitingPushers
          waitingPoppers,  \* m_waitingPoppers
          pushSem,         \* m_pushSemaphore.m_count
          popSem,          \* m_popSemaphore.m_count
          seen,            \* the push index size() loaded; removeAll's elemCount
          popped,          \* poppedItems
          secondTry,       \* of popFrontWithTimeout
          owed             \* notifications still to be made by the loop at hand

waitVars == <<waitingPushers, waitingPoppers, pushSem, popSem>>
callVars == <<seen, popped, secondTry, owed>>
queueVars == <<qmVars, op, stage, waitVars, callVars>>

PushOps == {"tryPushBack", "pushBack"}
PopOps == {"tryPopFront", "popFront", "popFrontWithTimeout"}
AllOps == PushOps \cup PopOps \cup {"removeAll", "disable", "enable"}
Stages == {"none", "try", "announce", "sizePush", "sizePop", "enabled", "wait",
           "retract", "check", "notify"}

QueueInit ==
  /\ QMInit
  /\ op = [t \in Threads |-> "none"]
  /\ stage = [t \in Threads |-> "none"]
  /\ waitingPushers = 0 /\ waitingPoppers = 0 /\ pushSem = 0 /\ popSem = 0
  /\ seen = [t \in Threads |-> 0]
  /\ popped = [t \in Threads |-> 0]
  /\ secondTry = [t \in Threads |-> FALSE]
  /\ owed = [t \in Threads |-> 0]

To(t, s) == stage' = [stage EXCEPT ![t] = s]

Reset(f, t, v) == [f EXCEPT ![t] = v]

\* Go on at s; a call that returns ("none") takes its locals with it.
GoOn(t, s) ==
  /\ To(t, s)
  /\ IF s # "none"
       THEN UNCHANGED <<op, seen, popped, secondTry, localVars, ret>>
       ELSE /\ op' = Reset(op, t, "none")
            /\ seen' = Reset(seen, t, 0)
            /\ popped' = Reset(popped, t, 0)
            /\ secondTry' = Reset(secondTry, t, FALSE)
            /\ loaded' = Reset(loaded, t, 0)
            /\ saved' = Reset(saved, t, NoIndex)
            /\ gen' = Reset(gen, t, 0)
            /\ idx' = Reset(idx, t, 0)
            /\ clr' = Reset(clr, t, 0)
            /\ item' = Reset(item, t, NoItem)
            /\ ret' = Reset(ret, t, "Success")
  /\ UNCHANGED <<indexVars, states, data, calls, pc>>

-----------------------------------------------------------------------------
(* Calls, and the attempts they make on the cells *)

Call(t, o) ==
  /\ stage[t] = "none" /\ pc[t] = "idle"
  /\ calls < MaxCalls
  /\ calls' = calls + 1
  /\ op' = [op EXCEPT ![t] = IF o = "enable" THEN "none" ELSE o]
  /\ \/ /\ o \in PushOps
        /\ To(t, "try") /\ BeginPush(t, 1)   \* no property here tells items apart
     \/ /\ o \in PopOps
        /\ To(t, "try") /\ BeginPop(t)
     \/ /\ o = "removeAll"
        /\ To(t, "sizePush")
        /\ UNCHANGED <<indexVars, states, data, pc, localVars, ret>>
     \/ /\ o = "disable"
        /\ disabled' = TRUE
        /\ To(t, "check")
        /\ UNCHANGED <<pushIndex, popIndex, states, data, pc, localVars, ret>>
     \/ /\ o = "enable"
        /\ disabled' = FALSE
        /\ UNCHANGED <<pushIndex, popIndex, states, data, pc, localVars, ret, stage>>
  /\ UNCHANGED <<waitVars, callVars>>

\* One step of tryPushBack or reservePopIndex; ~QueuePushGuard counts the
\* elements it discards.
Attempt(t) ==
  /\ stage[t] = "try"
  /\ PushStep(t) \/ ClearStep(t) \/ PopStep(t)
  /\ popped' = IF pc[t] \in {"clearFree", "abortFree"}
                 THEN [popped EXCEPT ![t] = @ + 1] ELSE popped
  /\ UNCHANGED <<op, stage, waitVars, seen, secondTry, owed>>

Attempted(t) == stage[t] = "try" /\ pc[t] = "idle"

Again(t) ==   \* the loops of pushBack, popFront, popFrontWithTimeout
  /\ To(t, "try")
  /\ IF op[t] \in PushOps THEN BeginPush(t, item[t]) ELSE BeginPop(t)
  /\ UNCHANGED calls

Succeeded(t) ==
  /\ Attempted(t) /\ ret[t] = "Success" /\ op[t] # "removeAll"
  /\ To(t, "check")
  /\ UNCHANGED <<qmVars, op, waitVars, callVars>>

Threw(t) ==   \* the exception leaves the call after the guard's notifications
  /\ Attempted(t) /\ ret[t] = "Threw"
  /\ owed' = [owed EXCEPT ![t] = popped[t]]
  /\ To(t, "notify")
  /\ UNCHANGED <<qmVars, op, waitVars, seen, popped, secondTry>>

GiveUp(t) ==
  /\ Attempted(t)
  /\ \/ ret[t] = "QueueDisabled"
     \/ ret[t] = "QueueFull" /\ op[t] = "tryPushBack"
     \/ ret[t] = "QueueEmpty" /\ op[t] = "tryPopFront"
     \/ ret[t] = "QueueEmpty" /\ op[t] = "popFrontWithTimeout" /\ secondTry[t]
  /\ GoOn(t, "none")
  /\ UNCHANGED <<waitVars, owed>>

MustWait(t) ==
  /\ Attempted(t)
  /\ \/ ret[t] = "QueueFull" /\ op[t] = "pushBack"
     \/ ret[t] = "QueueEmpty" /\ op[t] = "popFront"
     \/ ret[t] = "QueueEmpty" /\ op[t] = "popFrontWithTimeout" /\ ~secondTry[t]
  /\ To(t, "announce")
  /\ UNCHANGED <<qmVars, op, waitVars, callVars>>

-----------------------------------------------------------------------------
(* Waiting *)

Pushing(t) == op[t] \in PushOps

\* Faulty variant: a popper leaves the pushers' counter.
CountWaiterSwapped(t, n) ==
  IF Pushing(t) \/ n < 0
    THEN waitingPushers' = waitingPushers + n /\ UNCHANGED waitingPoppers
    ELSE waitingPoppers' = waitingPoppers + n /\ UNCHANGED waitingPushers

\* fetch_add.  It is relaxed in the code and taken here as ordered with the other
\* accesses, as a locked instruction is (README, 2).
CountWaiter(t, n) ==
  IF Pushing(t)
    THEN waitingPushers' = waitingPushers + n /\ UNCHANGED waitingPoppers
    ELSE waitingPoppers' = waitingPoppers + n /\ UNCHANGED waitingPushers

Announce(t) ==
  /\ stage[t] = "announce"
  /\ CountWaiter(t, 1)
  /\ To(t, "sizePush")
  /\ UNCHANGED <<qmVars, op, pushSem, popSem, callVars>>

SizePush(t) ==   \* size() loads m_pushIndex ...
  /\ stage[t] = "sizePush"
  /\ seen' = [seen EXCEPT ![t] = pushIndex]
  /\ To(t, "sizePop")
  /\ UNCHANGED <<qmVars, op, waitVars, popped, secondTry, owed>>

SizePop(t) ==    \* ... and then m_popIndex
  LET size == SizeOf(seen[t], popIndex) IN
  /\ stage[t] = "sizePop"
  /\ \/ /\ op[t] \in PopOps
        /\ To(t, IF size = 0 THEN "wait" ELSE "retract")
        /\ UNCHANGED <<qmVars, seen>>
     \/ /\ Pushing(t)
        /\ To(t, IF size >= Capacity THEN "enabled" ELSE "retract")
        /\ UNCHANGED <<qmVars, seen>>
     \/ /\ op[t] = "removeAll"
        /\ seen' = [seen EXCEPT ![t] = size]
        /\ IF size > 0 THEN To(t, "try") /\ BeginPop(t) /\ UNCHANGED calls
                       ELSE To(t, "check") /\ UNCHANGED qmVars
  /\ UNCHANGED <<op, waitVars, popped, secondTry, owed>>

CheckEnabled(t) ==
  /\ stage[t] = "enabled"
  /\ To(t, IF disabled THEN "retract" ELSE "wait")
  /\ UNCHANGED <<qmVars, op, waitVars, callVars>>

Wait(t) ==   \* Semaphore::wait, waitFor
  /\ stage[t] = "wait"
  /\ \/ /\ Pushing(t) /\ pushSem > 0
        /\ pushSem' = pushSem - 1
        /\ UNCHANGED popSem
     \/ /\ op[t] \in PopOps /\ popSem > 0
        /\ popSem' = popSem - 1
        /\ UNCHANGED pushSem
  /\ secondTry' = [secondTry EXCEPT ![t] = op[t] = "popFrontWithTimeout"]
  /\ To(t, "retract")
  /\ UNCHANGED <<qmVars, op, waitingPushers, waitingPoppers, seen, popped, owed>>

WaitTimeout(t) ==
  /\ stage[t] = "wait" /\ op[t] = "popFrontWithTimeout" /\ popSem = 0
  /\ secondTry' = [secondTry EXCEPT ![t] = TRUE]
  /\ To(t, "retract")
  /\ UNCHANGED <<qmVars, op, waitVars, seen, popped, owed>>

Retract(t) ==
  /\ stage[t] = "retract"
  /\ CountWaiter(t, -1)
  /\ Again(t)
  /\ UNCHANGED <<op, pushSem, popSem, callVars>>

-----------------------------------------------------------------------------
(* removeAll, and the notifications every operation ends with *)

RemoveNext(t) ==
  /\ Attempted(t) /\ op[t] = "removeAll"
  /\ IF ret[t] = "Success"
       THEN /\ popped' = [popped EXCEPT ![t] = @ + 1]
            /\ IF popped[t] + 1 < seen[t] THEN Again(t)
                                          ELSE To(t, "check") /\ UNCHANGED qmVars
       ELSE To(t, "check") /\ UNCHANGED <<qmVars, popped>>
  /\ UNCHANGED <<op, waitVars, seen, secondTry, owed>>

Smaller(a, b) == IF a < b THEN a ELSE b

\* Faulty variant: a pop notifies nobody.
CheckWaitersAfterPushOnly(t) ==
  LET n == IF Pushing(t) THEN Smaller(1, waitingPoppers) ELSE 0 IN
  /\ stage[t] = "check"
  /\ owed' = [owed EXCEPT ![t] = n]
  /\ GoOn(t, IF n = 0 THEN "none" ELSE "notify")
  /\ UNCHANGED waitVars

\* The read of the other side's waiting counter.
CheckWaiters(t) ==
  LET n == CASE Pushing(t) -> Smaller(1, waitingPoppers)
             [] op[t] \in PopOps -> Smaller(1, waitingPushers)
             [] op[t] = "removeAll" -> Smaller(popped[t] + 1, waitingPushers)
             [] op[t] = "disable" -> waitingPushers
  IN
  /\ stage[t] = "check"
  /\ owed' = [owed EXCEPT ![t] = n]
  /\ GoOn(t, IF n = 0 THEN "none" ELSE "notify")
  /\ UNCHANGED waitVars

Notify(t) ==
  /\ stage[t] = "notify"
  /\ owed' = [owed EXCEPT ![t] = @ - 1]
  /\ IF Pushing(t) /\ ret[t] # "Threw"
       THEN popSem' = popSem + 1 /\ UNCHANGED pushSem
       ELSE pushSem' = pushSem + 1 /\ UNCHANGED popSem
  /\ GoOn(t, IF owed[t] = 1 THEN "none" ELSE "notify")
  /\ UNCHANGED <<waitingPushers, waitingPoppers>>

Progress(t) ==
  \/ Attempt(t) \/ Succeeded(t) \/ Threw(t) \/ GiveUp(t) \/ MustWait(t)
  \/ Announce(t) \/ SizePush(t) \/ SizePop(t) \/ CheckEnabled(t) \/ Wait(t)
  \/ WaitTimeout(t) \/ Retract(t) \/ RemoveNext(t) \/ CheckWaiters(t) \/ Notify(t)

QueueNext == \E t \in Threads : Progress(t) \/ \E o \in Ops : Call(t, o)

QueueSpec == QueueInit /\ [][QueueNext]_queueVars

-----------------------------------------------------------------------------
(* Properties *)

QueueTypeOK ==
  /\ TypeOK
  /\ op \in [Threads -> AllOps \cup {"none"}]
  /\ stage \in [Threads -> Stages]
  /\ waitingPushers \in 0 .. Cardinality(Threads)
  /\ waitingPoppers \in 0 .. Cardinality(Threads)
  /\ pushSem \in Nat /\ popSem \in Nat
  /\ seen \in [Threads -> Nat]
  /\ popped \in [Threads -> Nat]
  /\ secondTry \in [Threads -> BOOLEAN]
  /\ owed \in [Threads -> Nat]

Asleep(t) ==
  /\ stage[t] = "wait"
  /\ IF Pushing(t) THEN pushSem = 0 ELSE popSem = 0

Quiescent == \A t \in Threads : stage[t] = "none" \/ Asleep(t)

\* No wakeup is lost between the attempt that failed and the sleep: once every
\* thread has returned or sleeps, a pushBack still asleep finds the queue full
\* and enabled (disable() ends all pushes "including blocked operations",
\* queue.hpp:87), and a popFront still asleep finds it empty (unless a push that
\* raced disable() could not advance m_pushIndex, see PopFrontFindsElements).
NoLostWakeup ==
  Quiescent => \A t \in Threads : Asleep(t) =>
    IF Pushing(t) THEN Length = Capacity /\ ~disabled ELSE Length = 0 \/ Back # pushIndex

\* "Remove an element from the queue. Block until an element is available"
\* (queue.hpp:69): a popFront that stays asleep finds no element, disabled or
\* not.
PopFrontFindsElements ==
  Quiescent => \A t \in Threads : Asleep(t) /\ ~Pushing(t) => Length = 0
=============================================================================
