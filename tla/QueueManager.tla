---------------------------- MODULE QueueManager ----------------------------
(***************************************************************************)
(* The lock-free bounded queue of llarp/util/thread: the cell and index    *)
(* protocol of QueueManager (queue_manager.cpp) driven by the non-blocking *)
(* operations of Queue (queue.hpp): tryPushBack, tryPopFront and the       *)
(* exception guard that empties the queue when an element's constructor    *)
(* throws.  One action is one access to a shared atomic together with the  *)
(* thread-local code that follows it up to the next access.                *)
(*                                                                         *)
(* Indices are combined indices (generation * capacity + cell) and wrap    *)
(* after NumGenerations generations; an element state is a pair of a       *)
(* generation and one of Empty, Writing, Full, Reading.                    *)
(***************************************************************************)
EXTENDS Integers, Sequences

CONSTANTS Threads,         \* the threads that call the queue
          Capacity,        \* m_capacity
          NumGenerations,  \* m_maxGeneration + 1
          StartIndex,      \* pushes and pops done before the model starts
          MaxCalls,        \* bound on the calls the threads make
          NoItem           \* the content of a cell that holds no object

ASSUME QueueConstants ==
  /\ Capacity \in Nat \ {0}
  /\ NumGenerations \in Nat \ {0, 1}
  /\ StartIndex \in 0 .. (Capacity * NumGenerations - 1)
  /\ MaxCalls \in Nat
  /\ NoItem \notin Nat

VARIABLES pushIndex,  \* m_pushIndex without its top bit
          disabled,   \* the top bit of m_pushIndex
          popIndex,   \* m_popIndex
          states,     \* m_states: generation and element state of each cell
          data,       \* m_data
          calls,      \* number of calls started; also names the item pushed
          pc,         \* where each thread is
          loaded,     \* loadedPushIndex / loadedPopIndex / loadedCombinedIndex
          saved,      \* savedPushIndex / savedPopIndex
          gen, idx,   \* the cell a thread has reserved
          clr,        \* combined index of the cell reserved in reservePopForClear
          item,       \* the object a thread pushes or has popped
          ret         \* what the thread's last call returned

indexVars == <<pushIndex, disabled, popIndex>>
localVars == <<loaded, saved, gen, idx, clr, item>>
qmVars == <<pushIndex, disabled, popIndex, states, data, calls, pc,
            loaded, saved, gen, idx, clr, item, ret>>

NumCombined == Capacity * NumGenerations
Combined == 0 .. (NumCombined - 1)
Cells == 0 .. (Capacity - 1)
Generations == 0 .. (NumGenerations - 1)
NoIndex == -1   \* uint32_t(-1), which no loaded index equals

CellOf(i) == i % Capacity
GenOf(i) == i \div Capacity
Elem(g, s) == [gen |-> g, st |-> s]
ElementState == {"Empty", "Writing", "Full", "Reading"}

\* Faulty variant: the wrap is forgotten.
nextCombinedIndexUnwrapped(i) == i + 1

nextCombinedIndex(i) == IF i = NumCombined - 1 THEN 0 ELSE i + 1
nextGeneration(g) == IF g = NumGenerations - 1 THEN 0 ELSE g + 1

\* Faulty variant: the generation before 0 is not recognised.
PreviousGenerationUnwrapped(g, e) == g - e = 1

\* The cell holds the generation before g: difference is 1 or -m_maxGeneration.
PreviousGeneration(g, e) == g - e = 1 \/ g - e = -(NumGenerations - 1)

circularDifference(a, b, modulo) ==
  LET d == a - b IN
  IF d > modulo \div 2 THEN d - modulo
  ELSE IF d < -(modulo \div 2) THEN d + modulo
  ELSE d

PushPCs == {"pushLoad", "pushCell", "pushSkip", "pushTake", "pushFill"}
ClearPCs == {"clearLoad", "clearCell", "clearSkip", "clearTake", "clearFree"}
AbortPCs == {"abortMark", "abortTake", "abortFree"}
PopPCs == {"popLoad", "popCell", "popSkip", "popTake", "popFree"}
PCs == {"idle"} \cup PushPCs \cup ClearPCs \cup AbortPCs \cup PopPCs
Returns == {"Success", "QueueDisabled", "QueueEmpty", "QueueFull", "Threw"}

-----------------------------------------------------------------------------
(* The queue as StartIndex pushes and as many pops have left it. *)

QMInit ==
  /\ pushIndex = StartIndex
  /\ popIndex = StartIndex
  /\ disabled = FALSE
  /\ states = [c \in Cells |->
       Elem(IF c < CellOf(StartIndex) THEN nextGeneration(GenOf(StartIndex))
                                      ELSE GenOf(StartIndex), "Empty")]
  /\ data = [c \in Cells |-> NoItem]
  /\ calls = 0
  /\ pc = [t \in Threads |-> "idle"]
  /\ loaded = [t \in Threads |-> 0]
  /\ saved = [t \in Threads |-> NoIndex]
  /\ gen = [t \in Threads |-> 0]
  /\ idx = [t \in Threads |-> 0]
  /\ clr = [t \in Threads |-> 0]
  /\ item = [t \in Threads |-> NoItem]
  /\ ret = [t \in Threads |-> "Success"]

Goto(t, label) == pc' = [pc EXCEPT ![t] = label]

Return(t, result) ==
  /\ Goto(t, "idle")
  /\ ret' = [ret EXCEPT ![t] = result]

-----------------------------------------------------------------------------
(* Queue::tryPushBack over QueueManager::reservePushIndex, commitPushIndex *)

LoadPush(t) ==   \* load of m_pushIndex and the disabled test behind it
  /\ loaded' = [loaded EXCEPT ![t] = pushIndex]
  /\ IF disabled THEN Return(t, "QueueDisabled")
                 ELSE Goto(t, "pushCell") /\ UNCHANGED ret

BeginPush(t, v) ==   \* enter reservePushIndex
  /\ pc[t] = "idle"
  /\ item' = [item EXCEPT ![t] = v]
  /\ saved' = [saved EXCEPT ![t] = NoIndex]
  /\ LoadPush(t)
  /\ UNCHANGED <<indexVars, states, data, gen, idx, clr>>

StartPush(t) ==
  /\ calls < MaxCalls
  /\ calls' = calls + 1
  /\ BeginPush(t, calls + 1)

PushLoad(t) ==
  /\ pc[t] = "pushLoad"
  /\ LoadPush(t)
  /\ UNCHANGED <<indexVars, states, data, calls, saved, gen, idx, clr, item>>

\* Faulty variant: a cell still being read counts as free.
PushReserveTooEarly(t) ==
  LET g == GenOf(loaded[t])  c == CellOf(loaded[t]) IN
  /\ pc[t] = "pushCell"
  /\ states[c].st \in {"Empty", "Reading"}
  /\ states' = [states EXCEPT ![c] = Elem(g, "Writing")]
  /\ gen' = [gen EXCEPT ![t] = g]
  /\ idx' = [idx EXCEPT ![t] = c]
  /\ Goto(t, "pushTake")
  /\ UNCHANGED <<indexVars, data, calls, loaded, saved, clr, item, ret>>

PushReserve(t) ==   \* the cell was (currGen, Empty): it is ours
  LET g == GenOf(loaded[t])  c == CellOf(loaded[t]) IN
  /\ pc[t] = "pushCell"
  /\ states[c] = Elem(g, "Empty")
  /\ states' = [states EXCEPT ![c] = Elem(g, "Writing")]
  /\ gen' = [gen EXCEPT ![t] = g]
  /\ idx' = [idx EXCEPT ![t] = c]
  /\ Goto(t, "pushTake")
  /\ UNCHANGED <<indexVars, data, calls, loaded, saved, clr, item, ret>>

\* Faulty variant: a cell being read counts as full.
PushRefusedReading(t) ==
  LET g == GenOf(loaded[t])
      e == states[CellOf(loaded[t])]
  IN
  /\ pc[t] = "pushCell"
  /\ e # Elem(g, "Empty")
  /\ IF PreviousGeneration(g, e.gen) THEN Return(t, "QueueFull")
                                     ELSE Goto(t, "pushSkip") /\ UNCHANGED ret
  /\ UNCHANGED <<indexVars, states, data, calls, localVars>>

PushRefused(t) ==   \* the compare-and-swap on the cell failed
  LET g == GenOf(loaded[t])
      e == states[CellOf(loaded[t])]
      prev == PreviousGeneration(g, e.gen)
  IN
  /\ pc[t] = "pushCell"
  /\ e # Elem(g, "Empty")
  /\ \/ /\ prev /\ e.st = "Reading"
        /\ Goto(t, "pushLoad")
        /\ UNCHANGED <<saved, ret>>
     \/ /\ prev /\ e.st # "Reading" /\ saved[t] # loaded[t]
        /\ saved' = [saved EXCEPT ![t] = loaded[t]]
        /\ Goto(t, "pushLoad")
        /\ UNCHANGED ret
     \/ /\ prev /\ e.st # "Reading" /\ saved[t] = loaded[t]
        /\ Return(t, "QueueFull")
        /\ UNCHANGED saved
     \/ /\ ~prev
        /\ Goto(t, "pushSkip")
        /\ UNCHANGED <<saved, ret>>
  /\ UNCHANGED <<indexVars, states, data, calls, loaded, gen, idx, clr, item>>

\* compare_exchange_strong(m_pushIndex, loaded[t], next)
AdvancePush(t) ==
  pushIndex' = IF ~disabled /\ pushIndex = loaded[t]
                 THEN nextCombinedIndex(pushIndex) ELSE pushIndex

\* compare_exchange_strong(m_popIndex, loaded[t], next)
AdvancePop(t) ==
  popIndex' = IF popIndex = loaded[t]
                THEN nextCombinedIndex(popIndex) ELSE popIndex

PushSkip(t) ==   \* another thread has the cell: move the index and go again
  /\ pc[t] = "pushSkip"
  /\ AdvancePush(t)
  /\ LoadPush(t)
  /\ UNCHANGED <<disabled, popIndex, states, data, calls, saved, gen, idx, clr, item>>

PushTake(t) ==
  /\ pc[t] = "pushTake"
  /\ AdvancePush(t)
  /\ Goto(t, "pushFill")
  /\ UNCHANGED <<disabled, popIndex, states, data, calls, localVars, ret>>

PushFill(t) ==   \* construct in place and commitPushIndex
  /\ pc[t] = "pushFill"
  /\ data' = [data EXCEPT ![idx[t]] = item[t]]
  /\ states' = [states EXCEPT ![idx[t]] = Elem(gen[t], "Full")]
  /\ Return(t, "Success")
  /\ UNCHANGED <<indexVars, calls, localVars>>

-----------------------------------------------------------------------------
(* ~QueuePushGuard: the constructor threw, so every element before the     *)
(* reserved cell is discarded and the reservation is aborted.              *)

PushThrow(t) ==
  /\ pc[t] = "pushFill"
  /\ Goto(t, "clearLoad")
  /\ UNCHANGED <<indexVars, states, data, calls, localVars, ret>>

EndIndex(t) == gen[t] * Capacity + idx[t]

LoadPopForClear(t) ==
  /\ loaded' = [loaded EXCEPT ![t] = popIndex]
  /\ Goto(t, IF popIndex = EndIndex(t) THEN "abortMark" ELSE "clearCell")

ClearLoad(t) ==
  /\ pc[t] = "clearLoad"
  /\ LoadPopForClear(t)
  /\ UNCHANGED <<indexVars, states, data, calls, saved, gen, idx, clr, item, ret>>

ClearReserve(t) ==
  LET g == GenOf(loaded[t])  c == CellOf(loaded[t]) IN
  /\ pc[t] = "clearCell"
  /\ states[c] = Elem(g, "Full")
  /\ states' = [states EXCEPT ![c] = Elem(g, "Reading")]
  /\ clr' = [clr EXCEPT ![t] = loaded[t]]
  /\ Goto(t, "clearTake")
  /\ UNCHANGED <<indexVars, data, calls, loaded, saved, gen, idx, item, ret>>

ClearRefused(t) ==
  LET e == states[CellOf(loaded[t])] IN
  /\ pc[t] = "clearCell"
  /\ e # Elem(GenOf(loaded[t]), "Full")
  /\ Goto(t, IF e.st \in {"Writing", "Full"} THEN "clearLoad" ELSE "clearSkip")
  /\ UNCHANGED <<indexVars, states, data, calls, localVars, ret>>

ClearSkip(t) ==
  /\ pc[t] = "clearSkip"
  /\ AdvancePop(t)
  /\ LoadPopForClear(t)
  /\ UNCHANGED <<pushIndex, disabled, states, data, calls, saved, gen, idx, clr, item, ret>>

ClearTake(t) ==
  /\ pc[t] = "clearTake"
  /\ AdvancePop(t)
  /\ Goto(t, "clearFree")
  /\ UNCHANGED <<pushIndex, disabled, states, data, calls, localVars, ret>>

ClearFree(t) ==   \* destroy the element, commitPopIndex, next reservePopForClear
  /\ pc[t] = "clearFree"
  /\ data' = [data EXCEPT ![CellOf(clr[t])] = NoItem]
  /\ states' = [states EXCEPT ![CellOf(clr[t])] =
                  Elem(nextGeneration(GenOf(clr[t])), "Empty")]
  /\ Goto(t, "clearLoad")
  /\ UNCHANGED <<indexVars, calls, localVars, ret>>

\* The load and the store of the state are one step: popIndex stays at the thread's own
\* cell, which is Writing, until the thread itself moves it.
AbortMark(t) ==
  /\ pc[t] = "abortMark"
  /\ loaded' = [loaded EXCEPT ![t] = popIndex]
  /\ states' = [states EXCEPT ![idx[t]] = Elem(gen[t], "Reading")]
  /\ Goto(t, "abortTake")
  /\ UNCHANGED <<indexVars, data, calls, saved, gen, idx, clr, item, ret>>

AbortTake(t) ==
  /\ pc[t] = "abortTake"
  /\ AdvancePop(t)
  /\ Goto(t, "abortFree")
  /\ UNCHANGED <<pushIndex, disabled, states, data, calls, localVars, ret>>

\* Faulty variant: the aborted cell is not released.
AbortFreeForgotten(t) ==
  /\ pc[t] = "abortFree"
  /\ Return(t, "Threw")
  /\ UNCHANGED <<indexVars, states, data, calls, localVars>>

AbortFree(t) ==
  /\ pc[t] = "abortFree"
  /\ states' = [states EXCEPT ![idx[t]] = Elem(nextGeneration(gen[t]), "Empty")]
  /\ Return(t, "Threw")
  /\ UNCHANGED <<indexVars, data, calls, localVars>>

-----------------------------------------------------------------------------
(* Queue::tryPopFront over QueueManager::reservePopIndex, commitPopIndex *)

LoadPop(t) ==
  /\ loaded' = [loaded EXCEPT ![t] = popIndex]
  /\ Goto(t, "popCell")

BeginPop(t) ==   \* enter reservePopIndex
  /\ pc[t] = "idle"
  /\ item' = [item EXCEPT ![t] = NoItem]
  /\ saved' = [saved EXCEPT ![t] = NoIndex]
  /\ LoadPop(t)
  /\ UNCHANGED <<indexVars, states, data, gen, idx, clr, ret>>

StartPop(t) ==
  /\ calls < MaxCalls
  /\ calls' = calls + 1
  /\ BeginPop(t)

PopLoad(t) ==
  /\ pc[t] = "popLoad"
  /\ LoadPop(t)
  /\ UNCHANGED <<indexVars, states, data, calls, saved, gen, idx, clr, item, ret>>

PopReserve(t) ==   \* the cell was (currGen, Full): it is ours
  LET g == GenOf(loaded[t])  c == CellOf(loaded[t]) IN
  /\ pc[t] = "popCell"
  /\ states[c] = Elem(g, "Full")
  /\ states' = [states EXCEPT ![c] = Elem(g, "Reading")]
  /\ gen' = [gen EXCEPT ![t] = g]
  /\ idx' = [idx EXCEPT ![t] = c]
  /\ Goto(t, "popTake")
  /\ UNCHANGED <<indexVars, data, calls, loaded, saved, clr, item, ret>>

\* Faulty variant: a cell that is still being written is skipped, like one being read.
PopRefusedSkipping(t) ==
  LET g == GenOf(loaded[t])
      e == states[CellOf(loaded[t])]
      prev == PreviousGeneration(g, e.gen)
  IN
  /\ pc[t] = "popCell"
  /\ e # Elem(g, "Full")
  /\ \/ /\ prev
        /\ Return(t, "QueueEmpty")
        /\ UNCHANGED saved
     \/ /\ ~prev /\ e = Elem(g, "Empty") /\ saved[t] # loaded[t]
        /\ saved' = [saved EXCEPT ![t] = loaded[t]]
        /\ Goto(t, "popLoad")
        /\ UNCHANGED ret
     \/ /\ ~prev /\ e = Elem(g, "Empty") /\ saved[t] = loaded[t]
        /\ Return(t, "QueueEmpty")
        /\ UNCHANGED saved
     \/ /\ ~prev /\ e.gen # g
        /\ Goto(t, "popLoad")
        /\ UNCHANGED <<saved, ret>>
     \/ /\ e.gen = g /\ e.st \in {"Writing", "Reading"}
        /\ Goto(t, "popSkip")
        /\ UNCHANGED <<saved, ret>>
  /\ UNCHANGED <<indexVars, states, data, calls, loaded, gen, idx, clr, item>>

PopRefused(t) ==   \* the compare-and-swap on the cell failed
  LET g == GenOf(loaded[t])
      e == states[CellOf(loaded[t])]
      prev == PreviousGeneration(g, e.gen)
  IN
  /\ pc[t] = "popCell"
  /\ e # Elem(g, "Full")
  /\ \/ /\ prev
        /\ Return(t, "QueueEmpty")
        /\ UNCHANGED saved
     \/ /\ ~prev /\ e = Elem(g, "Empty") /\ saved[t] # loaded[t]
        /\ saved' = [saved EXCEPT ![t] = loaded[t]]
        /\ Goto(t, "popLoad")
        /\ UNCHANGED ret
     \/ /\ ~prev /\ e = Elem(g, "Empty") /\ saved[t] = loaded[t]
        /\ Return(t, "QueueEmpty")
        /\ UNCHANGED saved
     \/ /\ ~prev /\ (e.gen # g \/ e.st = "Writing")
        /\ Goto(t, "popLoad")
        /\ UNCHANGED <<saved, ret>>
     \/ /\ e = Elem(g, "Reading")
        /\ Goto(t, "popSkip")
        /\ UNCHANGED <<saved, ret>>
  /\ UNCHANGED <<indexVars, states, data, calls, loaded, gen, idx, clr, item>>

PopSkip(t) ==   \* another popper has the cell: move the index and go again
  /\ pc[t] = "popSkip"
  /\ AdvancePop(t)
  /\ LoadPop(t)
  /\ UNCHANGED <<pushIndex, disabled, states, data, calls, saved, gen, idx, clr, item, ret>>

PopTake(t) ==
  /\ pc[t] = "popTake"
  /\ AdvancePop(t)
  /\ Goto(t, "popFree")
  /\ UNCHANGED <<pushIndex, disabled, states, data, calls, localVars, ret>>

PopFree(t) ==   \* move the object out, destroy it and commitPopIndex
  /\ pc[t] = "popFree"
  /\ item' = [item EXCEPT ![t] = data[idx[t]]]
  /\ data' = [data EXCEPT ![idx[t]] = NoItem]
  /\ states' = [states EXCEPT ![idx[t]] = Elem(nextGeneration(gen[t]), "Empty")]
  /\ Return(t, "Success")
  /\ UNCHANGED <<indexVars, calls, loaded, saved, gen, idx, clr>>

\* What size() makes of the two indices, which it reads one after the other.
SizeOf(push, pop) ==
  LET difference == push - pop IN
  IF difference > Capacity THEN 0
  ELSE IF difference >= 0 THEN difference
  ELSE IF difference < -((NumCombined - 1) \div 2)
    THEN IF difference + NumCombined < Capacity THEN difference + NumCombined ELSE Capacity
  ELSE 0

-----------------------------------------------------------------------------
(* Their compare-and-swap loops retry until the flag is as wanted. *)

disable ==
  /\ ~disabled
  /\ disabled' = TRUE
  /\ UNCHANGED <<pushIndex, popIndex, states, data, calls, pc, localVars, ret>>

enable ==
  /\ disabled
  /\ disabled' = FALSE
  /\ UNCHANGED <<pushIndex, popIndex, states, data, calls, pc, localVars, ret>>

PushStep(t) ==
  \/ PushLoad(t) \/ PushReserve(t) \/ PushRefused(t)
  \/ PushSkip(t) \/ PushTake(t) \/ PushFill(t)

ClearStep(t) ==
  \/ PushThrow(t)
  \/ ClearLoad(t) \/ ClearReserve(t) \/ ClearRefused(t)
  \/ ClearSkip(t) \/ ClearTake(t) \/ ClearFree(t)
  \/ AbortMark(t) \/ AbortTake(t) \/ AbortFree(t)

PopStep(t) ==
  \/ PopLoad(t) \/ PopReserve(t) \/ PopRefused(t)
  \/ PopSkip(t) \/ PopTake(t) \/ PopFree(t)

QMNext ==
  \/ \E t \in Threads : \/ StartPush(t) \/ StartPop(t)
                        \/ PushStep(t) \/ ClearStep(t) \/ PopStep(t)
  \/ disable
  \/ enable

QMSpec == QMInit /\ [][QMNext]_qmVars

-----------------------------------------------------------------------------
(* Properties *)

\* Indices stay in the combined range, generations in theirs, and every
\* thread is at one of the protocol's steps.
TypeOK ==
  /\ pushIndex \in Combined /\ popIndex \in Combined
  /\ disabled \in BOOLEAN
  /\ states \in [Cells -> [gen : Generations, st : ElementState]]
  /\ data \in [Cells -> Nat \cup {NoItem}]
  /\ calls \in Nat
  /\ pc \in [Threads -> PCs]
  /\ loaded \in [Threads -> Combined]
  /\ saved \in [Threads -> Combined \cup {NoIndex}]
  /\ gen \in [Threads -> Generations]
  /\ idx \in [Threads -> Cells]
  /\ clr \in [Threads -> Combined]
  /\ item \in [Threads -> Nat \cup {NoItem}]
  /\ ret \in [Threads -> Returns]

Writer(t) == pc[t] \in {"pushTake", "pushFill", "abortMark"} \cup ClearPCs
Reader(t) == pc[t] \in {"popTake", "popFree", "abortTake", "abortFree"}
Clearer(t) == pc[t] \in {"clearTake", "clearFree"}

\* The cells a thread may construct in, move from or destroy without a lock.
Owned(t) == (IF Writer(t) \/ Reader(t) THEN {idx[t]} ELSE {})
              \cup (IF Clearer(t) THEN {CellOf(clr[t])} ELSE {})

\* A reserved cell belongs to one thread until that thread commits it: no two
\* threads touch the same m_data element (tryPushBack constructs in it,
\* ~QueuePopGuard destroys it, both without a lock), and the cell still has
\* the generation and state the asserts of commitPushIndex, commitPopIndex
\* and abortPushIndexReservation expect.
CellOwnership ==
  /\ \A t \in Threads :
       /\ Writer(t) => states[idx[t]] = Elem(gen[t], "Writing")
       /\ Reader(t) => states[idx[t]] = Elem(gen[t], "Reading")
       /\ Clearer(t) => states[CellOf(clr[t])] = Elem(GenOf(clr[t]), "Reading")
  /\ \A t, u \in Threads : t # u => Owned(t) \cap Owned(u) = {}

\* The converse: a cell is never left Writing or Reading by a thread that has
\* gone away, which would make every later call spin on it for ever.
NoOrphanCell ==
  \A c \in Cells : states[c].st \in {"Writing", "Reading"} =>
    \E t \in Threads : c \in Owned(t)

\* A cell that is being written or read has one owner (reservePushIndex to
\* commitPushIndex or abortPushIndexReservation, reservePopIndex to commitPopIndex).
Ownership == CellOwnership /\ NoOrphanCell

-----------------------------------------------------------------------------
(* Refinement of the bounded FIFO.  The cell at m_pushIndex may already be *)
(* reserved, and the one at m_popIndex already taken, by a thread that has *)
(* not moved the index yet (or, when the queue was disabled in between,    *)
(* never will): the back and the front are one further then.               *)

Back ==
  LET e == states[CellOf(pushIndex)]  g == GenOf(pushIndex) IN
  IF (e.gen = g /\ e.st # "Empty") \/ e.gen = nextGeneration(g)
    THEN nextCombinedIndex(pushIndex) ELSE pushIndex

Front ==
  LET e == states[CellOf(popIndex)]  g == GenOf(popIndex) IN
  IF e = Elem(g, "Reading") \/ e.gen = nextGeneration(g)
    THEN nextCombinedIndex(popIndex) ELSE popIndex

Length == (Back - Front) % NumCombined

Writers(c) == {t \in Threads : Writer(t) /\ idx[t] = c}

PlaceOf(c) ==
  IF states[c].st = "Full" THEN [item |-> data[c], filled |-> TRUE]
  ELSE [item |-> IF Writers(c) = {} THEN NoItem ELSE item[CHOOSE t \in Writers(c) : TRUE],
        filled |-> FALSE]

Contents == [k \in 1 .. Length |-> PlaceOf(CellOf((Front + k - 1) % NumCombined))]

Brings == [t \in Threads |-> IF Writer(t) THEN item[t] ELSE NoItem]

Throwing == {t \in Threads : pc[t] \in {"abortMark"} \cup ClearPCs}

Got == [t \in Threads |->
         IF pc[t] \in {"popTake", "popFree"} THEN data[idx[t]] ELSE NoItem]

Fifo == INSTANCE BoundedFifo WITH
          q <- Contents, brings <- Brings, throwing <- Throwing, got <- Got,
          Items <- 1 .. MaxCalls

\* Objects leave the queue in the order their places were reserved, each
\* taken by one pop, as the object its push brought.  None is lost or
\* overwritten, whatever the threads interleave, except by a push that throws:
\* ~QueuePushGuard then drops the objects in front of its own place and no
\* other.  reservePushIndex, reservePopIndex, the commits, reservePopForClear
\* and abortPushIndexReservation implement the bounded FIFO.
ImplementsFifo == Fifo!Spec

\* tryPushBack reports QueueFull and tryPopFront reports "empty" only at a
\* moment when the queue really is full or empty, although both decide from
\* an index read earlier (the cases of reservePushIndex line 226 and of
\* reservePopIndex lines 323 and 332).
ReturnsAreTrue ==
  [][\A t \in Threads : pc[t] # "idle" /\ pc'[t] = "idle" =>
       /\ ret'[t] = "QueueFull" => Length = Capacity
       /\ ret'[t] = "QueueEmpty" => Length = 0]_qmVars

\* The asserts of reservePushIndex, reservePopIndex, reservePopForClear and
\* abortPushIndexReservation that compare a generation or an index read
\* earlier with the cell or index found now.
AssertsHold ==
  \A t \in Threads :
    LET g == GenOf(loaded[t])
        e == states[CellOf(loaded[t])]
        diff == circularDifference(g, e.gen, NumGenerations)
        left == circularDifference(EndIndex(t), loaded[t], NumCombined)
    IN
    /\ pc[t] = "pushCell" /\ e # Elem(g, "Empty") =>
         IF PreviousGeneration(g, e.gen) THEN diff = 1 /\ e.st # "Empty"
                                         ELSE diff <= 0
    /\ pc[t] = "popCell" /\ e # Elem(g, "Full") /\ PreviousGeneration(g, e.gen) =>
         diff = 1 /\ e.st = "Reading"
    /\ pc[t] = "clearCell" => left > 0
    /\ pc[t] = "abortMark" => popIndex = EndIndex(t)
=============================================================================
