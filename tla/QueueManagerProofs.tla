------------------------- MODULE QueueManagerProofs -------------------------
(***************************************************************************)
(* The cell protocol of QueueManager for every number of threads, every    *)
(* capacity and every number of generations: types, and exclusive          *)
(* ownership of reserved cells.                                            *)
(***************************************************************************)
EXTENDS QueueManager, TLAPS

(* A leaf that names no prover goes to the SMT solver and then to Zenon, those   *)
(* better left to first-order reasoning alone name Zenon.                       *)
USE SMTT(30), ZenonT(30)

\* A combined index decodes to a cell and a generation (the divisions by
\* m_capacity in reservePushIndex and reservePopIndex).
LEMMA DecodeIndex ==
  ASSUME NEW i \in Combined
  PROVE  CellOf(i) \in Cells /\ GenOf(i) \in Generations
<1> DEFINE g == i \div Capacity
           c == i % Capacity
<1>1. Capacity \in Nat /\ Capacity > 0 /\ NumGenerations \in Nat
  BY QueueConstants
<1>2. i \in Nat /\ i < Capacity * NumGenerations
  BY <1>1 DEF Combined, NumCombined
<1>3. g \in Nat /\ c \in 0 .. (Capacity - 1) /\ i = Capacity * g + c
  BY <1>1, <1>2
<1> HIDE DEF g, c
<1>4. g < NumGenerations
  <2> SUFFICES ASSUME g >= NumGenerations PROVE FALSE
    BY <1>1, <1>3
  <2>1. PICK k \in Nat : g = NumGenerations + k
    BY <1>1, <1>3
  <2>2. Capacity * g = Capacity * NumGenerations + Capacity * k
    BY <2>1, <1>1
  <2>3. Capacity * k \in Nat
    BY <2>1, <1>1
  <2>4. Capacity * NumGenerations \in Nat
    BY <1>1
  <2> QED BY <2>2, <2>3, <2>4, <1>1, <1>2, <1>3
<1> QED BY <1>1, <1>3, <1>4 DEF CellOf, GenOf, Cells, Generations, g, c

\* The successors of an index and of a generation stay in range (they wrap).
LEMMA Successors ==
  /\ \A i \in Combined : nextCombinedIndex(i) \in Combined
  /\ \A g \in Generations : nextGeneration(g) \in Generations
<1>1. Capacity \in Nat /\ Capacity > 0 /\ NumGenerations \in Nat /\ NumGenerations > 1
  BY QueueConstants
<1>2. NumCombined \in Nat
  BY <1>1 DEF NumCombined
<1>3. ASSUME NEW i \in Combined PROVE nextCombinedIndex(i) \in Combined
  BY <1>2 DEF Combined, nextCombinedIndex
<1>4. ASSUME NEW g \in Generations PROVE nextGeneration(g) \in Generations
  BY <1>1 DEF Generations, nextGeneration
<1> QED BY <1>3, <1>4

\* The initial state of the queue is well typed.
LEMMA InitTypeOK == QMInit => TypeOK
<1> SUFFICES ASSUME QMInit PROVE TypeOK
  OBVIOUS
<1>1. Capacity * NumGenerations \in Nat /\ StartIndex \in Combined
  BY QueueConstants DEF Combined, NumCombined
<1>2. /\ 0 \in Combined /\ 0 \in Generations /\ 0 \in Cells
      /\ GenOf(StartIndex) \in Generations
      /\ nextGeneration(GenOf(StartIndex)) \in Generations
  BY <1>1, DecodeIndex, Successors, QueueConstants
     DEF Combined, NumCombined, Generations, Cells
<1>3. states \in [Cells -> [gen : Generations, st : ElementState]]
  BY <1>2 DEF QMInit, Elem, ElementState
<1> QED
  BY <1>1, <1>2, <1>3, ZenonT(40) DEF QMInit, TypeOK, PCs, Returns

\* Every step of every thread keeps the types.
LEMMA StepTypeOK == TypeOK /\ [QMNext]_qmVars => TypeOK'
<1> SUFFICES ASSUME TypeOK, [QMNext]_qmVars PROVE TypeOK'
  OBVIOUS
<1>1. ASSUME NEW t \in Threads, StartPush(t) PROVE TypeOK'
  <2>1. /\ loaded' \in [Threads -> Combined] /\ pc' \in [Threads -> PCs]
        /\ ret' \in [Threads -> Returns]
    BY <1>1, ZenonT(40) DEF TypeOK, StartPush, BeginPush, LoadPush, Return, Goto, PCs, PushPCs, Returns
  <2>2. calls' \in Nat /\ item' \in [Threads -> Nat \cup {NoItem}]
    BY <1>1 DEF TypeOK, StartPush, BeginPush
  <2>3. saved' \in [Threads -> Combined \cup {NoIndex}]
    BY <1>1 DEF TypeOK, StartPush, BeginPush
  <2> QED BY <1>1, <2>1, <2>2, <2>3 DEF TypeOK, StartPush, BeginPush, indexVars
<1>2. ASSUME NEW t \in Threads, StartPop(t) PROVE TypeOK'
  BY <1>2 DEF TypeOK, StartPop, BeginPop, LoadPop, Goto, indexVars, PCs, PopPCs
<1>3. ASSUME NEW t \in Threads, PushLoad(t) PROVE TypeOK'
  <2>1. /\ loaded' \in [Threads -> Combined] /\ pc' \in [Threads -> PCs]
        /\ ret' \in [Threads -> Returns]
    BY <1>3, ZenonT(40) DEF TypeOK, PushLoad, LoadPush, Return, Goto, PCs, PushPCs, Returns
  <2> QED BY <1>3, <2>1 DEF TypeOK, PushLoad, indexVars
<1>4. ASSUME NEW t \in Threads, PushReserve(t) PROVE TypeOK'
  BY <1>4, DecodeIndex DEF TypeOK, PushReserve, Goto, indexVars, PCs, PushPCs, Elem, ElementState
<1>5. ASSUME NEW t \in Threads, PushRefused(t) PROVE TypeOK'
  BY <1>5, ZenonT(40) DEF TypeOK, PushRefused, Return, Goto, indexVars, PCs, PushPCs, Returns
<1>6. ASSUME NEW t \in Threads, PushSkip(t) PROVE TypeOK'
  BY <1>6, Successors, ZenonT(40) DEF TypeOK, PushSkip, AdvancePush, LoadPush, Return, Goto, PCs, PushPCs, Returns
<1>7. ASSUME NEW t \in Threads, PushTake(t) PROVE TypeOK'
  BY <1>7, Successors DEF TypeOK, PushTake, AdvancePush, Goto, PCs, PushPCs, localVars
<1>8. ASSUME NEW t \in Threads, PushFill(t) PROVE TypeOK'
  BY <1>8 DEF TypeOK, PushFill, Return, Goto, PCs, Returns, Elem, ElementState, indexVars, localVars
<1>9. ASSUME NEW t \in Threads, PushThrow(t) PROVE TypeOK'
  BY <1>9 DEF TypeOK, PushThrow, Goto, PCs, ClearPCs, indexVars, localVars
<1>10. ASSUME NEW t \in Threads, ClearLoad(t) PROVE TypeOK'
  BY <1>10 DEF TypeOK, ClearLoad, LoadPopForClear, Goto, PCs, ClearPCs, AbortPCs, indexVars
<1>11. ASSUME NEW t \in Threads, ClearReserve(t) PROVE TypeOK'
  BY <1>11, DecodeIndex DEF TypeOK, ClearReserve, Goto, PCs, ClearPCs, Elem, ElementState, indexVars
<1>12. ASSUME NEW t \in Threads, ClearRefused(t) PROVE TypeOK'
  BY <1>12 DEF TypeOK, ClearRefused, Goto, PCs, ClearPCs, indexVars, localVars
<1>13. ASSUME NEW t \in Threads, ClearSkip(t) PROVE TypeOK'
  BY <1>13, Successors DEF TypeOK, ClearSkip, AdvancePop, LoadPopForClear, Goto, PCs, ClearPCs, AbortPCs
<1>14. ASSUME NEW t \in Threads, ClearTake(t) PROVE TypeOK'
  BY <1>14, Successors DEF TypeOK, ClearTake, AdvancePop, Goto, PCs, ClearPCs, localVars
<1>15. ASSUME NEW t \in Threads, ClearFree(t) PROVE TypeOK'
  BY <1>15, DecodeIndex, Successors DEF TypeOK, ClearFree, Goto, PCs, ClearPCs, Elem, ElementState, indexVars, localVars
<1>16. ASSUME NEW t \in Threads, AbortMark(t) PROVE TypeOK'
  BY <1>16 DEF TypeOK, AbortMark, Goto, PCs, AbortPCs, Elem, ElementState, indexVars
<1>17. ASSUME NEW t \in Threads, AbortTake(t) PROVE TypeOK'
  BY <1>17, Successors DEF TypeOK, AbortTake, AdvancePop, Goto, PCs, AbortPCs, localVars
<1>18. ASSUME NEW t \in Threads, AbortFree(t) PROVE TypeOK'
  BY <1>18, Successors DEF TypeOK, AbortFree, Return, Goto, PCs, Returns, Elem, ElementState, indexVars, localVars
<1>19. ASSUME NEW t \in Threads, PopLoad(t) PROVE TypeOK'
  BY <1>19 DEF TypeOK, PopLoad, LoadPop, Goto, PCs, PopPCs, indexVars
<1>20. ASSUME NEW t \in Threads, PopReserve(t) PROVE TypeOK'
  BY <1>20, DecodeIndex DEF TypeOK, PopReserve, Goto, PCs, PopPCs, Elem, ElementState, indexVars
<1>21. ASSUME NEW t \in Threads, PopRefused(t) PROVE TypeOK'
  BY <1>21, ZenonT(40) DEF TypeOK, PopRefused, Return, Goto, PCs, PopPCs, Returns, indexVars
<1>22. ASSUME NEW t \in Threads, PopSkip(t) PROVE TypeOK'
  BY <1>22, Successors DEF TypeOK, PopSkip, AdvancePop, LoadPop, Goto, PCs, PopPCs
<1>23. ASSUME NEW t \in Threads, PopTake(t) PROVE TypeOK'
  BY <1>23, Successors DEF TypeOK, PopTake, AdvancePop, Goto, PCs, PopPCs, localVars
<1>24. ASSUME NEW t \in Threads, PopFree(t) PROVE TypeOK'
  BY <1>24, Successors DEF TypeOK, PopFree, Return, Goto, PCs, Returns, Elem, ElementState, indexVars
<1>25. ASSUME disable \/ enable PROVE TypeOK'
  BY <1>25, ZenonT(40) DEF TypeOK, disable, enable, localVars
<1>26. CASE UNCHANGED qmVars
  BY <1>26 DEF TypeOK, qmVars
<1> QED
  BY <1>1, <1>2, <1>3, <1>4, <1>5, <1>6, <1>7, <1>8, <1>9, <1>10, <1>11, <1>12, <1>13, <1>14, <1>15, <1>16, <1>17, <1>18, <1>19, <1>20, <1>21, <1>22, <1>23, <1>24, <1>25, <1>26
  DEF QMNext, PushStep, ClearStep, PopStep

-----------------------------------------------------------------------------
\* No thread owns anything before the first call.
LEMMA InitOwnership == QMInit => Ownership
  BY DEF QMInit, Ownership, CellOwnership, NoOrphanCell, Writer, Reader, Clearer,
         Owned, ClearPCs, Elem

\* A step that moves one thread from one place to another of the same role,
\* and writes no cell, keeps ownership.
LEMMA SameRole ==
  ASSUME TypeOK, Ownership, NEW t \in Threads,
         \A u \in Threads : u # t => pc'[u] = pc[u],
         Writer(t)' <=> Writer(t), Reader(t)' <=> Reader(t), Clearer(t)' <=> Clearer(t),
         UNCHANGED <<states, gen, idx, clr>>
  PROVE  Ownership'
<1>1. \A u \in Threads : /\ (Writer(u)' <=> Writer(u))
                          /\ (Reader(u)' <=> Reader(u))
                          /\ (Clearer(u)' <=> Clearer(u))
  BY DEF TypeOK, Writer, Reader, Clearer
<1>2. \A u \in Threads : Owned(u)' = Owned(u)
  BY <1>1 DEF Owned
<1> QED
  BY <1>1, <1>2 DEF Ownership, CellOwnership, NoOrphanCell

\* A reserved cell is Writing or Reading, so a cell that is Empty or Full
\* belongs to nobody.
LEMMA FreeCell ==
  ASSUME TypeOK, Ownership, NEW c \in Cells, states[c].st \notin {"Writing", "Reading"},
         NEW u \in Threads
  PROVE  c \notin Owned(u)
<1>1. \A g, x : Elem(g, x).st = x
  BY DEF Elem
<1>2. Writer(u) \/ Reader(u) => c # idx[u]
  BY <1>1 DEF Ownership, CellOwnership
<1>3. Clearer(u) => c # CellOf(clr[u])
  BY <1>1 DEF Ownership, CellOwnership
<1> QED BY <1>2, <1>3 DEF Owned

\* A step in which thread t writes cell c, which no other thread owns, keeps
\* ownership if t's own cells are as they should be afterwards.
LEMMA OneCell ==
  ASSUME TypeOK, Ownership, NEW t \in Threads, NEW c \in Cells, NEW e,
         states' = [states EXCEPT ![c] = e],
         \A u \in Threads : u # t =>
           /\ c \notin Owned(u)
           /\ pc'[u] = pc[u] /\ gen'[u] = gen[u] /\ idx'[u] = idx[u] /\ clr'[u] = clr[u],
         Writer(t)' => states'[idx'[t]] = Elem(gen'[t], "Writing"),
         Reader(t)' => states'[idx'[t]] = Elem(gen'[t], "Reading"),
         Clearer(t)' => states'[CellOf(clr'[t])] = Elem(GenOf(clr'[t]), "Reading"),
         Owned(t)' \subseteq Owned(t) \cup {c},
         Owned(t) \ {c} \subseteq Owned(t)',
         e.st \in {"Writing", "Reading"} => c \in Owned(t)'
  PROVE  Ownership'
<1>1. \A u \in Threads : u # t =>
        /\ (Writer(u)' <=> Writer(u)) /\ (Reader(u)' <=> Reader(u))
        /\ (Clearer(u)' <=> Clearer(u))
        /\ Owned(u)' = Owned(u)
  BY DEF Writer, Reader, Clearer, Owned, CellOf
<1>2. \A u \in Threads :
        /\ Writer(u)' => states'[idx'[u]] = Elem(gen'[u], "Writing")
        /\ Reader(u)' => states'[idx'[u]] = Elem(gen'[u], "Reading")
        /\ Clearer(u)' => states'[CellOf(clr'[u])] = Elem(GenOf(clr'[u]), "Reading")
  <2> SUFFICES ASSUME NEW u \in Threads, u # t
               PROVE  /\ Writer(u)' => states'[idx'[u]] = Elem(gen'[u], "Writing")
                      /\ Reader(u)' => states'[idx'[u]] = Elem(gen'[u], "Reading")
                      /\ Clearer(u)' => states'[CellOf(clr'[u])] = Elem(GenOf(clr'[u]), "Reading")
    OBVIOUS
  <2>1. /\ Writer(u) \/ Reader(u) => idx[u] # c
        /\ Clearer(u) => CellOf(clr[u]) # c
    BY DEF Owned
  <2>2. idx[u] \in Cells /\ CellOf(clr[u]) \in Cells
    BY DecodeIndex DEF TypeOK
  <2>3. /\ idx'[u] = idx[u] /\ gen'[u] = gen[u] /\ clr'[u] = clr[u]
        /\ \A d \in Cells : d # c => states'[d] = states[d]
    BY DEF TypeOK
  <2>4. /\ Writer(u) => states[idx[u]] = Elem(gen[u], "Writing")
        /\ Reader(u) => states[idx[u]] = Elem(gen[u], "Reading")
        /\ Clearer(u) => states[CellOf(clr[u])] = Elem(GenOf(clr[u]), "Reading")
    BY DEF Ownership, CellOwnership
  <2> QED BY <1>1, <2>1, <2>2, <2>3, <2>4
<1>3. \A u, v \in Threads : u # v => Owned(u)' \cap Owned(v)' = {}
  <2>1. \A u, v \in Threads : u # v => Owned(u) \cap Owned(v) = {}
    BY DEF Ownership, CellOwnership
  <2> QED BY <1>1, <2>1
<1>4. NoOrphanCell'
  <2> SUFFICES ASSUME NEW d \in Cells, states'[d].st \in {"Writing", "Reading"}
               PROVE  \E u \in Threads : d \in Owned(u)'
    BY DEF NoOrphanCell
  <2>1. CASE d = c
    BY <2>1 DEF TypeOK
  <2>2. CASE d # c
    <3>1. PICK u \in Threads : d \in Owned(u)
      BY <2>2 DEF TypeOK, Ownership, NoOrphanCell
    <3> QED BY <2>2, <3>1, <1>1
  <2> QED BY <2>1, <2>2
<1> QED
  BY <1>2, <1>3, <1>4 DEF Ownership, CellOwnership

\* Every step keeps ownership: the three reservations take a cell that is
\* free, the three releases and the abort write a cell that is the thread's.
LEMMA StepOwnership == TypeOK /\ Ownership /\ [QMNext]_qmVars => Ownership'
<1> SUFFICES ASSUME TypeOK, Ownership, [QMNext]_qmVars PROVE Ownership'
  OBVIOUS
<1> USE DEF Goto
<1> DEFINE Quiet(t) ==
      /\ \A u \in Threads : u # t => pc'[u] = pc[u]
      /\ (Writer(t)' <=> Writer(t)) /\ (Reader(t)' <=> Reader(t))
      /\ (Clearer(t)' <=> Clearer(t))
      /\ UNCHANGED <<states, gen, idx, clr>>
<1>q. ASSUME NEW t \in Threads, Quiet(t) PROVE Ownership'
  BY <1>q, SameRole
<1> HIDE DEF Quiet
<1>1. ASSUME NEW t \in Threads, StartPush(t) PROVE Ownership'
  <2>1. Quiet(t)
    BY <1>1 DEF Quiet, StartPush, BeginPush, LoadPush, Return, TypeOK, Writer, Reader, Clearer, ClearPCs
  <2> QED BY <2>1, <1>q
<1>2. ASSUME NEW t \in Threads, StartPop(t) PROVE Ownership'
  <2>1. Quiet(t)
    BY <1>2 DEF Quiet, StartPop, BeginPop, LoadPop, TypeOK, Writer, Reader, Clearer, ClearPCs
  <2> QED BY <2>1, <1>q
<1>3. ASSUME NEW t \in Threads, PushLoad(t) PROVE Ownership'
  <2>1. Quiet(t)
    BY <1>3 DEF Quiet, PushLoad, LoadPush, Return, TypeOK, Writer, Reader, Clearer, ClearPCs
  <2> QED BY <2>1, <1>q
<1>4. ASSUME NEW t \in Threads, PushRefused(t) PROVE Ownership'
  <2>1. Quiet(t)
    BY <1>4 DEF Quiet, PushRefused, Return, localVars, TypeOK, Writer, Reader, Clearer, ClearPCs
  <2> QED BY <2>1, <1>q
<1>5. ASSUME NEW t \in Threads, PushSkip(t) PROVE Ownership'
  <2>1. Quiet(t)
    BY <1>5 DEF Quiet, PushSkip, LoadPush, Return, TypeOK, Writer, Reader, Clearer, ClearPCs
  <2> QED BY <2>1, <1>q
<1>6. ASSUME NEW t \in Threads, PushTake(t) PROVE Ownership'
  <2>1. Quiet(t)
    BY <1>6 DEF Quiet, PushTake, localVars, TypeOK, Writer, Reader, Clearer, ClearPCs
  <2> QED BY <2>1, <1>q
<1>7. ASSUME NEW t \in Threads, PushThrow(t) PROVE Ownership'
  <2>1. Quiet(t)
    BY <1>7 DEF Quiet, PushThrow, localVars, TypeOK, Writer, Reader, Clearer, ClearPCs
  <2> QED BY <2>1, <1>q
<1>8. ASSUME NEW t \in Threads, ClearLoad(t) PROVE Ownership'
  <2>1. Quiet(t)
    BY <1>8 DEF Quiet, ClearLoad, LoadPopForClear, TypeOK, Writer, Reader, Clearer, ClearPCs
  <2> QED BY <2>1, <1>q
<1>9. ASSUME NEW t \in Threads, ClearRefused(t) PROVE Ownership'
  <2>1. Quiet(t)
    BY <1>9 DEF Quiet, ClearRefused, localVars, TypeOK, Writer, Reader, Clearer, ClearPCs
  <2> QED BY <2>1, <1>q
<1>10. ASSUME NEW t \in Threads, ClearSkip(t) PROVE Ownership'
  <2>1. Quiet(t)
    BY <1>10 DEF Quiet, ClearSkip, LoadPopForClear, TypeOK, Writer, Reader, Clearer, ClearPCs
  <2> QED BY <2>1, <1>q
<1>11. ASSUME NEW t \in Threads, ClearTake(t) PROVE Ownership'
  <2>1. Quiet(t)
    BY <1>11 DEF Quiet, ClearTake, localVars, TypeOK, Writer, Reader, Clearer, ClearPCs
  <2> QED BY <2>1, <1>q
<1>12. ASSUME NEW t \in Threads, AbortTake(t) PROVE Ownership'
  <2>1. Quiet(t)
    BY <1>12 DEF Quiet, AbortTake, localVars, TypeOK, Writer, Reader, Clearer, ClearPCs
  <2> QED BY <2>1, <1>q
<1>13. ASSUME NEW t \in Threads, PopLoad(t) PROVE Ownership'
  <2>1. Quiet(t)
    BY <1>13 DEF Quiet, PopLoad, LoadPop, TypeOK, Writer, Reader, Clearer, ClearPCs
  <2> QED BY <2>1, <1>q
<1>14. ASSUME NEW t \in Threads, PopRefused(t) PROVE Ownership'
  <2>1. Quiet(t)
    BY <1>14 DEF Quiet, PopRefused, Return, TypeOK, Writer, Reader, Clearer, ClearPCs
  <2> QED BY <2>1, <1>q
<1>15. ASSUME NEW t \in Threads, PopSkip(t) PROVE Ownership'
  <2>1. Quiet(t)
    BY <1>15 DEF Quiet, PopSkip, LoadPop, TypeOK, Writer, Reader, Clearer, ClearPCs
  <2> QED BY <2>1, <1>q
<1>16. ASSUME NEW t \in Threads, PopTake(t) PROVE Ownership'
  <2>1. Quiet(t)
    BY <1>16 DEF Quiet, PopTake, localVars, TypeOK, Writer, Reader, Clearer, ClearPCs
  <2> QED BY <2>1, <1>q
<1>17. ASSUME NEW t \in Threads, PushReserve(t) PROVE Ownership'
  <2> DEFINE c == CellOf(loaded[t])
             e == Elem(GenOf(loaded[t]), "Writing")
  <2>1. c \in Cells
    BY DecodeIndex DEF TypeOK
  <2>2. states[c].st \notin {"Writing", "Reading"} /\ e.st = "Writing"
    <3>1. \A g, x : Elem(g, x).st = x
      BY DEF Elem
    <3> QED BY <1>17, <3>1 DEF PushReserve
  <2>3. \A u \in Threads : c \notin Owned(u)
    BY <2>1, <2>2, FreeCell
  <2>4. /\ states' = [states EXCEPT ![c] = e]
        /\ idx' = [idx EXCEPT ![t] = c] /\ gen' = [gen EXCEPT ![t] = GenOf(loaded[t])]
        /\ UNCHANGED clr
        /\ \A u \in Threads : u # t => pc'[u] = pc[u]
        /\ ~Writer(t) /\ ~Reader(t) /\ ~Clearer(t)
        /\ Writer(t)' /\ ~Reader(t)' /\ ~Clearer(t)'
    BY <1>17 DEF PushReserve, TypeOK, Writer, Reader, Clearer, ClearPCs
  <2>5. Owned(t) = {} /\ Owned(t)' = {c}
    BY <2>4 DEF Owned, TypeOK
  <2> HIDE DEF c, e
  <2>6. states'[idx'[t]] = e /\ gen'[t] = GenOf(loaded[t])
    BY <2>1, <2>4 DEF TypeOK
  <2>7. e = Elem(gen'[t], "Writing")
    BY <2>6 DEF e
  <2>8. \A u \in Threads : u # t => gen'[u] = gen[u] /\ idx'[u] = idx[u] /\ clr'[u] = clr[u]
    BY <2>4 DEF TypeOK
  <2> QED
    BY <2>1, <2>2, <2>3, <2>4, <2>5, <2>6, <2>7, <2>8, OneCell, ZenonT(40)
<1>18. ASSUME NEW t \in Threads, PopReserve(t) PROVE Ownership'
  <2> DEFINE c == CellOf(loaded[t])
             e == Elem(GenOf(loaded[t]), "Reading")
  <2>1. c \in Cells
    BY DecodeIndex DEF TypeOK
  <2>2. states[c].st \notin {"Writing", "Reading"} /\ e.st = "Reading"
    <3>1. \A g, x : Elem(g, x).st = x
      BY DEF Elem
    <3> QED BY <1>18, <3>1 DEF PopReserve
  <2>3. \A u \in Threads : c \notin Owned(u)
    BY <2>1, <2>2, FreeCell
  <2>4. /\ states' = [states EXCEPT ![c] = e]
        /\ idx' = [idx EXCEPT ![t] = c] /\ gen' = [gen EXCEPT ![t] = GenOf(loaded[t])]
        /\ UNCHANGED clr
        /\ \A u \in Threads : u # t => pc'[u] = pc[u]
        /\ ~Writer(t) /\ ~Reader(t) /\ ~Clearer(t)
        /\ Reader(t)' /\ ~Writer(t)' /\ ~Clearer(t)'
    BY <1>18 DEF PopReserve, TypeOK, Writer, Reader, Clearer, ClearPCs
  <2>5. Owned(t) = {} /\ Owned(t)' = {c}
    BY <2>4 DEF Owned, TypeOK
  <2> HIDE DEF c, e
  <2>6. states'[idx'[t]] = e /\ gen'[t] = GenOf(loaded[t])
    BY <2>1, <2>4 DEF TypeOK
  <2>7. e = Elem(gen'[t], "Reading")
    BY <2>6 DEF e
  <2>8. \A u \in Threads : u # t => gen'[u] = gen[u] /\ idx'[u] = idx[u] /\ clr'[u] = clr[u]
    BY <2>4 DEF TypeOK
  <2> QED
    BY <2>1, <2>2, <2>3, <2>4, <2>5, <2>6, <2>7, <2>8, OneCell, ZenonT(40)
<1>19. ASSUME NEW t \in Threads, PushFill(t) PROVE Ownership'
  <2> DEFINE e == Elem(gen[t], "Full")
  <2>1. idx[t] \in Cells /\ e.st \notin {"Writing", "Reading"}
    BY DEF TypeOK, Elem
  <2>2. /\ states' = [states EXCEPT ![idx[t]] = e]
        /\ UNCHANGED <<gen, idx, clr>>
        /\ \A u \in Threads : u # t => pc'[u] = pc[u]
        /\ Writer(t) /\ ~Clearer(t)
        /\ ~Writer(t)' /\ ~Reader(t)' /\ ~Clearer(t)'
    BY <1>19 DEF PushFill, Return, localVars, TypeOK, Writer, Reader, Clearer, ClearPCs
  <2>3. Owned(t) = {idx[t]} /\ Owned(t)' = {}
    BY <2>2 DEF Owned
  <2>4. \A u \in Threads : u # t => idx[t] \notin Owned(u)
    BY <2>3 DEF Ownership, CellOwnership
  <2> HIDE DEF e
  <2> QED BY <2>1, <2>2, <2>3, <2>4, OneCell, ZenonT(40)
<1>20. ASSUME NEW t \in Threads, AbortFree(t) PROVE Ownership'
  <2> DEFINE e == Elem(nextGeneration(gen[t]), "Empty")
  <2>1. idx[t] \in Cells /\ e.st \notin {"Writing", "Reading"}
    BY DEF TypeOK, Elem
  <2>2. /\ states' = [states EXCEPT ![idx[t]] = e]
        /\ UNCHANGED <<gen, idx, clr>>
        /\ \A u \in Threads : u # t => pc'[u] = pc[u]
        /\ Reader(t) /\ ~Clearer(t)
        /\ ~Writer(t)' /\ ~Reader(t)' /\ ~Clearer(t)'
    BY <1>20 DEF AbortFree, Return, localVars, TypeOK, Writer, Reader, Clearer, ClearPCs
  <2>3. Owned(t) = {idx[t]} /\ Owned(t)' = {}
    BY <2>2 DEF Owned
  <2>4. \A u \in Threads : u # t => idx[t] \notin Owned(u)
    BY <2>3 DEF Ownership, CellOwnership
  <2> HIDE DEF e
  <2> QED BY <2>1, <2>2, <2>3, <2>4, OneCell, ZenonT(40)
<1>21. ASSUME NEW t \in Threads, PopFree(t) PROVE Ownership'
  <2> DEFINE e == Elem(nextGeneration(gen[t]), "Empty")
  <2>1. idx[t] \in Cells /\ e.st \notin {"Writing", "Reading"}
    BY DEF TypeOK, Elem
  <2>2. /\ states' = [states EXCEPT ![idx[t]] = e]
        /\ UNCHANGED <<gen, idx, clr>>
        /\ \A u \in Threads : u # t => pc'[u] = pc[u]
        /\ Reader(t) /\ ~Clearer(t)
        /\ ~Writer(t)' /\ ~Reader(t)' /\ ~Clearer(t)'
    BY <1>21 DEF PopFree, Return, TypeOK, Writer, Reader, Clearer, ClearPCs
  <2>3. Owned(t) = {idx[t]} /\ Owned(t)' = {}
    BY <2>2 DEF Owned
  <2>4. \A u \in Threads : u # t => idx[t] \notin Owned(u)
    BY <2>3 DEF Ownership, CellOwnership
  <2> HIDE DEF e
  <2> QED BY <2>1, <2>2, <2>3, <2>4, OneCell, ZenonT(40)
<1>22. ASSUME NEW t \in Threads, AbortMark(t) PROVE Ownership'
  <2> DEFINE e == Elem(gen[t], "Reading")
  <2>1. idx[t] \in Cells
    BY DEF TypeOK
  <2>2. /\ states' = [states EXCEPT ![idx[t]] = e]
        /\ UNCHANGED <<gen, idx, clr>>
        /\ \A u \in Threads : u # t => pc'[u] = pc[u]
        /\ Writer(t) /\ ~Clearer(t)
        /\ ~Writer(t)' /\ Reader(t)' /\ ~Clearer(t)'
    BY <1>22 DEF AbortMark, TypeOK, Writer, Reader, Clearer, ClearPCs
  <2>3. Owned(t) = {idx[t]} /\ Owned(t)' = {idx[t]}
    BY <2>2 DEF Owned
  <2>4. \A u \in Threads : u # t => idx[t] \notin Owned(u)
    BY <2>3 DEF Ownership, CellOwnership
  <2>5. states'[idx'[t]] = e
    BY <2>1, <2>2 DEF TypeOK
  <2> QED BY <2>1, <2>2, <2>3, <2>4, <2>5, OneCell, ZenonT(40)
<1>23. ASSUME NEW t \in Threads, ClearReserve(t) PROVE Ownership'
  <2> DEFINE c == CellOf(loaded[t])
             e == Elem(GenOf(loaded[t]), "Reading")
  <2>1. c \in Cells /\ idx[t] \in Cells
    BY DecodeIndex DEF TypeOK
  <2>2. states[c].st \notin {"Writing", "Reading"} /\ e.st = "Reading"
    <3>1. \A g, x : Elem(g, x).st = x
      BY DEF Elem
    <3> QED BY <1>23, <3>1 DEF ClearReserve
  <2>3. \A u \in Threads : c \notin Owned(u)
    BY <2>1, <2>2, FreeCell
  <2>4. /\ states' = [states EXCEPT ![c] = e]
        /\ clr' = [clr EXCEPT ![t] = loaded[t]]
        /\ UNCHANGED <<gen, idx>>
        /\ \A u \in Threads : u # t => pc'[u] = pc[u]
        /\ Writer(t) /\ ~Reader(t) /\ ~Clearer(t)
        /\ Writer(t)' /\ ~Reader(t)' /\ Clearer(t)'
    BY <1>23 DEF ClearReserve, TypeOK, Writer, Reader, Clearer, ClearPCs
  <2>5. CellOf(clr'[t]) = c /\ GenOf(clr'[t]) = GenOf(loaded[t])
    BY <2>4 DEF TypeOK
  <2> HIDE DEF c
  <2>6. Owned(t) = {idx[t]} /\ Owned(t)' = {idx[t], c}
    BY <2>4, <2>5 DEF Owned, CellOf
  <2>7. states'[CellOf(clr'[t])] = e /\ states'[idx'[t]] = states[idx[t]]
    BY <2>1, <2>3, <2>4, <2>5, <2>6 DEF TypeOK
  <2>8. \A u \in Threads : u # t => clr'[u] = clr[u]
    BY <2>4 DEF TypeOK
  <2>9. states[idx[t]] = Elem(gen[t], "Writing")
    BY <2>4 DEF Ownership, CellOwnership
  <2> QED
    BY <2>1, <2>2, <2>3, <2>4, <2>5, <2>6, <2>7, <2>8, <2>9, OneCell, ZenonT(40)
<1>24. ASSUME NEW t \in Threads, ClearFree(t) PROVE Ownership'
  <2> DEFINE c == CellOf(clr[t])
             e == Elem(nextGeneration(GenOf(clr[t])), "Empty")
  <2>1. c \in Cells /\ idx[t] \in Cells /\ e.st = "Empty"
    BY DecodeIndex DEF TypeOK, Elem
  <2>2. /\ states' = [states EXCEPT ![c] = e]
        /\ UNCHANGED <<gen, idx, clr>>
        /\ \A u \in Threads : u # t => pc'[u] = pc[u]
        /\ Writer(t) /\ ~Reader(t) /\ Clearer(t)
        /\ Writer(t)' /\ ~Reader(t)' /\ ~Clearer(t)'
    BY <1>24 DEF ClearFree, localVars, TypeOK, Writer, Reader, Clearer, ClearPCs
  <2>3. /\ states[c] = Elem(GenOf(clr[t]), "Reading")
        /\ states[idx[t]] = Elem(gen[t], "Writing")
    BY <2>2 DEF Ownership, CellOwnership
  <2>10. c # idx[t]
    BY <2>3 DEF Elem
  <2> HIDE DEF e
  <2>4. Owned(t) = {idx[t], c} /\ Owned(t)' = {idx[t]}
    BY <2>2 DEF Owned
  <2>5. \A u \in Threads : u # t => c \notin Owned(u)
    BY <2>4 DEF Ownership, CellOwnership
  <2>6. states'[idx'[t]] = states[idx[t]]
    BY <2>1, <2>2, <2>10 DEF TypeOK
  <2> HIDE DEF c
  <2> QED
    BY <2>1, <2>2, <2>3, <2>4, <2>5, <2>6, OneCell, ZenonT(40)
<1>25. CASE disable \/ enable \/ UNCHANGED qmVars
  <2>1. UNCHANGED <<states, gen, idx, clr, pc>>
    BY <1>25 DEF disable, enable, localVars, qmVars
  <2>2. \A u \in Threads :
          /\ (Writer(u)' <=> Writer(u)) /\ (Reader(u)' <=> Reader(u))
          /\ (Clearer(u)' <=> Clearer(u))
    BY <2>1 DEF Writer, Reader, Clearer
  <2>3. \A u \in Threads : Owned(u)' = Owned(u)
    BY <2>1, <2>2 DEF Owned
  <2>4. CellOwnership'
    BY <2>1, <2>2, <2>3 DEF Ownership, CellOwnership
  <2>5. NoOrphanCell'
    BY <2>1, <2>3 DEF Ownership, NoOrphanCell
  <2> QED BY <2>4, <2>5 DEF Ownership
<1> QED
  BY <1>1, <1>2, <1>3, <1>4, <1>5, <1>6, <1>7, <1>8, <1>9, <1>10, <1>11, <1>12,
     <1>13, <1>14, <1>15, <1>16, <1>17, <1>18, <1>19, <1>20, <1>21, <1>22, <1>23, <1>24, <1>25
  DEF QMNext, PushStep, ClearStep, PopStep

-----------------------------------------------------------------------------
\* The indices, generations and thread states of the queue stay in range for
\* every capacity and number of generations.
THEOREM QueueTypes == QMSpec => []TypeOK
  BY InitTypeOK, StepTypeOK, PTL DEF QMSpec

\* Between its reservation and its commit (or abort) a cell belongs to exactly
\* one thread, even when a thread sleeps so long that the generations wrap.
THEOREM QueueOwnership == QMSpec => [](CellOwnership /\ NoOrphanCell)
<1>1. QMInit => TypeOK /\ Ownership
  BY InitTypeOK, InitOwnership
<1>2. TypeOK /\ Ownership /\ [QMNext]_qmVars => (TypeOK /\ Ownership)'
  BY StepTypeOK, StepOwnership
<1>3. Ownership => CellOwnership /\ NoOrphanCell
  BY DEF Ownership
<1> QED BY <1>1, <1>2, <1>3, PTL DEF QMSpec
=============================================================================
