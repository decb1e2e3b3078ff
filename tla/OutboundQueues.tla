-------------------------- MODULE OutboundQueues ---------------------------
(***************************************************************************)
(* The queues of OutboundMessageHandler (router/outbound_message_handler)  *)
(* for messages whose session exists: QueueMessage puts them on the shared *)
(* outboundQueue, Tick sorts that into one priority queue per path, sends  *)
(* the routing messages (path zero) and then one message per path in turn. *)
(* RemovePath drops a path's queue and filters what is still unsorted.     *)
(* All of it runs on the event loop; Tick is split at its loops' bodies.   *)
(***************************************************************************)
EXTENDS Integers, Sequences, FiniteSets, SequencesExt

CONSTANTS Paths,         \* PathIDs
          Zero,          \* zeroID, the path of routing messages
          Messages,      \* records with a path and a priority
          MaxOutbound,   \* MAX_OUTBOUND_QUEUE_SIZE
          MaxPathQueue,  \* MAX_PATH_QUEUE_SIZE
          MaxPerTick,    \* MAX_OUTBOUND_MESSAGES_PER_TICK
          DecayTicks     \* ticks in the 5 s that recentlyRemovedPaths remembers

ASSUME QueuesAssumption ==
  /\ Zero \notin Paths
  /\ \A m \in Messages : m.path \in Paths \cup {Zero} /\ m.priority \in Nat
  /\ {MaxOutbound, MaxPathQueue, MaxPerTick} \subseteq Nat \ {0}
  /\ DecayTicks \in Nat /\ DecayTicks > 1   \* the loop ticks again within the 5 s

VARIABLES outboundQueue,          \* the shared queue
          outboundMessageQueues,  \* path -> the messages sorted to it
          roundRobinOrder,
          recentlyRemovedPaths,   \* ticks a removed path is still remembered
          removedSomePaths,
          phase,                  \* where Tick is
          sentCount, emptyCount,  \* locals of SendRoundRobin
          dead                    \* the paths that were removed

queues == outboundMessageQueues
locals == <<sentCount, emptyCount>>
vars == <<outboundQueue, outboundMessageQueues, roundRobinOrder, recentlyRemovedPaths,
          removedSomePaths, phase, locals, dead>>

Init ==
  /\ outboundQueue = <<>>
  /\ outboundMessageQueues = [p \in {Zero} |-> {}]
  /\ roundRobinOrder = <<>>
  /\ recentlyRemovedPaths = [p \in Paths |-> 0]
  /\ removedSomePaths = FALSE
  /\ phase = "idle"
  /\ sentCount = 0 /\ emptyCount = 0
  /\ dead = {}

Queued(m) == Contains(outboundQueue, m) \/ \E p \in DOMAIN queues : m \in queues[p]

\* QueueOutboundMessage, also for a path that was removed: a worker may have had the
\* message.  A full queue drops it and reports Congestion.  Not during a Tick: of the two
\* callbacks there are, one sets a path's status and one hands its work to a worker.
QueueOutboundMessage(m) ==
  /\ phase = "idle" /\ ~Queued(m)
  /\ outboundQueue' = IF Len(outboundQueue) < MaxOutbound THEN Append(outboundQueue, m)
                      ELSE outboundQueue
  /\ UNCHANGED <<outboundMessageQueues, roundRobinOrder, recentlyRemovedPaths,
                 removedSomePaths, phase, locals, dead>>

\* A path dies once: its id is random and not used again.
RemovePath(p) ==
  /\ phase = "idle" /\ p \notin dead
  /\ recentlyRemovedPaths' = [recentlyRemovedPaths EXCEPT ![p] = DecayTicks]
  /\ outboundMessageQueues' = [q \in DOMAIN queues \ {p} |-> queues[q]]
  /\ removedSomePaths' = TRUE
  /\ dead' = dead \cup {p}
  /\ UNCHANGED <<outboundQueue, roundRobinOrder, phase, locals>>

-----------------------------------------------------------------------------
(* Tick *)

\* Tick begins: recentlyRemovedPaths.Decay()
Tick ==
  /\ phase = "idle"
  /\ phase' = "process"
  /\ recentlyRemovedPaths' = [p \in Paths |->
       IF recentlyRemovedPaths[p] = 0 THEN 0 ELSE recentlyRemovedPaths[p] - 1]
  /\ UNCHANGED <<outboundQueue, outboundMessageQueues, roundRobinOrder,
                 removedSomePaths, locals, dead>>

Filtered(m) == m.path # Zero /\ recentlyRemovedPaths[m.path] > 0

\* The cap of a path queue is off by one.
SortedOneMore(m) ==
  LET old == IF m.path \in DOMAIN queues THEN queues[m.path] ELSE {}
      new == IF m.path = Zero \/ Cardinality(old) <= MaxPathQueue THEN old \cup {m} ELSE old
  IN  [q \in DOMAIN queues \cup {m.path} |-> IF q = m.path THEN new ELSE queues[q]]

\* The path queue that takes m, created if it is not there.
Sorted(m) ==
  LET old == IF m.path \in DOMAIN queues THEN queues[m.path] ELSE {}
      new == IF m.path = Zero \/ Cardinality(old) < MaxPathQueue THEN old \cup {m} ELSE old
  IN  [q \in DOMAIN queues \cup {m.path} |-> IF q = m.path THEN new ELSE queues[q]]

\* A new path queue is not entered in the round robin order.
OrderWithForgotten(p) == roundRobinOrder

OrderWith(p) ==
  IF p = Zero \/ p \in DOMAIN queues THEN roundRobinOrder ELSE Append(roundRobinOrder, p)

\* The filter is left out.
EndsProcessingUnfiltered(m) == FALSE

\* Meeting a message of a removed path ends ProcessOutboundQueue (it returns).
EndsProcessing(m) == Filtered(m)

\* One iteration of ProcessOutboundQueue.
ProcessOutboundQueue ==
  /\ phase = "process"
  /\ \/ /\ outboundQueue = <<>>
        /\ phase' = "routing"
        /\ UNCHANGED <<outboundQueue, outboundMessageQueues, roundRobinOrder>>
     \/ /\ outboundQueue # <<>> /\ EndsProcessing(Head(outboundQueue))
        /\ outboundQueue' = Tail(outboundQueue)
        /\ phase' = "routing"
        /\ UNCHANGED <<outboundMessageQueues, roundRobinOrder>>
     \/ /\ outboundQueue # <<>> /\ ~EndsProcessing(Head(outboundQueue))
        /\ outboundQueue' = Tail(outboundQueue)
        /\ outboundMessageQueues' = Sorted(Head(outboundQueue))
        /\ roundRobinOrder' = OrderWith(Head(outboundQueue).path)
        /\ UNCHANGED phase
  /\ UNCHANGED <<recentlyRemovedPaths, removedSomePaths, locals, dead>>

\* SendRoundRobin up to its last loop: all routing messages go out, and if paths were
\* removed their entries leave the order.
BeginRoundRobin ==
  /\ phase = "routing"
  /\ outboundMessageQueues' = [queues EXCEPT ![Zero] = {}]
  /\ roundRobinOrder' = IF removedSomePaths
                        THEN SelectSeq(roundRobinOrder, LAMBDA p : p \in DOMAIN queues)
                        ELSE roundRobinOrder
  /\ removedSomePaths' = FALSE
  /\ sentCount' = 0 /\ emptyCount' = 0
  /\ phase' = IF roundRobinOrder' = <<>> THEN "idle" ELSE "send"
  /\ UNCHANGED <<outboundQueue, recentlyRemovedPaths, dead>>

\* The served path keeps its place at the front.
NotRotated(order) == order

Rotated(order) == Append(Tail(order), Head(order))

\* The entry std::priority_queue::top() gives: operator< compares the priorities the
\* other way round, so it is one with the least priority value.
IsTop(m, queue) == m \in queue /\ \A n \in queue : m.priority <= n.priority

\* One iteration of the round robin loop.
SendNext(p) ==
  /\ phase = "send" /\ p = Head(roundRobinOrder)
  /\ LET queue == IF p \in DOMAIN queues THEN queues[p] ELSE {}
     IN  \/ \E m \in queue :
              /\ IsTop(m, queue)
              /\ outboundMessageQueues' = [queues EXCEPT ![p] = @ \ {m}]
              /\ emptyCount' = 0 /\ sentCount' = sentCount + 1
         \/ /\ queue = {}
            /\ outboundMessageQueues' =
                 [q \in DOMAIN queues \cup {p} |-> IF q = p THEN {} ELSE queues[q]]
            /\ emptyCount' = emptyCount + 1 /\ UNCHANGED sentCount
  /\ roundRobinOrder' = Rotated(roundRobinOrder)
  /\ phase' = IF emptyCount' = Len(roundRobinOrder) \/ sentCount' = MaxPerTick
              THEN "idle" ELSE "send"
  /\ UNCHANGED <<outboundQueue, recentlyRemovedPaths, removedSomePaths, dead>>

TickStep == Tick \/ ProcessOutboundQueue \/ BeginRoundRobin \/ \E p \in Paths : SendNext(p)

Next ==
  \/ TickStep
  \/ \E m \in Messages : QueueOutboundMessage(m)
  \/ \E p \in Paths : RemovePath(p)

Spec == Init /\ [][Next]_vars

\* The event loop calls Tick on every iteration.
FairSpec == Spec /\ WF_vars(TickStep)

-----------------------------------------------------------------------------
(* Properties *)

PathQueues == DOMAIN queues \ {Zero}

\* The values the variables take, and the caps on both kinds of queue.
QueuesTypeOK ==
  /\ outboundQueue \in Seq(Messages) /\ Len(outboundQueue) <= MaxOutbound
  /\ DOMAIN queues \subseteq Paths \cup {Zero}
  /\ \A p \in DOMAIN queues : \A m \in queues[p] : m \in Messages /\ m.path = p
  /\ \A p \in PathQueues : Cardinality(queues[p]) <= MaxPathQueue
  /\ recentlyRemovedPaths \in [Paths -> 0 .. DecayTicks]
  /\ sentCount \in 0 .. MaxPerTick /\ emptyCount \in 0 .. Len(roundRobinOrder)

\* SendRoundRobin serves the paths of roundRobinOrder and no other, and it recreates the
\* queue of any path it finds there: the order names every path queue, each path once,
\* and a path whose queue is gone only while removedSomePaths is set.
OrderMatchesQueues ==
  /\ Cardinality(ToSet(roundRobinOrder)) = Len(roundRobinOrder)
  /\ PathQueues \subseteq ToSet(roundRobinOrder)
  /\ ~removedSomePaths => ToSet(roundRobinOrder) = PathQueues

\* RemovePath keeps unsorted messages from "re-creat[ing] the path queue we just removed"
\* (outbound_message_handler.cpp:98-103): a path that died has no queue, which
\* nothing would ever remove.
RemovedStaysRemoved == PathQueues \cap dead = {}

\* What the filter does guarantee: as long as recentlyRemovedPaths has a path, no queue of
\* it exists, whatever of it was unsorted when it was removed or is queued later, and
\* although SendRoundRobin recreates the queue of any path it meets in its order.
FilteredHasNoQueue == \A p \in Paths : recentlyRemovedPaths[p] > 0 => p \notin PathQueues

Waits(p) == p \in DOMAIN queues /\ queues[p] # {}

\* "All have roughly equal access to bandwidth": a path that always has messages is served
\* again and again, whatever the other paths queue, also when a tick's cap is reached first.
NoPathStarves ==
  \A p \in Paths : <>[]Waits(p) => []<><<SendNext(p)>>_vars
=============================================================================
