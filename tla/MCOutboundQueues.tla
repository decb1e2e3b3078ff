------------------------- MODULE MCOutboundQueues --------------------------
EXTENDS OutboundQueues

CONSTANTS p1, p2

\* Relay data (0), a relay commit (5) and a relay status (6) on one path, data on
\* another, and a routing message.
SomeMessages == {[path |-> p1, priority |-> i] : i \in {0, 5, 6}}
                \cup {[path |-> p2, priority |-> 0], [path |-> Zero, priority |-> 1]}

\* Of the behaviours, those in which a path sends nothing after it was removed: what is
\* sorted then was queued before.
OnlyBacklog ==
  Len(outboundQueue') > Len(outboundQueue) => Last(outboundQueue').path \notin dead
=============================================================================
