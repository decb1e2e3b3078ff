----------------------------- MODULE BoundedFifo -----------------------------
(***************************************************************************)
(* What llarp::thread::Queue promises: a bounded first-in first-out queue. *)
(* A push reserves the place at the back for the object it brings and      *)
(* fills it later; a pop takes the front once it is filled, and what a     *)
(* popper has taken cannot change until it returns.  A push whose object   *)
(* cannot be constructed throws: it empties the filled places in front of  *)
(* its own, then gives its own up.  Nothing else leaves the queue.         *)
(***************************************************************************)
EXTENDS Naturals, Sequences

CONSTANTS Threads, Capacity, Items, NoItem

VARIABLES q,         \* the places from front to back, each with the object it is for
          brings,    \* the object each thread has reserved a place for and not yet filled
          throwing,  \* the threads whose push threw
          got        \* what each thread's pop has taken and not yet returned

vars == <<q, brings, throwing, got>>

Place(v, f) == [item |-> v, filled |-> f]

Init ==
  /\ q = <<>>
  /\ brings = [t \in Threads |-> NoItem]
  /\ throwing = {}
  /\ got = [t \in Threads |-> NoItem]

Reserve(t, v) ==
  /\ Len(q) < Capacity
  /\ brings[t] = NoItem
  /\ brings' = [brings EXCEPT ![t] = v]
  /\ q' = Append(q, Place(v, FALSE))
  /\ UNCHANGED <<throwing, got>>

Fill(t) ==
  /\ brings[t] # NoItem /\ t \notin throwing
  /\ brings' = [brings EXCEPT ![t] = NoItem]
  /\ \E k \in DOMAIN q :
       /\ q[k] = Place(brings[t], FALSE)
       /\ q' = [q EXCEPT ![k] = Place(brings[t], TRUE)]
  /\ UNCHANGED <<throwing, got>>

Take(t) ==
  /\ q # <<>> /\ Head(q).filled
  /\ got[t] = NoItem
  /\ got' = [got EXCEPT ![t] = Head(q).item]
  /\ q' = Tail(q)
  /\ UNCHANGED <<brings, throwing>>

Return(t) ==
  /\ got[t] # NoItem
  /\ got' = [got EXCEPT ![t] = NoItem]
  /\ UNCHANGED <<q, brings, throwing>>

Throw(t) ==
  /\ brings[t] # NoItem /\ t \notin throwing
  /\ throwing' = throwing \cup {t}
  /\ UNCHANGED <<q, brings, got>>

\* The thread's own place is not filled, so it stops at that.
Discard(t) ==
  /\ t \in throwing
  /\ q # <<>> /\ Head(q).filled
  /\ \E k \in DOMAIN q : q[k] = Place(brings[t], FALSE)
  /\ q' = Tail(q)
  /\ UNCHANGED <<brings, throwing, got>>

GiveUp(t) ==
  /\ t \in throwing
  /\ q # <<>> /\ Head(q) = Place(brings[t], FALSE)
  /\ q' = Tail(q)
  /\ brings' = [brings EXCEPT ![t] = NoItem]
  /\ throwing' = throwing \ {t}
  /\ UNCHANGED got

Next ==
  \E t \in Threads :
    \/ \E v \in Items : Reserve(t, v)
    \/ Fill(t) \/ Take(t) \/ Return(t)
    \/ Throw(t) \/ Discard(t) \/ GiveUp(t)

Spec == Init /\ [][Next]_vars
=============================================================================
