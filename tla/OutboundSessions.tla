------------------------- MODULE OutboundSessions --------------------------
(***************************************************************************)
(* OutboundSessionMaker (router/outbound_session_maker.cpp) with the two   *)
(* parts it works between: RCLookupHandler, which finds the RouterContact  *)
(* of a router, and the pending-session queues of OutboundMessageHandler,  *)
(* which hold the messages for a router until its session is there.        *)
(*                                                                         *)
(* Everything but VerifyRC runs on the event loop thread; VerifyRC runs on *)
(* a worker.  Both call FinalizeRequest, which takes _mutex twice, so the  *)
(* loop's handlers are split where they take _mutex and a worker can come  *)
(* between.  EventLoop::call runs its argument at once on the loop thread  *)
(* and queues it (posted) from a worker.                                   *)
(***************************************************************************)
EXTENDS Integers, Sequences, FiniteSets, SequencesExt

CONSTANTS Routers,        \* RouterIDs we may connect to
          NoRouter,       \* none of them
          Messages,       \* link messages
          MaxConnected,   \* maxConnectedRouters
          IsServiceNode,  \* _router->IsServiceNode()
          MaxRequests,    \* bound: sessions and messages asked for, and inbound
                          \* sessions turned away, in a behaviour
          MaxJobs         \* bound: VerifyRC jobs waiting or running

ASSUME SessionsAssumption ==
  /\ NoRouter \notin Routers
  /\ MaxConnected \in Nat /\ MaxRequests \in Nat /\ MaxJobs \in Nat
  /\ IsServiceNode \in BOOLEAN

VARIABLES pendingSessions,   \* "absent", "null" (no job yet) or "job", per router
          pendingCallbacks,  \* the callbacks waiting for the router's session
          allowed,           \* the routers SessionIsAllowed accepts (whitelist, greylist)
          rcLookups,         \* OnRouterContactResult callbacks RCLookupHandler holds
          links,             \* the outbound link session to the router
          loop,              \* where the loop thread is, in which handler
          jobs,              \* the VerifyRC calls given to workers
          posted,            \* calls queued for the loop by workers
          waiting,           \* pendingSessionMessageQueues
          status,            \* what became of each message
          requests           \* requests made so far

vars == <<pendingSessions, pendingCallbacks, allowed, rcLookups, links, loop, jobs,
          posted, waiting, status, requests>>

RCResults == {"Success", "InvalidRouter", "RouterNotFound", "BadRC"}
SessionResults == {"Establish", "Timeout", "RouterNotFound", "InvalidRouter",
                   "NoLink", "EstablishFail"}
Callbacks == {"messages", "test"}   \* OnSessionResult, and the service node test's
Places == {"idle", "have", "create", "result", "contact", "should", "establish",
           "take", "erase"}
Idle == [at |-> "idle", r |-> NoRouter, withRC |-> FALSE, type |-> "Establish",
         rcResult |-> "Success", more |-> 0]

Init ==
  /\ pendingSessions = [r \in Routers |-> "absent"]
  /\ pendingCallbacks = [r \in Routers |-> <<>>]
  /\ allowed \in SUBSET Routers
  /\ rcLookups = [r \in Routers |-> 0]
  /\ links = [r \in Routers |-> "none"]
  /\ loop = Idle
  /\ jobs = <<>>
  /\ posted = <<>>
  /\ waiting = [r \in Routers |-> {}]
  /\ status = [m \in Messages |-> "new"]
  /\ requests = 0

HasOutboundSessionTo(r) == links[r] = "up"
NumberOfConnectedRouters == Cardinality({r \in Routers : links[r] = "up"})
HavePendingSessionTo(r) == pendingSessions[r] # "absent"

At(place) == loop.at = place
Go(place) == loop' = [loop EXCEPT !.at = place]
Finalize(type) == loop' = [loop EXCEPT !.at = "take", !.type = type]
FinalizeFor(r, type) == loop' = [Idle EXCEPT !.at = "take", !.r = r, !.type = type]

\* A handler returns.  RCLookupHandler::FinalizeRequest calls every callback it
\* holds in turn, so the loop may go on with the next one.
Return ==
  loop' = IF loop.more = 0 THEN Idle
          ELSE [Idle EXCEPT !.at = "result", !.r = loop.r,
                            !.rcResult = loop.rcResult, !.more = loop.more - 1]

\* The queue for r is kept when its messages have been dealt with.
RunCallbacksKeepingQueue(r, callbacks, type) ==
  /\ waiting' = waiting
  /\ status' = [m \in Messages |->
       IF m \notin waiting[r] \/ ~Contains(callbacks, "messages") THEN status[m]
       ELSE IF type = "Establish" /\ HasOutboundSessionTo(r) THEN "sent"
       ELSE "failed"]

\* OutboundMessageHandler::OnSessionResult and the FinalizeSessionRequest it
\* calls: the queue for r is dissolved; its messages are sent, which fails if the
\* session is gone again (LinkManager::SendTo), or their callbacks report failure.
RunCallbacks(r, callbacks, type) ==
  IF Contains(callbacks, "messages")
  THEN /\ waiting' = [waiting EXCEPT ![r] = {}]
       /\ status' = [m \in Messages |->
            IF m \notin waiting[r] THEN status[m]
            ELSE IF type = "Establish" /\ HasOutboundSessionTo(r) THEN "sent"
            ELSE "failed"]
  ELSE UNCHANGED <<waiting, status>>

-----------------------------------------------------------------------------
(* Requests for a session, made on the loop *)

\* CreateSessionTo up to the end of its first critical section.
CreateSessionTo(r, withRC, callbacks) ==
  /\ pendingCallbacks' = [pendingCallbacks EXCEPT ![r] = @ \o callbacks]
  /\ loop' = [Idle EXCEPT !.at = "have", !.r = r, !.withRC = withRC]

Request == At("idle") /\ requests < MaxRequests /\ requests' = requests + 1

\* OutboundMessageHandler::QueueMessage
QueueMessage(m, r) ==
  /\ Request /\ status[m] = "new"
  /\ \/ /\ r \notin allowed
        /\ status' = [status EXCEPT ![m] = "failed"]
        /\ UNCHANGED <<waiting, pendingCallbacks, loop>>
     \/ /\ r \in allowed /\ HasOutboundSessionTo(r)
        /\ status' = [status EXCEPT ![m] = "sent"]
        /\ UNCHANGED <<waiting, pendingCallbacks, loop>>
     \/ /\ r \in allowed /\ ~HasOutboundSessionTo(r)
        /\ status' = [status EXCEPT ![m] = "waiting"]
        /\ waiting' = [waiting EXCEPT ![r] = @ \cup {m}]
        /\ IF waiting[r] = {} THEN CreateSessionTo(r, FALSE, <<"messages">>)
           ELSE UNCHANGED <<pendingCallbacks, loop>>
  /\ UNCHANGED <<allowed, pendingSessions, rcLookups, links, jobs, posted>>

\* The callers that bring no messages: the service node test of Router::Run,
\* LinkManager::CheckPersistingSessions, and TryConnectAsync, which has the RC.
AskForSession(r) ==
  /\ Request
  /\ \/ IsServiceNode /\ r \in allowed /\ CreateSessionTo(r, FALSE, <<"test">>)
     \/ ~HasOutboundSessionTo(r) /\ CreateSessionTo(r, FALSE, <<>>)
     \/ r \in allowed /\ CreateSessionTo(r, TRUE, <<>>)
  /\ UNCHANGED <<allowed, pendingSessions, rcLookups, links, jobs, posted, waiting, status>>

\* HavePendingSessionTo, as CreateSessionTo asks it.
HavePending ==
  /\ At("have")
  /\ IF ~HavePendingSessionTo(loop.r) THEN Go("create")
     ELSE IF ~loop.withRC THEN Return
     ELSE IF HasOutboundSessionTo(loop.r) THEN Finalize("Establish")
     ELSE Go("contact")
  /\ UNCHANGED <<allowed, pendingSessions, pendingCallbacks, rcLookups, links, jobs,
                 posted, waiting, status, requests>>

\* RCLookupHandler::GetRC: the RC is in the node database, and every callback held
\* for it runs too; or a lookup is started, joined, or cannot be started.
GetRC(r) ==
  \/ /\ loop' = [loop EXCEPT !.at = "result", !.rcResult = "Success", !.more = rcLookups[r]]
     /\ rcLookups' = [rcLookups EXCEPT ![r] = 0]
  \/ /\ loop' = Idle
     /\ rcLookups' = [rcLookups EXCEPT ![r] = @ + 1]
  \/ /\ rcLookups[r] = 0
     /\ loop' = [loop EXCEPT !.at = "result", !.rcResult = "RouterNotFound"]
     /\ UNCHANGED rcLookups

\* CreatePendingSession and the rest of CreateSessionTo.
CreatePendingSession ==
  /\ At("create")
  /\ pendingSessions' = [pendingSessions EXCEPT ![loop.r] = IF @ = "absent" THEN "null" ELSE @]
  /\ IF HasOutboundSessionTo(loop.r) THEN Finalize("Establish") /\ UNCHANGED rcLookups
     ELSE IF loop.withRC THEN Go("contact") /\ UNCHANGED rcLookups
     ELSE GetRC(loop.r)
  /\ UNCHANGED <<allowed, pendingCallbacks, links, jobs, posted, waiting, status, requests>>

-----------------------------------------------------------------------------
(* The RouterContact arrives *)

\* A DHT lookup ends: HandleDHTLookupResult and FinalizeRequest.
LookupEnds(r, res) ==
  /\ At("idle") /\ rcLookups[r] > 0
  /\ res = "Success" => r \in allowed
  /\ loop' = [Idle EXCEPT !.at = "result", !.r = r, !.rcResult = res,
                         !.more = rcLookups[r] - 1]
  /\ rcLookups' = [rcLookups EXCEPT ![r] = 0]
  /\ UNCHANGED <<allowed, pendingSessions, pendingCallbacks, links, jobs, posted, waiting,
                 status, requests>>

\* A result that is neither success nor InvalidRouter is not handled.
ReportToMakerIgnored ==
  CASE ~HavePendingSessionTo(loop.r) -> Return
    [] loop.rcResult = "Success" -> Go("contact")
    [] loop.rcResult = "InvalidRouter" -> Finalize("InvalidRouter")
    [] OTHER -> Return

ReportToMaker ==
  CASE ~HavePendingSessionTo(loop.r) -> Return
    [] loop.rcResult = "Success" -> Go("contact")
    [] loop.rcResult = "InvalidRouter" -> Finalize("InvalidRouter")
    [] OTHER -> Finalize("RouterNotFound")

OnRouterContactResult ==
  /\ At("result")
  /\ ReportToMaker
  /\ UNCHANGED <<allowed, pendingSessions, pendingCallbacks, rcLookups, links, jobs,
                 posted, waiting, status, requests>>

\* The pending session is not given its RouterContact and link.
MakeJobForgotten(r) == UNCHANGED pendingSessions

MakeJob(r) == pendingSessions' = [pendingSessions EXCEPT ![r] = "job"]

\* The critical section of GotRouterContact; a link layer compatible with the RC
\* may be missing.
GotRouterContact ==
  /\ At("contact")
  /\ \/ ~HavePendingSessionTo(loop.r) /\ Return /\ UNCHANGED pendingSessions
     \/ HavePendingSessionTo(loop.r) /\ Finalize("NoLink") /\ UNCHANGED pendingSessions
     \/ /\ HavePendingSessionTo(loop.r) /\ Go("should")
        /\ MakeJob(loop.r)
  /\ UNCHANGED <<allowed, pendingCallbacks, rcLookups, links, jobs, posted, waiting,
                 status, requests>>

\* ShouldConnectTo counts the pending sessions only if this router has none.
PendingCounted(r) ==
  IF HavePendingSessionTo(r) THEN 0
  ELSE Cardinality({s \in Routers : HavePendingSessionTo(s)})

MayConnect(r) ==
  /\ r \in allowed /\ ~HasOutboundSessionTo(r)
  /\ IsServiceNode \/ NumberOfConnectedRouters + PendingCounted(r) < MaxConnected

ShouldConnectTo ==
  /\ At("should")
  /\ IF MayConnect(loop.r) THEN Go("establish") ELSE Finalize("NoLink")
  /\ UNCHANGED <<allowed, pendingSessions, pendingCallbacks, rcLookups, links, jobs,
                 posted, waiting, status, requests>>

\* DoEstablish, inline on the loop.  TryEstablishTo refuses a second session, an RC
\* without an address of its dialect, and an address it is dialling already.
DoEstablish ==
  /\ At("establish")
  /\ \/ ~HavePendingSessionTo(loop.r) /\ Return /\ UNCHANGED links
     \/ HavePendingSessionTo(loop.r) /\ Finalize("EstablishFail") /\ UNCHANGED links
     \/ /\ HavePendingSessionTo(loop.r) /\ links[loop.r] = "none"
        /\ Return /\ links' = [links EXCEPT ![loop.r] = "handshake"]
  /\ UNCHANGED <<allowed, pendingSessions, pendingCallbacks, rcLookups, jobs, posted,
                 waiting, status, requests>>

-----------------------------------------------------------------------------
(* The link layer reports, and requests are finalized *)

\* OnSessionEstablished, for an outbound session whose handshake completed.  It is
\* called whether or not MapAddr, just before, could enter the session among the
\* authenticated ones.
OnSessionEstablished(r) ==
  /\ At("idle") /\ links[r] = "handshake"
  /\ \E mapped \in BOOLEAN : links' = [links EXCEPT ![r] = IF mapped THEN "up" ELSE "none"]
  /\ \/ r \notin allowed /\ FinalizeFor(r, "InvalidRouter") /\ UNCHANGED jobs
     \/ /\ r \in allowed /\ Len(jobs) < MaxJobs
        /\ jobs' = Append(jobs, [r |-> r, at |-> "verify", held |-> <<>>, type |-> "Establish"])
        /\ UNCHANGED loop
  /\ UNCHANGED <<allowed, pendingSessions, pendingCallbacks, rcLookups, posted, waiting,
                 status, requests>>

\* OnSessionEstablished, for an inbound session.  That of a router that is not
\* allowed is turned away, which finalizes whatever request there is for the router; any
\* other leaves the session maker alone.
OnInboundSession(r) ==
  /\ Request /\ r \notin allowed
  /\ FinalizeFor(r, "InvalidRouter")
  /\ UNCHANGED <<allowed, pendingSessions, pendingCallbacks, rcLookups, links, jobs, posted,
                 waiting, status>>

\* Every timeout is followed by another attempt.
OnConnectTimeoutRetrying(r) ==
  /\ At("idle") /\ links[r] = "handshake"
  /\ links' = [links EXCEPT ![r] = "none"]
  /\ loop' = [Idle EXCEPT !.at = "establish", !.r = r]
  /\ UNCHANGED <<allowed, pendingSessions, pendingCallbacks, rcLookups, jobs, posted,
                 waiting, status, requests>>

OnConnectTimeout(r) ==
  /\ At("idle") /\ links[r] = "handshake"
  /\ links' = [links EXCEPT ![r] = "none"]
  /\ FinalizeFor(r, "Timeout")
  /\ UNCHANGED <<allowed, pendingSessions, pendingCallbacks, rcLookups, jobs, posted,
                 waiting, status, requests>>

\* An established session ends; the session maker is not told.
SessionClosed(r) ==
  /\ At("idle") /\ links[r] = "up"
  /\ links' = [links EXCEPT ![r] = "none"]
  /\ UNCHANGED <<allowed, pendingSessions, pendingCallbacks, rcLookups, loop, jobs, posted,
                 waiting, status, requests>>

\* RCLookupHandler::SetRouterWhitelist, which ignores an empty list.
SetRouterWhitelist(listed) ==
  /\ At("idle") /\ listed # {} /\ listed # allowed
  /\ allowed' = listed
  /\ UNCHANGED <<pendingSessions, pendingCallbacks, rcLookups, links, loop, jobs,
                 posted, waiting, status, requests>>

\* FinalizeRequest on the loop: the first critical section and the callbacks.
TakeCallbacks ==
  /\ At("take")
  /\ RunCallbacks(loop.r, pendingCallbacks[loop.r], loop.type)
  /\ pendingCallbacks' = [pendingCallbacks EXCEPT ![loop.r] = <<>>]
  /\ Go("erase")
  /\ UNCHANGED <<allowed, pendingSessions, rcLookups, links, jobs, posted, requests>>

\* FinalizeRequest on the loop: the second critical section.
ErasePending ==
  /\ At("erase")
  /\ pendingSessions' = [pendingSessions EXCEPT ![loop.r] = "absent"]
  /\ Return
  /\ UNCHANGED <<allowed, pendingCallbacks, rcLookups, links, jobs, posted, waiting,
                 status, requests>>

\* VerifyRC on a worker: CheckRC and the first critical section of FinalizeRequest.
VerifyRC(i) ==
  /\ jobs[i].at = "verify"
  /\ \E type \in {"Establish", "InvalidRouter"} :
       jobs' = [jobs EXCEPT ![i].at = "post", ![i].type = type,
                            ![i].held = pendingCallbacks[jobs[i].r]]
  /\ pendingCallbacks' = [pendingCallbacks EXCEPT ![jobs[i].r] = <<>>]
  /\ UNCHANGED <<allowed, pendingSessions, rcLookups, links, loop, posted, waiting, status,
                 requests>>

\* The callbacks are queued for the loop.
PostCallbacks(i) ==
  /\ jobs[i].at = "post"
  /\ jobs' = [jobs EXCEPT ![i].at = "erase"]
  /\ posted' = IF jobs[i].held = <<>> THEN posted ELSE Append(posted, jobs[i])
  /\ UNCHANGED <<allowed, pendingSessions, pendingCallbacks, rcLookups, links, loop, waiting,
                 status, requests>>

WorkerErases(i) ==
  /\ jobs[i].at = "erase"
  /\ pendingSessions' = [pendingSessions EXCEPT ![jobs[i].r] = "absent"]
  /\ jobs' = RemoveAt(jobs, i)
  /\ UNCHANGED <<allowed, pendingCallbacks, rcLookups, links, loop, posted, waiting, status,
                 requests>>

RunPosted ==
  /\ At("idle") /\ posted # <<>>
  /\ RunCallbacks(Head(posted).r, Head(posted).held, Head(posted).type)
  /\ posted' = Tail(posted)
  /\ UNCHANGED <<allowed, pendingSessions, pendingCallbacks, rcLookups, links, loop, jobs,
                 requests>>

-----------------------------------------------------------------------------
Requests ==
  \E r \in Routers : AskForSession(r) \/ \E m \in Messages : QueueMessage(m, r)

LoopContinues ==
  \/ HavePending \/ CreatePendingSession \/ OnRouterContactResult \/ GotRouterContact
  \/ ShouldConnectTo \/ DoEstablish \/ TakeCallbacks \/ ErasePending

LookupEndsFor(r) == \E res \in RCResults : LookupEnds(r, res)
HandshakeEnds(r) == OnSessionEstablished(r) \/ OnConnectTimeout(r)
WorkerStep == \E i \in 1 .. Len(jobs) : VerifyRC(i) \/ PostCallbacks(i) \/ WorkerErases(i)

Next ==
  \/ Requests \/ LoopContinues \/ RunPosted \/ WorkerStep
  \/ \E r \in Routers : LookupEndsFor(r) \/ HandshakeEnds(r) \/ SessionClosed(r)
                       \/ OnInboundSession(r)
  \/ \E listed \in SUBSET Routers : SetRouterWhitelist(listed)

Spec == Init /\ [][Next]_vars

\* The loop thread runs what it started and what was queued for it; workers run
\* their jobs; a DHT lookup and a handshake end, by their timeouts if by nothing else.
Fairness ==
  /\ WF_vars(LoopContinues) /\ WF_vars(RunPosted) /\ WF_vars(WorkerStep)
  /\ \A r \in Routers : WF_vars(LookupEndsFor(r)) /\ WF_vars(HandshakeEnds(r))

FairSpec == Spec /\ Fairness

-----------------------------------------------------------------------------
(* Properties *)

\* The values the variables take; a router has a message queue only while it holds
\* messages, and exactly the messages marked waiting are in one.
SessionsTypeOK ==
  /\ pendingSessions \in [Routers -> {"absent", "null", "job"}]
  /\ \A r \in Routers : pendingCallbacks[r] \in Seq(Callbacks) /\ rcLookups[r] \in Nat
  /\ links \in [Routers -> {"none", "handshake", "up"}]
  /\ loop.at \in Places /\ loop.type \in SessionResults /\ loop.rcResult \in RCResults
  /\ allowed \subseteq Routers
  /\ loop.at # "idle" => loop.r \in Routers
  /\ Len(jobs) <= MaxJobs
  /\ \A m \in Messages :
       Cardinality({r \in Routers : m \in waiting[r]}) = IF status[m] = "waiting" THEN 1 ELSE 0

\* DoEstablish dereferences the job of the pending session it finds without looking
\* whether there is one: a pending session of a newer request, still without its
\* RouterContact, must never be what it finds.
JobIsThere ==
  At("establish") => pendingSessions[loop.r] # "null"

Finalizing(r) ==
  \/ loop.at # "idle" /\ loop.r = r
  \/ \E i \in 1 .. Len(jobs) : jobs[i].r = r

\* CreateSessionTo(RouterID) does nothing for a router that has a pending session, so
\* a pending session nothing is working on would block the router for good: while one
\* exists its RouterContact is being looked up, its handshake runs, or its request is
\* being verified or finalized.
PendingIsDriven ==
  \A r \in Routers :
    HavePendingSessionTo(r) => \/ rcLookups[r] > 0
                               \/ links[r] = "handshake"
                               \/ Finalizing(r)

\* Every pending session comes to an end, so that the router can be tried again.  It
\* rests on the end of every handshake (ReportedUnlessKeptAlive of LinkSessions).
PendingEnds ==
  \A r \in Routers : []<>~HavePendingSessionTo(r)

\* A client keeps to maxConnectedRouters, "hard upperbound limit on the number of
\* router to router connections" (outbound_session_maker.hpp).
UpperBoundHolds ==
  ~IsServiceNode => NumberOfConnectedRouters <= MaxConnected

\* OutboundMessageHandler::QueueMessage creates the pending session of a queued message
\* "if there is not already a session establish attempt in progress": a message waits
\* only while an attempt is in progress or its result is on the way to the loop.
WaitingHasAttempt ==
  \A r \in Routers :
    waiting[r] # {} => \/ HavePendingSessionTo(r)
                       \/ Finalizing(r)
                       \/ \E i \in 1 .. Len(posted) : posted[i].r = r
=============================================================================
