-------------------------------- MODULE Paths --------------------------------
(***************************************************************************)
(* Onion paths: the builder of a client (path/pathbuilder.cpp,             *)
(* path/pathset.cpp, path/path.cpp) and the transit hops of the relays     *)
(* (path/transit_hop.cpp, messages/relay_commit.cpp, relay_status.cpp),    *)
(* with the maps of path/path_context.cpp on both.                         *)
(*                                                                         *)
(*   LRCM     client -> 1 -> ... -> n   each relay puts its transit hop    *)
(*   LRSM     back, one status record added by every relay on the way      *)
(*   latency  to n and back; the path is established by the answer         *)
(*                                                                         *)
(* Path ids are random, so paths share nothing but the builder: relay i is *)
(* the i-th hop of every path.  The network and the queues of the routers  *)
(* lose and reorder messages; they repeat none (IwpTransfer).              *)
(*                                                                         *)
(* A tick of the model is 10 s; a router ticks every second.               *)
(***************************************************************************)
EXTENDS Integers, Sequences, FiniteSets

CONSTANTS NumHops,            \* numHops
          NumDesiredPaths,    \* numDesiredPaths
          BuildTimeout,       \* path::build_timeout, in ticks of the model
          LatencyInterval,    \* path::latency_interval
          AliveTimeout,       \* path::alive_timeout
          ReanimationTimeout, \* PathReanimationTimeout
          Lifetime,           \* path::default_lifetime
          MaxBuilds,          \* bound: paths built
          MaxCrashes          \* bound: relays that lose their state

Hops == 1 .. NumHops
PathIds == 1 .. MaxBuilds

ASSUME PathsAssumption ==
  /\ {NumHops, NumDesiredPaths, BuildTimeout, LatencyInterval, AliveTimeout,
      ReanimationTimeout, Lifetime, MaxBuilds} \subseteq Nat \ {0}
  /\ MaxCrashes \in Nat
  /\ LatencyInterval < AliveTimeout /\ AliveTimeout < ReanimationTimeout
  /\ BuildTimeout < Lifetime

VARIABLES path,      \* the client's paths
          stopped,   \* not _run
          hop,       \* per path, the relays' transit hops
          net,       \* messages on their way
          jobs,      \* messages for the client that found their path and wait for a worker
          sending,   \* LRCMs that may still be reported as not sent; 0 is the client
          committed, \* history: the relays that put a transit hop for the path
          crashes    \* counts crashes

vars == <<path, stopped, hop, net, jobs, sending, committed, crashes>>

Statuses == {"Building", "Established", "Timeout", "Failed", "Ignore", "Expired"}

\* A path before it is built, and one that both maps have let go of.
NoPath == [status |-> "none", inSet |-> FALSE, inContext |-> FALSE]
GonePath == [NoPath EXCEPT !.status = "gone"]

\* age, lastRecv and lastTest are the ages of buildStarted, m_LastRecvMessage and
\* m_LastLatencyTestTime; testing: m_LastLatencyTestID is set; fec: the second test is
\* scheduled; confirmed: intro.expiresAt is set; inSet, inContext: m_Paths, m_OurPaths.
NewPath ==
  [status |-> "Building", age |-> 0, lastRecv |-> 0, lastTest |-> 0, testing |-> FALSE,
   fec |-> FALSE, confirmed |-> FALSE, inSet |-> FALSE, inContext |-> FALSE]

NoHop == [age |-> -1, destroy |-> FALSE]

Message(type, p, to, frames) == [type |-> type, path |-> p, to |-> to, frames |-> frames]
Older(n, cap) == IF n < cap THEN n + 1 ELSE cap

Init ==
  /\ path = [p \in PathIds |-> NoPath]
  /\ stopped = FALSE
  /\ hop = [p \in PathIds |-> [i \in Hops |-> NoHop]]
  /\ net = {}
  /\ jobs = {}
  /\ sending = {}
  /\ committed = [p \in PathIds |-> {}]
  /\ crashes = 0

-----------------------------------------------------------------------------
(* The client: building *)

\* Path::EnterState takes a path from any state to any other.  What it tells the set of
\* a timeout or a death (a lookup of the router to blame) changes no path.
EnterState(x, st) == [x EXCEPT !.status = st]

Held(x) == x.inSet \/ x.inContext

\* A path that timed out is kept for as long as it may be reanimated.
ExpiredUnlessTimeout(x) ==
  \/ x.status \in {"Failed", "Expired"}
  \/ x.status \in {"Established", "Ignore"} /\ x.age >= Lifetime

\* Path::Expired
Expired(x) ==
  \/ x.status \in {"Failed", "Expired"}
  \/ x.status = "Timeout" /\ x.lastRecv >= ReanimationTimeout
  \/ x.status \in {"Established", "Ignore"} /\ x.age >= Lifetime

\* Path::IsReady.  That the latency is known too is not asked: what is shown of ready
\* paths is shown of more of them.
IsReady(x) == x.status = "Established" /\ ~Expired(x)

NumInStatus(set, st) == Cardinality({p \in set : path[p].status = st})

\* PathSet::ShouldBuildMore.  The cooldown, the hop selection and the edge limiter
\* of the builder may each say no.
ShouldBuildMore(set) ==
  ~stopped /\ NumInStatus(set, "Building") < NumDesiredPaths
           /\ NumInStatus(set, "Established") < NumDesiredPaths

\* PathBuilderKeysGenerated, when the workers made the keys of all hops.
PathBuilderKeysGenerated(p) ==
  /\ path[p].status = "Building" /\ ~path[p].inSet /\ ~path[p].inContext
  /\ IF stopped
     THEN path' = [path EXCEPT ![p] = NoPath] /\ UNCHANGED <<net, sending>>
     ELSE /\ path' = [path EXCEPT ![p].inSet = TRUE, ![p].inContext = TRUE]
          /\ net' = net \cup {Message("LRCM", p, 1, <<>>)}
          /\ sending' = sending \cup {<<p, 0>>}
  /\ UNCHANGED <<stopped, hop, jobs, committed, crashes>>

\* sentHandler of PathBuilderKeysGenerated, which does nothing if the LRCM was sent.
LRCMNotSent(p) ==
  /\ <<p, 0>> \in sending
  /\ sending' = sending \ {<<p, 0>>}
  /\ path' = [path EXCEPT ![p] = EnterState(@, "Failed")]
  /\ UNCHANGED <<stopped, hop, net, jobs, committed, crashes>>

\* Builder::Stop
Stop ==
  /\ ~stopped
  /\ stopped' = TRUE
  /\ path' = [p \in PathIds |-> IF path[p].inSet THEN EnterState(path[p], "Ignore")
                                ELSE path[p]]
  /\ UNCHANGED <<hop, net, jobs, sending, committed, crashes>>

-----------------------------------------------------------------------------
(* The client: messages and timers *)

\* SendLatencyMessage
Tested(x) == [x EXCEPT !.testing = TRUE, !.lastTest = 0]
SendLatencyMessages(set) == net' = net \cup {Message("Latency", p, 1, <<>>) : p \in set}

\* GetByUpstream finds the path in m_OurPaths; a worker takes it from there.
ClientRecv(m) ==
  /\ m \in net /\ m.to = 0 /\ path[m.path].inContext
  /\ net' = net \ {m}
  /\ jobs' = jobs \cup {m}
  /\ UNCHANGED <<path, stopped, hop, sending, committed, crashes>>

\* HandlePathConfirmMessage
HandlePathConfirmMessage(p) ==
  IF path[p].status = "Building"
  THEN /\ path' = [path EXCEPT ![p] = Tested([@ EXCEPT !.confirmed = TRUE, !.lastRecv = 0])]
       /\ SendLatencyMessages({p})
  ELSE UNCHANGED <<path, net>>

\* Only the record of the first hop is read.
AllSuccessFirst(frames) == frames[1] = "SUCCESS"

\* What the loop over the status records finds.
AllSuccess(frames) == Len(frames) = NumHops /\ \A i \in Hops : frames[i] = "SUCCESS"

\* Path::HandleLRSM, in a worker, and the call it leaves for the event loop.
HandleLRSM(m) ==
  /\ m \in jobs /\ m.type = "LRSM"
  /\ jobs' = jobs \ {m}
  /\ IF AllSuccess(m.frames) THEN HandlePathConfirmMessage(m.path)
     ELSE path' = [path EXCEPT ![m.path] = EnterState(@, "Failed")] /\ UNCHANGED net
  /\ UNCHANGED <<stopped, hop, sending, committed, crashes>>

\* Path::HandlePathLatencyMessage
HandlePathLatencyMessage(m) ==
  /\ m \in jobs /\ m.type = "Reply"
  /\ jobs' = jobs \ {m}
  /\ LET heard == [path[m.path] EXCEPT !.lastRecv = 0, !.testing = FALSE] IN
     path' = [path EXCEPT ![m.path] =
       IF path[m.path].testing THEN EnterState(heard, "Established") ELSE heard]
  /\ UNCHANGED <<stopped, hop, net, sending, committed, crashes>>

ShouldTest(x) == x.status = "Established" /\ x.lastTest > LatencyInterval /\ ~x.testing

\* A path is never given up for its silence.
PathTickDeaf(x) ==
  IF Expired(x) THEN x
  ELSE IF x.status = "Building" /\ x.age >= BuildTimeout THEN EnterState(x, "Expired")
  ELSE IF ShouldTest(x) THEN [Tested(x) EXCEPT !.fec = TRUE]
  ELSE x

\* Path::Tick
PathTick(x) ==
  IF Expired(x) THEN x
  ELSE IF x.status = "Building" /\ x.age >= BuildTimeout THEN EnterState(x, "Expired")
  ELSE IF ShouldTest(x) THEN [Tested(x) EXCEPT !.fec = TRUE]
  ELSE IF x.status = "Established" /\ x.lastRecv >= AliveTimeout THEN EnterState(x, "Timeout")
  ELSE x

\* The second latency test, two seconds after the first.
LatencyFEC(p) ==
  /\ Held(path[p]) /\ path[p].fec
  /\ path' = [path EXCEPT ![p] = [(IF @.testing THEN Tested(@) ELSE @) EXCEPT !.fec = FALSE]]
  /\ SendLatencyMessages({p} \cap {q \in PathIds : path[p].testing})
  /\ UNCHANGED <<stopped, hop, jobs, sending, committed, crashes>>

\* The context lets go of a path a tick late.
KeptByContextEarly(before, after) == ~Expired(before)

\* PathContext::ExpirePaths, for the client's own paths, after the builder has ticked.
KeptByContext(before, after) == ~Expired(after)

Unused == {p \in PathIds : path[p].status = "none"}

\* Router::Tick: Builder::Tick expires the paths of the set, builds, and ticks the others;
\* PathContext::ExpirePaths comes last.  Nothing can be seen of what workers and callbacks
\* do to a path that is in neither map.
ClientTick(building) ==
  LET set == {p \in PathIds : path[p].inSet /\ ~Expired(path[p])}
      after(p) == IF p \in set THEN PathTick(path[p]) ELSE path[p]
      new == CHOOSE p \in Unused : \A q \in Unused : p <= q
      inContext(p) == path[p].inContext /\ KeptByContext(path[p], after(p))
      gone == {p \in PathIds : Held(path[p]) /\ p \notin set /\ ~inContext(p)}
  IN
  /\ building => ShouldBuildMore(set) /\ Unused # {}
  /\ path' = [p \in PathIds |->
       IF building /\ p = new THEN NewPath
       ELSE IF p \in gone THEN GonePath
       ELSE [after(p) EXCEPT !.inSet = p \in set, !.inContext = inContext(p)]]
  /\ jobs' = {m \in jobs : m.path \notin gone}
  /\ sending' = {s \in sending : s \notin gone \X {0}}
  /\ SendLatencyMessages({p \in set : ShouldTest(path[p])})
  /\ UNCHANGED <<stopped, hop, committed, crashes>>

-----------------------------------------------------------------------------
(* The relays *)

Present(p, i) == hop[p][i] # NoHop
LRSM(p, i, frames) == Message("LRSM", p, i - 1, frames)

\* LRCMFrameDecrypt::SendLRCM: the relay may refuse, for the rate of the client or
\* because the next hop is not allowed; or it puts the hop and forwards.
SendLRCM(p, i) ==
  \/ /\ net' = (net \ {Message("LRCM", p, i, <<>>)}) \cup {LRSM(p, i, <<"FAIL">>)}
     /\ UNCHANGED <<hop, sending, committed>>
  \/ /\ net' = (net \ {Message("LRCM", p, i, <<>>)}) \cup {Message("LRCM", p, i + 1, <<>>)}
     /\ hop' = [hop EXCEPT ![p][i] = [age |-> 0, destroy |-> FALSE]]
     /\ committed' = [committed EXCEPT ![p] = @ \cup {i}]
     /\ sending' = sending \cup {<<p, i>>}

\* LRCMFrameDecrypt::SendPathConfirm, at the farthest hop.
SendPathConfirm(p, i) ==
  /\ net' = (net \ {Message("LRCM", p, i, <<>>)}) \cup {LRSM(p, i, <<"SUCCESS">>)}
  /\ hop' = [hop EXCEPT ![p][i] = [age |-> 0, destroy |-> FALSE]]
  /\ committed' = [committed EXCEPT ![p] = @ \cup {i}]
  /\ UNCHANGED sending

\* The farthest hop forwards the LRCM like the others.
HandleLRCMPastTheEnd(p, i) ==
  /\ Message("LRCM", p, i, <<>>) \in net
  /\ IF i > NumHops THEN SendPathConfirm(p, i) ELSE SendLRCM(p, i)
  /\ UNCHANGED <<path, stopped, jobs, crashes>>

\* HandleDecrypted.  A hop is never there already, for which both answer
\* FAIL_DUPLICATE_HOP: the link layer repeats no LRCM (AtMostOnce of IwpTransfer).
HandleLRCM(p, i) ==
  /\ Message("LRCM", p, i, <<>>) \in net
  /\ IF i = NumHops THEN SendPathConfirm(p, i) ELSE SendLRCM(p, i)
  /\ UNCHANGED <<path, stopped, jobs, crashes>>

\* OnForwardLRCMResult: a failure is reported down the path and the hop destroys itself,
\* whether or not the LRCM arrived.  Success changes nothing.
OnForwardLRCMResult(p, i) ==
  /\ <<p, i>> \in sending
  /\ sending' = sending \ {<<p, i>>}
  /\ net' = net \cup {LRSM(p, i, <<"FAIL">>)}
  /\ hop' = [hop EXCEPT ![p][i].destroy = Present(p, i)]
  /\ UNCHANGED <<path, stopped, jobs, committed, crashes>>

\* A relay passes a failure on and keeps its hop.
RelayLRSMKeeping(m) ==
  /\ m \in net /\ m.type = "LRSM" /\ m.to # 0 /\ Present(m.path, m.to)
  /\ net' = (net \ {m}) \cup {LRSM(m.path, m.to, <<"SUCCESS">> \o m.frames)}
  /\ UNCHANGED <<path, stopped, hop, jobs, sending, committed, crashes>>

\* TransitHop::HandleLRSM, and the worker that adds the relay's record: the LRSM is on
\* its way all the time.
RelayLRSM(m) ==
  /\ m \in net /\ m.type = "LRSM" /\ m.to # 0 /\ Present(m.path, m.to)
  /\ net' = (net \ {m}) \cup {LRSM(m.path, m.to, <<"SUCCESS">> \o m.frames)}
  /\ hop' = IF m.frames[Len(m.frames)] = "SUCCESS" THEN hop
            ELSE [hop EXCEPT ![m.path][m.to].destroy = TRUE]
  /\ UNCHANGED <<path, stopped, jobs, sending, committed, crashes>>

\* TransitHop::HandleAllUpstream, HandlePathLatencyMessage and HandleAllDownstream.
RelayTraffic(m) ==
  /\ m \in net /\ m.type \in {"Latency", "Reply"} /\ m.to # 0 /\ Present(m.path, m.to)
  /\ net' = (net \ {m}) \cup
       {IF m.type = "Reply" THEN Message("Reply", m.path, m.to - 1, <<>>)
        ELSE IF m.to = NumHops THEN Message("Reply", m.path, NumHops - 1, <<>>)
        ELSE Message("Latency", m.path, m.to + 1, <<>>)}
  /\ UNCHANGED <<path, stopped, hop, jobs, sending, committed, crashes>>

\* A relay lets a hop go one tick early.
HopExpiredEarly(h) == h.destroy \/ h.age >= Lifetime - 1

\* TransitHop::Expired
HopExpired(h) == h.destroy \/ h.age >= Lifetime

\* PathContext::ExpirePaths, at a relay.
RelayTick(i) ==
  /\ hop' = [p \in PathIds |-> [hop[p] EXCEPT ![i] = IF HopExpired(@) THEN NoHop ELSE @]]
  /\ UNCHANGED <<path, stopped, net, jobs, sending, committed, crashes>>

\* A relay restarts with nothing.
Crash(i) ==
  /\ crashes < MaxCrashes
  /\ crashes' = crashes + 1
  /\ hop' = [p \in PathIds |-> [hop[p] EXCEPT ![i] = NoHop]]
  /\ sending' = {s \in sending : s[2] # i}
  /\ UNCHANGED <<path, stopped, net, jobs, committed>>

-----------------------------------------------------------------------------
(* The environment *)

\* Routers tick every second and workers keep up: what is due is done in time.
NothingDue ==
  /\ \A p \in PathIds :
       /\ path[p].inSet => ~Expired(path[p]) /\ PathTick(path[p]) = path[p]
       /\ path[p].inContext => ~Expired(path[p])
       /\ Held(path[p]) => ~path[p].fec
       /\ \A i \in Hops : ~HopExpired(hop[p][i])
  /\ jobs = {}

\* A message that is not received in time is lost.  An LRCM may wait for a session, and
\* fail, for longer; once it has left, the link layer soon knows what became of it.
TimePasses ==
  /\ NothingDue
  /\ net' = {m \in net : m.type = "LRCM"}
  /\ path' = [p \in PathIds |->
       IF path[p] \in {NoPath, GonePath} THEN path[p]
       ELSE [path[p] EXCEPT !.age = Older(@, Lifetime), !.lastTest = Older(@, LatencyInterval + 1),
                            !.lastRecv = Older(@, ReanimationTimeout)]]
  /\ hop' = [p \in PathIds |-> [i \in Hops |->
       IF Present(p, i) THEN [hop[p][i] EXCEPT !.age = Older(@, Lifetime)] ELSE NoHop]]
  /\ sending' = {s \in sending : Message("LRCM", s[1], s[2] + 1, <<>>) \in net}
  /\ UNCHANGED <<stopped, jobs, committed, crashes>>

LocalStep ==
  \/ \E p \in PathIds : LatencyFEC(p)
  \/ \E m \in jobs : HandleLRSM(m) \/ HandlePathLatencyMessage(m)
  \/ ClientTick(FALSE)
  \/ \E i \in Hops : RelayTick(i)
  \/ TimePasses

Next ==
  \/ LocalStep
  \/ \E p \in PathIds :
       \/ PathBuilderKeysGenerated(p) \/ LRCMNotSent(p)
       \/ \E i \in Hops : HandleLRCM(p, i) \/ OnForwardLRCMResult(p, i)
  \/ \E m \in net : ClientRecv(m) \/ RelayLRSM(m) \/ RelayTraffic(m)
  \/ ClientTick(TRUE) \/ Stop
  \/ \E i \in Hops : Crash(i)

Spec == Init /\ [][Next]_vars

\* Clocks run, routers tick and workers finish; the network and the builder owe nothing.
FairSpec == Spec /\ WF_vars(LocalStep)

-----------------------------------------------------------------------------
(* Properties *)

\* The values the variables take.
PathsTypeOK ==
  /\ \A p \in PathIds :
       /\ path[p] \in {NoPath, GonePath} \/ path[p].status \in Statuses
       /\ path[p].inSet \in BOOLEAN /\ path[p].inContext \in BOOLEAN
       /\ committed[p] \subseteq Hops
       /\ \A i \in Hops : hop[p][i] = NoHop \/ hop[p][i] \in [age : 0 .. Lifetime, destroy : BOOLEAN]
  /\ \A m \in net \cup jobs :
       m.type \in {"LRCM", "LRSM", "Latency", "Reply"} /\ m.to \in 0 .. NumHops

\* A path is confirmed by a status message in which every hop reports success: a confirmed
\* path was committed by every relay, and none is established that was not confirmed.
ConfirmedIsCommitted ==
  \A p \in PathIds : Held(path[p]) =>
    /\ path[p].confirmed => committed[p] = Hops
    /\ path[p].status \in {"Established", "Timeout"} => path[p].confirmed

\* "destroy hop as needed" (relay_status.cpp): a status message that reports a failure has
\* marked every relay it came by, so that none keeps its transit hop for the full lifetime.
FailureReleasesHops ==
  \A m \in net \cup jobs :
    m.type = "LRSM" /\ m.frames[Len(m.frames)] = "FAIL" =>
      \A i \in m.to + 1 .. m.to + Len(m.frames) : HopExpired(hop[m.path][i]) \/ ~Present(m.path, i)

\* Router::Tick expires the paths of the context after the builder ticked: no message finds
\* a path whose build timed out, so only one that a worker already held can revive it.
TimedOutIsUnreachable ==
  \A p \in PathIds : path[p].status = "Expired" => ~path[p].inContext

\* A relay lets go of a hop for its age only when the client has given the path up: a path
\* ends at the client first.
ClientExpiresFirst ==
  [][\A p \in PathIds, i \in Hops :
       Present(p, i) /\ ~hop[p][i].destroy /\ ~Present(p, i)' /\ crashes' = crashes
         => ~IsReady(path[p])']_vars

\* A path that broke, for a hop that is gone or because its answers no longer find it, is
\* not used for long: one that is ready has been heard of within alive_timeout.
ReadyWasHeardOf ==
  \A p \in PathIds : path[p].inSet /\ IsReady(path[p]) => path[p].lastRecv <= AliveTimeout

\* Every path leaves both maps of the client and every transit hop its relay, whatever was
\* lost and whoever crashed.
EverythingIsReleased ==
  \A p \in PathIds :
    []<>~Held(path[p]) /\ \A i \in Hops : []<>~Present(p, i)
=============================================================================
