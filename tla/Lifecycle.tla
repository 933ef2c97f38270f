----------------------------- MODULE Lifecycle -----------------------------
(***************************************************************************)
(* Starting and stopping one replica: the goroutine in Start               *)
(* (coordinator.start), the discovery loop (run, reconcile, tryAcquire,    *)
(* startPoller), the pollers, and the goroutine in Shutdown (drainAndStop, *)
(* wait), which share the coordinator under c.mu and count goroutines in   *)
(* c.wg.  Shutdown may come at any time after Start has installed r.coord  *)
(* and r.cancel, or has failed before; coming earlier than that is a       *)
(* disturbance, because nothing but the collector rules it out.            *)
(* One action is one critical section, or one step between two of them.    *)
(***************************************************************************)
EXTENDS Integers, FiniteSets

CONSTANTS Shards,
          NoShard,
          Budget        \* bound: how often each disturbance happens

Disturbances == {"lost",     \* an Acquire whose answer is lost, a failed Release
                 "wedged",   \* a downstream consumer that ignores cancellation
                 "early"}    \* Shutdown while Start builds its clients

ASSUME NoShardAssumption == NoShard \notin Shards
ASSUME ShardsAssumption == IsFiniteSet(Shards)
ASSUME BudgetAssumption == Budget \in [Disturbances -> Nat]

VARIABLES start,        \* where Start, and coordinator.start, is
          runner,       \* where the discovery loop is
          taking,       \* the lease tryAcquire just got, not yet installed
          poller,       \* the poller of each shard
          active,       \* c.active
          drain,        \* pollers whose drainCh is closed
          wedged,       \* pollers stuck in Consume for good
          owned,        \* rows that name this replica
          wg,           \* c.wg
          stopped,      \* c.stopped
          noDiscovery,  \* the discovery context is done
          cancelled,    \* baseCtx and killCtx are done
          shutdown,     \* where Shutdown is
          snapshot,     \* pollers drainAndStop has still to drain
          budget

coord == <<start, runner, taking, poller, active>>
contexts == <<stopped, noDiscovery, cancelled>>
closing == <<shutdown, snapshot>>
vars == <<coord, drain, wedged, owned, wg, contexts, closing, budget>>

\* "installed": in c.active, goroutine not started; "released": p.run returned,
\* still in c.active.
PollerStates == {"none", "installed", "running", "released"}

TypeOK ==
  /\ start \in {"setup", "unbuilt", "begin", "discover", "recheck", "started",
                "aborted", "failed"}
  /\ runner \in {"none", "begin", "pass", "install", "go", "release", "idle",
                 "exited"}
  /\ taking \in Shards \cup {NoShard}
  /\ poller \in [Shards -> PollerStates]
  /\ active = {s \in Shards : poller[s] # "none"}
  /\ drain \subseteq Shards /\ wedged \subseteq Shards /\ owned \subseteq Shards
  /\ wg \in 0..(1 + Cardinality(Shards))
  /\ <<stopped, noDiscovery, cancelled>> \in BOOLEAN \X BOOLEAN \X BOOLEAN
  /\ shutdown \in {"none", "stop", "drain", "wait", "grace", "clean",
                   "expired"}
  /\ snapshot \subseteq Shards
  /\ budget \in [Disturbances -> Nat]

Init ==
  /\ start = "setup" /\ runner = "none" /\ taking = NoShard
  /\ poller = [s \in Shards |-> "none"]
  /\ active = {} /\ drain = {} /\ wedged = {} /\ owned = {} /\ wg = 0
  /\ stopped = FALSE /\ noDiscovery = FALSE /\ cancelled = FALSE
  /\ shutdown = "none" /\ snapshot = {}
  /\ budget = Budget

Spend(kind) ==
  /\ budget[kind] > 0
  /\ budget' = [budget EXCEPT ![kind] = @ - 1]

SetPoller(s, state) == poller' = [poller EXCEPT ![s] = state]

-----------------------------------------------------------------------------
(***************************************************************************)
(* Start, and coordinator.start                                            *)
(***************************************************************************)
\* The client, the compressor, the store and the worker id are made, and
\* r.coord and r.cancel installed; or one of them fails, with r.coord left nil.
SetUp ==
  /\ start = "setup"
  /\ start' \in {"begin", "unbuilt"}
  /\ UNCHANGED <<runner, taking, poller, active, drain, wedged, owned, wg,
                 contexts, closing, budget>>

\* baseCtx and stopDiscovery are published, unless Shutdown came first.
StartBegins ==
  /\ start = "begin"
  /\ start' = IF stopped THEN "aborted" ELSE "discover"
  /\ UNCHANGED <<runner, taking, poller, active, drain, wedged, owned, wg,
                 contexts, closing, budget>>

\* discoverShards, on the network; an error makes Start cancel everything.
StartDiscovers ==
  /\ start = "discover"
  /\ \/ start' = "recheck" /\ UNCHANGED <<noDiscovery, cancelled>>
     \/ start' = "failed" /\ noDiscovery' = TRUE /\ cancelled' = TRUE
  /\ UNCHANGED <<runner, taking, poller, active, drain, wedged, owned, wg,
                 stopped, closing, budget>>

\* Mutant: stopped is not checked again after discovery.
StartSpawnsUnchecked ==
  /\ start = "recheck"
  /\ start' = "started" /\ runner' = "begin" /\ wg' = wg + 1
  /\ UNCHANGED <<taking, poller, active, drain, wedged, owned, contexts,
                 closing, budget>>

\* Mutant: the discovery loop is not counted.
StartSpawnsUncounted ==
  /\ start = "recheck"
  /\ start' = "started" /\ runner' = "begin"
  /\ UNCHANGED <<taking, poller, active, drain, wedged, owned, wg, contexts,
                 closing, budget>>

\* The second check of stopped, then the discovery loop.
StartSpawns ==
  /\ start = "recheck"
  /\ IF stopped
       THEN start' = "aborted" /\ UNCHANGED <<runner, wg>>
       ELSE start' = "started" /\ runner' = "begin" /\ wg' = wg + 1
  /\ UNCHANGED <<taking, poller, active, drain, wedged, owned, contexts,
                 closing, budget>>

-----------------------------------------------------------------------------
(***************************************************************************)
(* run, with the part of reconcile that starts and stops pollers.          *)
(***************************************************************************)
\* The context is checked before the first pass and between passes.
RunChecks ==
  /\ runner \in {"begin", "idle"}
  /\ \/ noDiscovery /\ runner' = "exited" /\ wg' = wg - 1
     \/ /\ runner = "begin" => ~noDiscovery
        /\ runner' = "pass" /\ UNCHANGED wg
  /\ UNCHANGED <<start, taking, poller, active, drain, wedged, owned, contexts,
                 closing, budget>>

PassEnds ==
  /\ runner = "pass"
  /\ runner' = "idle"
  /\ UNCHANGED <<start, taking, poller, active, drain, wedged, owned, wg,
                 contexts, closing, budget>>

\* releasePoller.
ReleasePoller(s) ==
  /\ runner = "pass" /\ s \in active
  /\ drain' = drain \cup {s}
  /\ UNCHANGED <<coord, wedged, owned, wg, contexts, closing, budget>>

\* tryAcquire gets the lease, or loses the answer.  Nothing keeps an Acquire
\* that is on its way from succeeding after the context is done.
TryAcquire(s) ==
  /\ runner = "pass" /\ s \notin active
  /\ owned' = owned \cup {s}
  /\ \/ runner' = "install" /\ taking' = s /\ UNCHANGED budget
     \/ Spend("lost") /\ UNCHANGED <<runner, taking>>
  /\ UNCHANGED <<start, poller, active, drain, wedged, wg, contexts, closing>>

\* Mutant: stopped is not checked.
InstallIgnoresStopped ==
  /\ runner = "install"
  /\ active' = active \cup {taking} /\ SetPoller(taking, "installed")
  /\ drain' = drain \ {taking}
  /\ runner' = "go" /\ UNCHANGED taking
  /\ UNCHANGED <<start, wedged, owned, wg, contexts, closing, budget>>

\* Mutant: the lease of a poller that is not started is kept.
InstallKeepsLease ==
  /\ runner = "install"
  /\ IF stopped
       THEN /\ runner' = "pass" /\ taking' = NoShard
            /\ UNCHANGED <<active, poller, drain>>
       ELSE /\ active' = active \cup {taking} /\ SetPoller(taking, "installed")
            /\ drain' = drain \ {taking}
            /\ runner' = "go" /\ UNCHANGED taking
  /\ UNCHANGED <<start, wedged, owned, wg, contexts, closing, budget>>

\* startPoller up to the unlock: the new poller has a drainCh of its own.
Install ==
  /\ runner = "install"
  /\ IF stopped
       THEN runner' = "release" /\ UNCHANGED <<active, poller, drain>>
       ELSE /\ active' = active \cup {taking} /\ SetPoller(taking, "installed")
            /\ drain' = drain \ {taking}
            /\ runner' = "go"
  /\ UNCHANGED <<start, taking, wedged, owned, wg, contexts, closing, budget>>

\* startPoller: wg.Add and the goroutine, after the unlock.
GoPoller ==
  /\ runner = "go"
  /\ SetPoller(taking, "running") /\ wg' = wg + 1
  /\ runner' = "pass" /\ taking' = NoShard
  /\ UNCHANGED <<start, active, drain, wedged, owned, contexts, closing,
                 budget>>

\* A Release of s under the exit context, which may fail.
ReleaseRow(s) ==
  \/ owned' = owned \ {s} /\ UNCHANGED budget
  \/ cancelled /\ UNCHANGED <<owned, budget>>
  \/ Spend("lost") /\ UNCHANGED owned

\* startPoller when Shutdown came between the Acquire and the install.
ReleaseRaced ==
  /\ runner = "release"
  /\ ReleaseRow(taking)
  /\ runner' = "pass" /\ taking' = NoShard
  /\ UNCHANGED <<start, poller, active, drain, wedged, wg, contexts, closing>>

-----------------------------------------------------------------------------
(***************************************************************************)
(* Pollers: run, then the deferred functions of startPoller.               *)
(***************************************************************************)
Wedge(s) ==
  /\ poller[s] = "running" /\ s \notin wedged
  /\ Spend("wedged")
  /\ wedged' = wedged \cup {s}
  /\ UNCHANGED <<coord, drain, owned, wg, contexts, closing>>

\* p.run returns: drained, cancelled, finished, or without its lease.
PollerReleases(s) ==
  /\ poller[s] = "running" /\ s \notin wedged
  /\ ReleaseRow(s)
  /\ SetPoller(s, "released")
  /\ UNCHANGED <<start, runner, taking, active, drain, wedged, wg, contexts,
                 closing>>

\* The slot in c.active is cleared, and wg.Done follows.
PollerClears(s) ==
  /\ poller[s] = "released"
  /\ active' = active \ {s} /\ SetPoller(s, "none") /\ wg' = wg - 1
  /\ UNCHANGED <<start, runner, taking, drain, wedged, owned, contexts,
                 closing, budget>>

-----------------------------------------------------------------------------
(***************************************************************************)
(* Shutdown                                                                *)
(***************************************************************************)
\* Mutant: r.coord is assigned after coordinator.start has returned.
ShutdownBeforeStarted ==
  /\ shutdown = "none"
  /\ \/ start \in {"unbuilt", "begin", "discover", "recheck"} /\ UNCHANGED budget
     \/ start = "setup" /\ Spend("early")
  /\ shutdown' = "clean"
  /\ UNCHANGED <<coord, drain, wedged, owned, wg, contexts, snapshot>>

\* r.coord is nil: there is nothing to stop.
ShutdownUnbuilt ==
  /\ shutdown = "none"
  /\ \/ start = "unbuilt" /\ UNCHANGED budget
     \/ start = "setup" /\ Spend("early")
  /\ shutdown' = "clean"
  /\ UNCHANGED <<coord, drain, wedged, owned, wg, contexts, snapshot>>

\* drainAndStop under the lock.
DrainAndStop ==
  /\ shutdown = "none" /\ start \notin {"setup", "unbuilt"}
  /\ stopped' = TRUE
  /\ snapshot' = active
  /\ shutdown' = "stop"
  /\ UNCHANGED <<coord, drain, wedged, owned, wg, noDiscovery, cancelled,
                 budget>>

\* stop(), if start has published it.
StopDiscovery ==
  /\ shutdown = "stop"
  /\ noDiscovery' = (noDiscovery \/ start \in {"discover", "recheck",
                                               "started"})
  /\ shutdown' = "drain"
  /\ UNCHANGED <<coord, drain, wedged, owned, wg, stopped, cancelled, snapshot,
                 budget>>

DrainOne(s) ==
  /\ shutdown = "drain" /\ s \in snapshot
  /\ drain' = drain \cup {s}
  /\ snapshot' = snapshot \ {s}
  /\ UNCHANGED <<coord, wedged, owned, wg, contexts, shutdown, budget>>

WaitBegins ==
  /\ shutdown = "drain" /\ snapshot = {}
  /\ shutdown' = "wait"
  /\ UNCHANGED <<coord, drain, wedged, owned, wg, contexts, snapshot, budget>>

\* wait() returns in time.
WaitEnds ==
  /\ shutdown = "wait" /\ wg = 0
  /\ shutdown' = "clean" /\ noDiscovery' = TRUE /\ cancelled' = TRUE
  /\ UNCHANGED <<coord, drain, wedged, owned, wg, stopped, snapshot, budget>>

\* The collector's deadline comes first.
Deadline ==
  /\ shutdown = "wait"
  /\ shutdown' = "grace" /\ noDiscovery' = TRUE /\ cancelled' = TRUE
  /\ UNCHANGED <<coord, drain, wedged, owned, wg, stopped, snapshot, budget>>

\* Mutant: the join is not bounded.
GraceWaits ==
  /\ shutdown = "grace" /\ wg = 0
  /\ shutdown' = "expired"
  /\ UNCHANGED <<coord, drain, wedged, owned, wg, contexts, snapshot, budget>>

\* shutdownLeakGrace passes, or everything has stopped before.
GraceEnds ==
  /\ shutdown = "grace"
  /\ shutdown' = "expired"
  /\ UNCHANGED <<coord, drain, wedged, owned, wg, contexts, snapshot, budget>>

-----------------------------------------------------------------------------
StartStep == SetUp \/ StartBegins \/ StartDiscovers \/ StartSpawns
RunStep == \/ RunChecks \/ PassEnds \/ Install \/ GoPoller \/ ReleaseRaced
           \/ \E s \in Shards : ReleasePoller(s) \/ TryAcquire(s)
PollerStep(s) == PollerReleases(s) \/ PollerClears(s)
Closing == \/ StopDiscovery \/ WaitBegins \/ WaitEnds \/ Deadline \/ GraceEnds
           \/ \E s \in Shards : DrainOne(s)

Next == \/ StartStep \/ RunStep \/ ShutdownUnbuilt \/ DrainAndStop \/ Closing
        \/ \E s \in Shards : PollerStep(s) \/ Wedge(s)

Spec == Init /\ [][Next]_vars

\* The goroutines are scheduled, discovery calls return, pollers notice a
\* cancelled context unless they are wedged, and deadlines pass.  Shutdown need
\* not be called.
FairSpec ==
  /\ Spec
  /\ WF_vars(StartStep) /\ WF_vars(RunStep) /\ WF_vars(Closing)
  /\ \A s \in Shards : WF_vars((cancelled \/ s \in drain) /\ PollerStep(s))

-----------------------------------------------------------------------------
Quiet == runner \in {"none", "exited"} /\ \A s \in Shards : poller[s] = "none"

Never(kind) == budget[kind] = Budget[kind]

\* When Shutdown reports success nothing of the replica runs, and nothing of it
\* starts any more, whatever Start and the discovery loop were in the middle
\* of (start's second check, startPoller's check of stopped), unless Shutdown
\* was called before Start had anything to show.
CleanMeansStopped == shutdown = "clean" /\ Never("early") => Quiet

\* When Shutdown reports success and no store call failed, no row names the
\* replica, so that peers need not wait out lease_duration.
CleanMeansReleased ==
  shutdown = "clean" /\ Never("early") /\ Never("lost") => owned = {}

\* Once drainAndStop is through, every poller has been asked to drain, also
\* one that was being installed: none is left running until the deadline.
EveryoneAsked ==
  shutdown = "wait" =>
    \A s \in Shards : poller[s] \in {"installed", "running"} => s \in drain

\* wg.Add never races a wait() at counter zero (start, startPoller).
NoAddAtZero == [][wg' > wg /\ shutdown \in {"wait", "grace"} => wg > 0]_vars

\* Shutdown returns, also when a downstream consumer never does.
ShutdownReturns ==
  (shutdown = "stop") ~> (shutdown \in {"clean", "expired"})
=============================================================================
