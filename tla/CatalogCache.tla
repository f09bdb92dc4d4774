---------------------------- MODULE CatalogCache ----------------------------
(***************************************************************************)
(* The in-memory catalog of one process: CatalogCache                      *)
(* (app/catalog/cache.py).  Threads refresh it to a version; one thread    *)
(* loads a version while others that want the same version wait for its    *)
(* event.  A refresher thread follows the active release on a timer and is *)
(* started and stopped by the application's lifespan.                      *)
(*                                                                         *)
(* The source of the bundles is CatalogHistory, which CatalogRelease       *)
(* implements.  Blocks under the cache's lock are one action each.         *)
(***************************************************************************)
EXTENDS Naturals, Sequences, FiniteSets

CONSTANTS
    Version, Document, NoVersion,  \* as in CatalogHistory
    Refresher,    \* threads that can run _auto_refresh_loop
    Caller,       \* other calls of refresh, as build_runtime makes one
    NoThread,     \* no thread is registered, or no load is in flight
    MaxFailures   \* bound on the failures of the source

ASSUME CacheAssumption ==
    /\ MaxFailures \in Nat
    /\ Refresher \cap Caller = {}
    /\ NoThread \notin Refresher \cup Caller

VARIABLES
    history,        \* the releases that were published (CatalogHistory)
    active,         \* _active: the bundle in use
    status,         \* _status
    loading,        \* _loading: who loads a version, and whose event waiters have
    pc,             \* what each thread does
    version,        \* the version it was told to refresh to
    awaited,        \* the loader whose event it waits for
    refreshThread,  \* _refresh_thread
    stopped,        \* _stop_refresh
    joining,        \* the thread stop_auto_refresh waits for
    failures        \* failures of the source so far

Source == INSTANCE CatalogHistory

threads   == <<pc, version, awaited>>
lifecycle == <<refreshThread, stopped, joining>>
vars == <<history, active, status, loading, threads, lifecycle, failures>>

-----------------------------------------------------------------------------
Thread == Refresher \cup Caller

NoBundle == <<>>
Bundle   == [version : Version, document : Document]

ActiveVersion == IF active = NoBundle THEN NoVersion ELSE active.version

Stage == {"dead", "timer", "idle", "enter", "load", "wait", "woken", "returned"}

Init ==
    /\ history = <<>>
    /\ active = NoBundle
    /\ status = [freshness |-> "EMPTY", version |-> NoVersion, error |-> FALSE]
    /\ loading = [v \in Version |-> NoThread]
    /\ pc = [t \in Thread |-> IF t \in Refresher THEN "dead" ELSE "idle"]
    /\ version = [t \in Thread |-> NoVersion]
    /\ awaited = [t \in Thread |-> NoThread]
    /\ refreshThread = NoThread
    /\ stopped = FALSE
    /\ joining = NoThread
    /\ failures = 0

-----------------------------------------------------------------------------
Goto(t, stage) == pc' = [pc EXCEPT ![t] = stage]

\* A refresher waits for its next interval, a call returns.
Rest(t) == IF t \in Refresher THEN "timer" ELSE "returned"

\* Mutation: every failure counts as degraded service.
RecordFailureAsDegraded ==
    /\ status' = [freshness |-> "DEGRADED", version |-> ActiveVersion, error |-> TRUE]
    /\ UNCHANGED active

\* Mutation: a failed refresh drops the bundle in use.
RecordFailureAndDrop ==
    /\ active' = NoBundle
    /\ status' = [freshness |-> "EMPTY", version |-> NoVersion, error |-> TRUE]

\* The status after a failure: degraded while there is a last good bundle.
RecordFailure ==
    /\ status' = [freshness |-> IF active = NoBundle THEN "EMPTY" ELSE "DEGRADED",
                  version   |-> ActiveVersion,
                  error     |-> TRUE]
    /\ UNCHANGED active

SourceMayFail == failures < MaxFailures /\ failures' = failures + 1

-----------------------------------------------------------------------------
(* The environment: another process publishes a release.                   *)
PublishRelease ==
    /\ Source!Next
    /\ UNCHANGED <<active, status, loading, threads, lifecycle, failures>>

-----------------------------------------------------------------------------
(* refresh_active, called by the refresher when its interval ends.         *)
ReadActiveVersion(t) ==
    /\ pc[t] = "timer"
    /\ ~ stopped
    /\ Source!Pointer # NoVersion
    /\ version' = [version EXCEPT ![t] = Source!Pointer]
    /\ Goto(t, "enter")
    /\ UNCHANGED <<history, active, status, loading, awaited, lifecycle, failures>>

\* active_version raises, or there is no active release.
ActiveVersionFails(t) ==
    /\ pc[t] = "timer"
    /\ ~ stopped
    /\ \/ SourceMayFail
       \/ Source!Pointer = NoVersion /\ UNCHANGED failures
    /\ RecordFailure
    /\ UNCHANGED <<history, loading, threads, lifecycle>>

\* refresh(version) is called directly; the version comes from a setting.
CallRefresh(t, v) ==
    /\ pc[t] = "idle"
    /\ version' = [version EXCEPT ![t] = v]
    /\ Goto(t, "enter")
    /\ UNCHANGED <<history, active, status, loading, awaited, lifecycle, failures>>

\* Mutation: any bundle counts as a hit.
LoadedOnce(t) == active # NoBundle

IsActive(t) == active # NoBundle /\ active.version = version[t]

\* Mutation: the table of loads in flight is not consulted.
EnterAlone(t) ==
    /\ pc[t] = "enter"
    /\ loading' = [loading EXCEPT ![version[t]] = t]
    /\ Goto(t, "load")
    /\ UNCHANGED <<history, active, status, version, awaited, lifecycle, failures>>

\* The first block under the lock: a hit, the loader, or one more waiter.
Enter(t) ==
    /\ pc[t] = "enter"
    /\ \/ /\ IsActive(t)
          /\ status' = [freshness |-> "READY", version |-> version[t], error |-> FALSE]
          /\ Goto(t, Rest(t))
          /\ UNCHANGED <<loading, awaited>>
       \/ /\ ~ IsActive(t)
          /\ loading[version[t]] = NoThread
          /\ loading' = [loading EXCEPT ![version[t]] = t]
          /\ Goto(t, "load")
          /\ UNCHANGED <<status, awaited>>
       \/ /\ ~ IsActive(t)
          /\ loading[version[t]] # NoThread
          /\ awaited' = [awaited EXCEPT ![t] = loading[version[t]]]
          /\ Goto(t, "wait")
          /\ UNCHANGED <<status, loading>>
    /\ UNCHANGED <<history, active, version, lifecycle, failures>>

\* Mutation: the loader leaves without event.set().
FinishLoadSilently(t) ==
    /\ loading' = [loading EXCEPT ![version[t]] = NoThread]
    /\ Goto(t, Rest(t))
    /\ UNCHANGED awaited

\* The loader leaves the table and sets its event.
FinishLoad(t) ==
    /\ loading' = [loading EXCEPT ![version[t]] = NoThread]
    /\ pc' = [u \in Thread |->
                IF u = t THEN Rest(t)
                ELSE IF pc[u] = "wait" /\ awaited[u] = t THEN "woken"
                ELSE pc[u]]
    /\ awaited' = [u \in Thread |-> IF awaited[u] = t THEN NoThread ELSE awaited[u]]

\* source.load returns the bundle of the version, and it becomes the active one.
LoadSucceeds(t) ==
    /\ pc[t] = "load"
    /\ \E i \in DOMAIN history :
          /\ history[i].version = version[t]
          /\ active' = [version  |-> history[i].version,
                        document |-> history[i].document]
    /\ status' = [freshness |-> "READY", version |-> version[t], error |-> FALSE]
    /\ FinishLoad(t)
    /\ UNCHANGED <<history, version, lifecycle, failures>>

\* source.load raises: the version does not exist, or the source is down.
LoadFails(t) ==
    /\ pc[t] = "load"
    /\ \/ SourceMayFail
       \/ version[t] \notin Source!Published /\ UNCHANGED failures
    /\ RecordFailure
    /\ FinishLoad(t)
    /\ UNCHANGED <<history, version, lifecycle>>

\* event.wait() returned; the waiter reports what it finds and leaves.
ReturnFromWait(t) ==
    /\ pc[t] = "woken"
    /\ Goto(t, Rest(t))
    /\ UNCHANGED <<history, active, status, loading, version, awaited, lifecycle, failures>>

-----------------------------------------------------------------------------
(* start_auto_refresh and stop_auto_refresh, called one after the other.   *)
StartAutoRefresh(t) ==
    /\ joining = NoThread
    /\ refreshThread = NoThread
    /\ pc[t] = "dead"
    /\ stopped' = FALSE
    /\ refreshThread' = t
    /\ Goto(t, "timer")
    /\ UNCHANGED <<history, active, status, loading, version, awaited, joining, failures>>

StopAutoRefresh ==
    /\ joining = NoThread
    /\ refreshThread # NoThread
    /\ refreshThread' = NoThread
    /\ stopped' = TRUE
    /\ joining' = refreshThread
    /\ UNCHANGED <<history, active, status, loading, threads, failures>>

\* thread.join(timeout=2.0): the thread has ended, or it is in a slow refresh.
JoinReturns ==
    /\ joining # NoThread
    /\ pc[joining] # "timer"
    /\ joining' = NoThread
    /\ UNCHANGED <<history, active, status, loading, threads, refreshThread, stopped, failures>>

\* _stop_refresh.wait() returns True: the loop ends.
LeaveLoop(t) ==
    /\ pc[t] = "timer"
    /\ stopped
    /\ Goto(t, "dead")
    /\ UNCHANGED <<history, active, status, loading, version, awaited, lifecycle, failures>>

-----------------------------------------------------------------------------
ThreadStep(t) ==
    \/ ReadActiveVersion(t)
    \/ ActiveVersionFails(t)
    \/ Enter(t)
    \/ LoadSucceeds(t)
    \/ LoadFails(t)
    \/ ReturnFromWait(t)
    \/ LeaveLoop(t)

Next ==
    \/ PublishRelease
    \/ \E t \in Thread : ThreadStep(t)
    \/ \E t \in Caller, v \in Version : CallRefresh(t, v)
    \/ \E t \in Refresher : StartAutoRefresh(t)
    \/ StopAutoRefresh
    \/ JoinReturns

Spec == Init /\ [][Next]_vars

\* Threads run, intervals end, loads return or raise, joins time out.
\* Publishing, starting and stopping are up to others.
FairSpec ==
    /\ Spec
    /\ \A t \in Thread : WF_vars(ThreadStep(t))
    /\ WF_vars(JoinReturns)

-----------------------------------------------------------------------------
TypeOK ==
    /\ history \in Seq([version  : Version, document : Document,
                        previous : Version \cup {NoVersion}])
    /\ active \in Bundle \cup {NoBundle}
    /\ status \in [freshness : {"EMPTY", "READY", "DEGRADED"},
                   version : Version \cup {NoVersion}, error : BOOLEAN]
    /\ loading \in [Version -> Thread \cup {NoThread}]
    /\ pc \in [Thread -> Stage]
    /\ \A t \in Thread : pc[t] \in {"dead", "timer"} => t \in Refresher
    /\ \A t \in Thread : pc[t] \in {"idle", "returned"} => t \in Caller
    /\ version \in [Thread -> Version \cup {NoVersion}]
    /\ awaited \in [Thread -> Thread \cup {NoThread}]
    /\ refreshThread \in Refresher \cup {NoThread}
    /\ joining \in Refresher \cup {NoThread}
    /\ failures \in 0..MaxFailures

(***************************************************************************)
(* GET /health tells the truth about the bundle that answers questions:    *)
(* the status names the active version, it is EMPTY exactly when there is  *)
(* none, and READY never hides a failure.                                  *)
(***************************************************************************)
StatusIsTruthful ==
    /\ status.version = ActiveVersion
    /\ status.freshness = "EMPTY" <=> active = NoBundle
    /\ status.freshness = "READY" <=> active # NoBundle /\ ~ status.error

(***************************************************************************)
(* Single flight: no version is loaded by two threads at a time, and a     *)
(* thread waits only for a thread that is loading the version it wants, so *)
(* its event will be set.                                                  *)
(***************************************************************************)
SingleFlight ==
    /\ \A t, u \in Thread :
          (pc[t] = "load" /\ pc[u] = "load" /\ version[t] = version[u]) => t = u
    /\ \A t \in Thread : pc[t] = "wait" =>
          /\ pc[awaited[t]] = "load"
          /\ version[awaited[t]] = version[t]

(***************************************************************************)
(* Last good: once there is a bundle, no failure takes it away, and every  *)
(* bundle that becomes active is exactly a published one.                  *)
(***************************************************************************)
LastGoodIsKept ==
    [][/\ active # NoBundle => active' # NoBundle
       /\ active' # active =>
             \E i \in DOMAIN history : /\ history[i].version = active'.version
                                       /\ history[i].document = active'.document]_vars

\* A thread that waits for another one's load goes on.
WaitersWake == \A t \in Thread : pc[t] = "wait" ~> pc[t] # "wait"

(***************************************************************************)
(* Eventual freshness: while the refresher is on for good, the bundle in   *)
(* use ends up being the newest release, whatever stale loads, failures    *)
(* and left-over refresher threads did before.                             *)
(***************************************************************************)
CacheCatchesUp ==
    <>[](refreshThread # NoThread) => <>[](ActiveVersion = Source!Pointer)
=============================================================================
