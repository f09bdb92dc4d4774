-------------------------- MODULE CatalogCacheProofs --------------------------
(***************************************************************************)
(* Single flight, the last good bundle and a truthful status, for any      *)
(* number of threads, versions and releases.                               *)
(***************************************************************************)
EXTENDS CatalogCache, TLAPS

-----------------------------------------------------------------------------
(* The inductive invariant.                                                *)

Busy == {"enter", "load", "wait", "woken"}

\* A thread in refresh() has a version to load.
RefreshesHaveAVersion == \A t \in Thread : pc[t] \in Busy => version[t] \in Version

\* The table of loads in flight is exact: it names the loaders and no others.
TableNamesLoaders ==
    \A v \in Version, t \in Thread :
        loading[v] = t <=> pc[t] = "load" /\ version[t] = v

\* The event a thread waits for is the one in the table.
WaitersAreInTheTable ==
    \A t \in Thread : pc[t] = "wait" =>
        loading[version[t]] # NoThread /\ awaited[t] = loading[version[t]]

CacheInv ==
    /\ TypeOK
    /\ RefreshesHaveAVersion
    /\ TableNamesLoaders
    /\ WaitersAreInTheTable
    /\ StatusIsTruthful

Publication == [version  : Version, document : Document,
                previous : Version \cup {NoVersion}]

ThreadTypeOK ==
    /\ loading \in [Version -> Thread \cup {NoThread}]
    /\ pc \in [Thread -> Stage]
    /\ \A t \in Thread : pc[t] \in {"dead", "timer"} => t \in Refresher
    /\ \A t \in Thread : pc[t] \in {"idle", "returned"} => t \in Caller
    /\ version \in [Thread -> Version \cup {NoVersion}]
    /\ awaited \in [Thread -> Thread \cup {NoThread}]

Flights == RefreshesHaveAVersion /\ TableNamesLoaders /\ WaitersAreInTheTable

-----------------------------------------------------------------------------
LEMMA BundleIsABundle == \A b \in Bundle : b # NoBundle
<1> SUFFICES ASSUME NEW b \in Bundle PROVE b # NoBundle
  OBVIOUS
<1>1. "version" \in DOMAIN b
  BY DEF Bundle
<1>2. DOMAIN NoBundle = {}
  BY DEF NoBundle
<1> QED
  BY <1>1, <1>2

LEMMA InitialInv == Init => CacheInv
<1> SUFFICES ASSUME Init PROVE CacheInv
  OBVIOUS
<1>1. TypeOK
  BY CacheAssumption DEF Init, TypeOK, Thread, Stage
<1>2. RefreshesHaveAVersion /\ WaitersAreInTheTable
  BY DEF Init, RefreshesHaveAVersion, WaitersAreInTheTable, Busy
<1>3. TableNamesLoaders
  BY CacheAssumption DEF Init, TableNamesLoaders, Thread
<1>4. StatusIsTruthful
  BY DEF Init, StatusIsTruthful, ActiveVersion
<1> QED
  BY <1>1, <1>2, <1>3, <1>4 DEF CacheInv

-----------------------------------------------------------------------------
(* What the steps do to the table of loads.                                *)

\* A thread that neither loads nor waits goes on to do something else.
LEMMA MoveKeepsFlights ==
    ASSUME CacheInv, NEW t \in Thread, NEW stage \in Stage \ {"load", "wait"},
           pc[t] \notin {"load", "wait"}, Goto(t, stage),
           UNCHANGED <<loading, awaited>>,
           version' \in [Thread -> Version \cup {NoVersion}],
           \A u \in Thread \ {t} : version'[u] = version[u],
           stage \in Busy => version'[t] \in Version,
           stage \in {"dead", "timer"} => t \in Refresher,
           stage \in {"idle", "returned"} => t \in Caller
    PROVE  ThreadTypeOK' /\ Flights'
<1>1. /\ pc' \in [Thread -> Stage] /\ pc'[t] = stage
      /\ \A u \in Thread \ {t} : pc'[u] = pc[u]
  BY DEF CacheInv, TypeOK, Goto
<1>2. ThreadTypeOK'
  BY <1>1 DEF CacheInv, TypeOK, ThreadTypeOK
<1>3. RefreshesHaveAVersion'
  BY <1>1 DEF CacheInv, RefreshesHaveAVersion
<1>4. TableNamesLoaders'
  BY <1>1 DEF CacheInv, TableNamesLoaders
<1>5. WaitersAreInTheTable'
  BY <1>1 DEF CacheInv, WaitersAreInTheTable
<1> QED
  BY <1>2, <1>3, <1>4, <1>5 DEF Flights

\* The loader of a version takes its entry from the table, and with it goes
\* every thread that waits for it.
LEMMA FinishKeepsFlights ==
    ASSUME CacheInv, NEW t \in Thread, pc[t] = "load", FinishLoad(t), version' = version
    PROVE  ThreadTypeOK' /\ Flights'
<1> DEFINE v == version[t]
<1>1. v \in Version /\ loading[v] = t
  BY DEF CacheInv, RefreshesHaveAVersion, TableNamesLoaders, Busy
<1>2. /\ pc' \in [Thread -> Stage]
      /\ pc'[t] = Rest(t)
      /\ \A u \in Thread \ {t} : pc'[u] = IF pc[u] = "wait" /\ awaited[u] = t
                                          THEN "woken" ELSE pc[u]
  BY DEF CacheInv, TypeOK, FinishLoad, Stage, Rest
<1>3. /\ loading' \in [Version -> Thread \cup {NoThread}]
      /\ loading'[v] = NoThread
      /\ \A u \in Version \ {v} : loading'[u] = loading[u]
  BY <1>1 DEF CacheInv, TypeOK, FinishLoad
<1>4. /\ awaited' \in [Thread -> Thread \cup {NoThread}]
      /\ \A u \in Thread : awaited[u] # t => awaited'[u] = awaited[u]
  BY DEF CacheInv, TypeOK, FinishLoad
<1>5. /\ Rest(t) \in {"timer", "returned"}
      /\ Rest(t) = "timer" <=> t \in Refresher
  BY DEF Rest
<1>6. ThreadTypeOK'
  BY <1>2, <1>3, <1>4, <1>5 DEF CacheInv, TypeOK, ThreadTypeOK, Thread
<1>7. RefreshesHaveAVersion'
  BY <1>2, <1>5 DEF CacheInv, RefreshesHaveAVersion, Busy
<1>8. TableNamesLoaders'
  <2> SUFFICES ASSUME NEW w \in Version, NEW u \in Thread
               PROVE  loading'[w] = u <=> pc'[u] = "load" /\ version[u] = w
    BY DEF TableNamesLoaders
  <2>1. loading[w] = u <=> pc[u] = "load" /\ version[u] = w
    BY DEF CacheInv, TableNamesLoaders
  <2>2. CASE u = t
    BY <1>2, <1>3, <1>5, <2>1, <2>2, CacheAssumption DEF Thread
  <2>3. CASE u # t
    <3>1. pc'[u] = "load" <=> pc[u] = "load"
      BY <1>2, <2>3
    <3>2. CASE w = v
      BY <1>1, <1>3, <2>1, <2>3, <3>1, <3>2, CacheAssumption DEF Thread
    <3>3. CASE w # v
      BY <1>3, <2>1, <3>1, <3>3
    <3> QED
      BY <3>2, <3>3
  <2> QED
    BY <2>2, <2>3
<1>9. WaitersAreInTheTable'
  <2> SUFFICES ASSUME NEW u \in Thread, pc'[u] = "wait"
               PROVE  loading'[version[u]] # NoThread /\ awaited'[u] = loading'[version[u]]
    BY DEF WaitersAreInTheTable
  <2>1. u # t /\ pc[u] = "wait" /\ awaited[u] # t
    BY <1>2, <1>5
  <2>2. version[u] \in Version /\ loading[version[u]] # NoThread
          /\ awaited[u] = loading[version[u]]
    BY <2>1 DEF CacheInv, RefreshesHaveAVersion, WaitersAreInTheTable, Busy
  <2>3. version[u] # v
    BY <1>1, <2>1, <2>2
  <2> QED
    BY <1>3, <1>4, <2>1, <2>2, <2>3
<1> QED
  BY <1>6, <1>7, <1>8, <1>9 DEF Flights

\* A failure leaves the bundle and says so.
LEMMA FailureIsTold ==
    ASSUME CacheInv, RecordFailure
    PROVE  /\ active' = active
           /\ status' \in [freshness : {"EMPTY", "READY", "DEGRADED"},
                           version : Version \cup {NoVersion}, error : BOOLEAN]
           /\ StatusIsTruthful'
<1>1. ActiveVersion \in Version \cup {NoVersion}
  BY DEF CacheInv, TypeOK, ActiveVersion, Bundle
<1>2. /\ active' = active
      /\ status' = [freshness |-> IF active = NoBundle THEN "EMPTY" ELSE "DEGRADED",
                    version |-> ActiveVersion, error |-> TRUE]
  BY DEF RecordFailure
<1>3. StatusIsTruthful'
  BY <1>2 DEF StatusIsTruthful, ActiveVersion
<1> QED
  BY <1>1, <1>2, <1>3

\* A call of the source fails within the bound, or without counting.
LEMMA FailuresAreCounted ==
    ASSUME TypeOK, SourceMayFail \/ failures' = failures
    PROVE  failures' \in 0..MaxFailures
  BY CacheAssumption DEF TypeOK, SourceMayFail

\* What changes neither the threads nor the table changes no flight.
LEMMA NoFlightChanges ==
    ASSUME CacheInv, UNCHANGED <<loading, pc, version, awaited>>
    PROVE  ThreadTypeOK' /\ Flights'
  BY DEF CacheInv, TypeOK, ThreadTypeOK, Flights, RefreshesHaveAVersion,
         TableNamesLoaders, WaitersAreInTheTable

LEMMA SameBundleSameStatus ==
    ASSUME CacheInv, UNCHANGED <<active, status>>
    PROVE  StatusIsTruthful'
  BY DEF CacheInv, StatusIsTruthful, ActiveVersion

-----------------------------------------------------------------------------
(* The steps, one lemma each.                                              *)

LEMMA PointerIsTyped ==
    ASSUME TypeOK
    PROVE  Source!Pointer \in Version \cup {NoVersion}
<1>1. history \in Seq(Publication)
  BY DEF TypeOK, Publication
<1>2. CASE history = <<>>
  BY <1>2 DEF Source!Pointer
<1>3. CASE history # <<>>
  <2>1. Len(history) \in DOMAIN history
    BY <1>1, <1>3
  <2>2. history[Len(history)] \in Publication
    BY <1>1, <2>1
  <2> QED
    BY <1>3, <2>2 DEF Source!Pointer, Publication
<1> QED
  BY <1>2, <1>3

LEMMA PublishReleaseKeepsInv ==
    ASSUME CacheInv, PublishRelease
    PROVE  CacheInv'
<1>1. PICK v \in Version, d \in Document : Source!Publish(v, d)
  BY DEF PublishRelease, Source!Next
<1>2. history \in Seq(Publication)
  BY DEF CacheInv, TypeOK, Publication
<1>3. [version |-> v, document |-> d, previous |-> Source!Pointer] \in Publication
  BY PointerIsTyped DEF CacheInv, Publication
<1>4. history' \in Seq(Publication)
  BY <1>1, <1>2, <1>3 DEF Source!Publish
<1>5. UNCHANGED <<active, status, loading, threads, lifecycle, failures>>
  BY DEF PublishRelease
<1>6. TypeOK'
  BY <1>4, <1>5 DEF CacheInv, TypeOK, Publication, threads, lifecycle
<1> QED
  BY <1>5, <1>6, NoFlightChanges, SameBundleSameStatus DEF CacheInv, Flights, threads

LEMMA ReadActiveVersionKeepsInv ==
    ASSUME CacheInv, NEW t \in Thread, ReadActiveVersion(t)
    PROVE  CacheInv'
<1>1. /\ Source!Pointer \in Version
      /\ pc[t] = "timer" /\ Goto(t, "enter") /\ "enter" \in Stage \ {"load", "wait"}
      /\ version' = [version EXCEPT ![t] = Source!Pointer]
      /\ UNCHANGED <<history, active, status, loading, awaited, lifecycle, failures>>
  BY PointerIsTyped DEF CacheInv, ReadActiveVersion, Stage
<1>2. /\ version' \in [Thread -> Version \cup {NoVersion}]
      /\ version'[t] \in Version
      /\ \A u \in Thread \ {t} : version'[u] = version[u]
  BY <1>1 DEF CacheInv, TypeOK
<1>3. ThreadTypeOK' /\ Flights'
  BY <1>1, <1>2, MoveKeepsFlights
<1> QED
  BY <1>1, <1>3, SameBundleSameStatus DEF CacheInv, TypeOK, ThreadTypeOK, Flights, lifecycle

LEMMA ActiveVersionFailsKeepsInv ==
    ASSUME CacheInv, NEW t \in Thread, ActiveVersionFails(t)
    PROVE  CacheInv'
<1>1. /\ RecordFailure
      /\ SourceMayFail \/ failures' = failures
      /\ UNCHANGED <<history, loading, threads, lifecycle>>
  BY DEF ActiveVersionFails
<1>2. ThreadTypeOK' /\ Flights'
  BY <1>1, NoFlightChanges DEF threads
<1> QED
  BY <1>1, <1>2, FailureIsTold, FailuresAreCounted
     DEF CacheInv, TypeOK, ThreadTypeOK, Flights, lifecycle

LEMMA CallRefreshKeepsInv ==
    ASSUME CacheInv, NEW t \in Caller, NEW v \in Version, CallRefresh(t, v)
    PROVE  CacheInv'
<1>1. /\ t \in Thread
      /\ pc[t] = "idle" /\ Goto(t, "enter") /\ "enter" \in Stage \ {"load", "wait"}
      /\ version' = [version EXCEPT ![t] = v]
      /\ UNCHANGED <<history, active, status, loading, awaited, lifecycle, failures>>
  BY DEF CallRefresh, Stage, Thread
<1>2. /\ version' \in [Thread -> Version \cup {NoVersion}]
      /\ version'[t] \in Version
      /\ \A u \in Thread \ {t} : version'[u] = version[u]
  BY <1>1 DEF CacheInv, TypeOK
<1>3. ThreadTypeOK' /\ Flights'
  BY <1>1, <1>2, MoveKeepsFlights
<1> QED
  BY <1>1, <1>3, SameBundleSameStatus DEF CacheInv, TypeOK, ThreadTypeOK, Flights, lifecycle

\* Where a thread goes when it rests.
LEMMA RestIsAStage ==
    ASSUME NEW t \in Thread
    PROVE  /\ Rest(t) \in Stage \ ({"load", "wait"} \cup Busy)
           /\ Rest(t) \in {"dead", "timer"} => t \in Refresher
           /\ Rest(t) \in {"idle", "returned"} => t \in Caller
  BY DEF Rest, Stage, Busy, Thread

LEMMA EnterKeepsInv ==
    ASSUME CacheInv, NEW t \in Thread, Enter(t)
    PROVE  CacheInv'
<1> DEFINE v == version[t]
<1>1. /\ pc[t] = "enter" /\ v \in Version /\ version' = version
      /\ UNCHANGED <<history, active, lifecycle, failures>>
  BY DEF CacheInv, Enter, RefreshesHaveAVersion, Busy
<1>2. CASE IsActive(t)
  <2>1. /\ status' = [freshness |-> "READY", version |-> v, error |-> FALSE]
        /\ Goto(t, Rest(t)) /\ UNCHANGED <<loading, awaited>>
        /\ active # NoBundle /\ active.version = v
    BY <1>2 DEF Enter, IsActive
  <2>2. StatusIsTruthful'
    BY <1>1, <2>1 DEF StatusIsTruthful, ActiveVersion
  <2>3. ThreadTypeOK' /\ Flights'
    BY <1>1, <2>1, RestIsAStage, MoveKeepsFlights DEF CacheInv, TypeOK
  <2> QED
    BY <1>1, <2>1, <2>2, <2>3 DEF CacheInv, TypeOK, ThreadTypeOK, Flights, lifecycle
<1>3. CASE ~ IsActive(t) /\ loading[v] = NoThread
  <2>1. /\ loading' = [loading EXCEPT ![v] = t]
        /\ Goto(t, "load") /\ UNCHANGED <<status, awaited>>
    BY <1>3 DEF Enter
  <2>2. /\ loading' \in [Version -> Thread \cup {NoThread}]
        /\ loading'[v] = t /\ \A w \in Version \ {v} : loading'[w] = loading[w]
        /\ pc' \in [Thread -> Stage]
        /\ pc'[t] = "load" /\ \A u \in Thread \ {t} : pc'[u] = pc[u]
    BY <1>1, <2>1 DEF CacheInv, TypeOK, Goto, Stage
  <2>3. ThreadTypeOK'
    BY <1>1, <2>1, <2>2 DEF CacheInv, TypeOK, ThreadTypeOK
  <2>4. RefreshesHaveAVersion'
    BY <1>1, <2>2 DEF CacheInv, RefreshesHaveAVersion
  <2>5. TableNamesLoaders'
    BY <1>1, <1>3, <2>2, CacheAssumption DEF CacheInv, TableNamesLoaders, Thread
  <2>6. WaitersAreInTheTable'
    BY <1>1, <1>3, <2>1, <2>2
       DEF CacheInv, RefreshesHaveAVersion, Busy, WaitersAreInTheTable
  <2> QED
    BY <1>1, <2>1, <2>3, <2>4, <2>5, <2>6, SameBundleSameStatus
       DEF CacheInv, TypeOK, ThreadTypeOK, lifecycle
<1>4. CASE ~ IsActive(t) /\ loading[v] # NoThread
  <2>1. /\ awaited' = [awaited EXCEPT ![t] = loading[v]]
        /\ Goto(t, "wait") /\ UNCHANGED <<status, loading>>
    BY <1>4 DEF Enter
  <2>2. /\ awaited' \in [Thread -> Thread \cup {NoThread}]
        /\ awaited'[t] = loading[v] /\ \A u \in Thread \ {t} : awaited'[u] = awaited[u]
        /\ pc' \in [Thread -> Stage]
        /\ pc'[t] = "wait" /\ \A u \in Thread \ {t} : pc'[u] = pc[u]
    BY <1>1, <2>1 DEF CacheInv, TypeOK, Goto, Stage
  <2>3. ThreadTypeOK'
    BY <1>1, <2>1, <2>2 DEF CacheInv, TypeOK, ThreadTypeOK
  <2>4. RefreshesHaveAVersion'
    BY <1>1, <2>2 DEF CacheInv, RefreshesHaveAVersion
  <2>5. TableNamesLoaders'
    BY <1>1, <2>1, <2>2 DEF CacheInv, TableNamesLoaders
  <2>6. WaitersAreInTheTable'
    BY <1>1, <1>4, <2>1, <2>2 DEF CacheInv, WaitersAreInTheTable
  <2> QED
    BY <1>1, <2>1, <2>3, <2>4, <2>5, <2>6, SameBundleSameStatus
       DEF CacheInv, TypeOK, ThreadTypeOK, lifecycle
<1> QED
  BY <1>2, <1>3, <1>4

LEMMA LoadSucceedsKeepsInv ==
    ASSUME CacheInv, NEW t \in Thread, LoadSucceeds(t)
    PROVE  /\ CacheInv'
           /\ \E i \in DOMAIN history : /\ history[i].version = active'.version
                                        /\ history[i].document = active'.document
           /\ active' # NoBundle
<1> DEFINE v == version[t]
<1>1. PICK i \in DOMAIN history :
          /\ history[i].version = v
          /\ active' = [version |-> history[i].version, document |-> history[i].document]
  BY DEF LoadSucceeds
<1>2. /\ pc[t] = "load" /\ FinishLoad(t)
      /\ status' = [freshness |-> "READY", version |-> v, error |-> FALSE]
      /\ UNCHANGED <<history, version, lifecycle, failures>>
  BY DEF LoadSucceeds
<1>3. history \in Seq(Publication)
  BY DEF CacheInv, TypeOK, Publication
<1>4. history[i] \in Publication
  BY <1>1, <1>3
<1>5. active' \in Bundle /\ active'.version = v /\ v \in Version
  BY <1>1, <1>4 DEF Publication, Bundle
<1>6. active' # NoBundle
  BY <1>5, BundleIsABundle
<1>7. StatusIsTruthful'
  BY <1>2, <1>5, <1>6 DEF StatusIsTruthful, ActiveVersion
<1>8. ThreadTypeOK' /\ Flights'
  BY <1>2, FinishKeepsFlights
<1> QED
  BY <1>1, <1>2, <1>5, <1>6, <1>7, <1>8 DEF CacheInv, TypeOK, ThreadTypeOK, Flights, lifecycle

LEMMA LoadFailsKeepsInv ==
    ASSUME CacheInv, NEW t \in Thread, LoadFails(t)
    PROVE  CacheInv'
<1>1. /\ pc[t] = "load" /\ RecordFailure /\ FinishLoad(t)
      /\ SourceMayFail \/ failures' = failures
      /\ UNCHANGED <<history, version, lifecycle>>
  BY DEF LoadFails
<1>2. ThreadTypeOK' /\ Flights'
  BY <1>1, FinishKeepsFlights
<1> QED
  BY <1>1, <1>2, FailureIsTold, FailuresAreCounted
     DEF CacheInv, TypeOK, ThreadTypeOK, Flights, lifecycle

LEMMA ReturnFromWaitKeepsInv ==
    ASSUME CacheInv, NEW t \in Thread, ReturnFromWait(t)
    PROVE  CacheInv'
<1>1. /\ pc[t] = "woken" /\ Goto(t, Rest(t))
      /\ UNCHANGED <<history, active, status, loading, version, awaited, lifecycle, failures>>
  BY DEF ReturnFromWait
<1>2. ThreadTypeOK' /\ Flights'
  BY <1>1, RestIsAStage, MoveKeepsFlights DEF CacheInv, TypeOK
<1> QED
  BY <1>1, <1>2, SameBundleSameStatus DEF CacheInv, TypeOK, ThreadTypeOK, Flights, lifecycle

LEMMA StartKeepsInv ==
    ASSUME CacheInv, NEW t \in Refresher, StartAutoRefresh(t)
    PROVE  CacheInv'
<1>1. /\ t \in Thread /\ pc[t] = "dead" /\ Goto(t, "timer")
      /\ "timer" \in Stage \ {"load", "wait"} /\ "timer" \notin Busy
      /\ refreshThread' = t
      /\ UNCHANGED <<history, active, status, loading, version, awaited, joining, failures>>
  BY DEF StartAutoRefresh, Thread, Stage, Busy
<1>2. ThreadTypeOK' /\ Flights'
  BY <1>1, MoveKeepsFlights DEF CacheInv, TypeOK
<1> QED
  BY <1>1, <1>2, SameBundleSameStatus DEF CacheInv, TypeOK, ThreadTypeOK, Flights

LEMMA StopKeepsInv ==
    ASSUME CacheInv, StopAutoRefresh \/ JoinReturns
    PROVE  CacheInv'
<1>1. /\ UNCHANGED <<history, active, status, loading, threads, failures>>
      /\ refreshThread' \in Refresher \cup {NoThread}
      /\ joining' \in Refresher \cup {NoThread}
  BY DEF StopAutoRefresh, JoinReturns, CacheInv, TypeOK
<1>2. ThreadTypeOK' /\ Flights'
  BY <1>1, NoFlightChanges DEF threads
<1> QED
  BY <1>1, <1>2, SameBundleSameStatus DEF CacheInv, TypeOK, ThreadTypeOK, Flights

LEMMA LeaveLoopKeepsInv ==
    ASSUME CacheInv, NEW t \in Thread, LeaveLoop(t)
    PROVE  CacheInv'
<1>1. /\ pc[t] = "timer" /\ Goto(t, "dead") /\ t \in Refresher
      /\ "dead" \in Stage \ {"load", "wait"} /\ "dead" \notin Busy
      /\ UNCHANGED <<history, active, status, loading, version, awaited, lifecycle, failures>>
  BY DEF LeaveLoop, CacheInv, TypeOK, Stage, Busy
<1>2. ThreadTypeOK' /\ Flights'
  BY <1>1, MoveKeepsFlights DEF CacheInv, TypeOK
<1> QED
  BY <1>1, <1>2, SameBundleSameStatus DEF CacheInv, TypeOK, ThreadTypeOK, Flights, lifecycle

-----------------------------------------------------------------------------
(* The theorems.                                                           *)

LEMMA StepKeepsInv == CacheInv /\ [Next]_vars => CacheInv'
<1> SUFFICES ASSUME CacheInv, [Next]_vars PROVE CacheInv'
  OBVIOUS
<1>1. CASE UNCHANGED vars
  <2>1. UNCHANGED <<history, active, status, loading, pc, version, awaited,
                    refreshThread, joining, failures>>
    BY <1>1 DEF vars, threads, lifecycle
  <2> QED
    BY <2>1, NoFlightChanges, SameBundleSameStatus DEF CacheInv, TypeOK, ThreadTypeOK, Flights
<1>2. CASE PublishRelease
  BY <1>2, PublishReleaseKeepsInv
<1>3. ASSUME NEW t \in Thread, ThreadStep(t) PROVE CacheInv'
  BY <1>3, ReadActiveVersionKeepsInv, ActiveVersionFailsKeepsInv, EnterKeepsInv,
     LoadSucceedsKeepsInv, LoadFailsKeepsInv, ReturnFromWaitKeepsInv, LeaveLoopKeepsInv
     DEF ThreadStep
<1>4. ASSUME NEW t \in Caller, NEW v \in Version, CallRefresh(t, v) PROVE CacheInv'
  BY <1>4, CallRefreshKeepsInv
<1>5. ASSUME NEW t \in Refresher, StartAutoRefresh(t) PROVE CacheInv'
  BY <1>5, StartKeepsInv
<1>6. CASE StopAutoRefresh \/ JoinReturns
  BY <1>6, StopKeepsInv
<1> QED
  BY <1>1, <1>2, <1>3, <1>4, <1>5, <1>6 DEF Next

(***************************************************************************)
(* However refresh() calls overlap, fail, and outlive a stopped refresher: *)
(* the table of loads names exactly the loaders, and whoever waits, waits  *)
(* for the event in the table.                                             *)
(***************************************************************************)
THEOREM CacheInvariant == Spec => []CacheInv
  BY InitialInv, StepKeepsInv, PTL DEF Spec

(***************************************************************************)
(* GET /health tells the truth about the bundle that answers questions.    *)
(***************************************************************************)
THEOREM StatusTellsTheTruth == Spec => []StatusIsTruthful
<1>1. CacheInv => StatusIsTruthful
  BY DEF CacheInv
<1> QED
  BY <1>1, CacheInvariant, PTL

(***************************************************************************)
(* No version is loaded twice at a time, and a waiter's event belongs to a *)
(* thread that is loading the version it waits for.                        *)
(***************************************************************************)
THEOREM FlightsAreSingle == Spec => []SingleFlight
<1>1. CacheInv => SingleFlight
  <2> SUFFICES ASSUME CacheInv PROVE SingleFlight
    OBVIOUS
  <2>1. ASSUME NEW t \in Thread, NEW u \in Thread,
               pc[t] = "load", pc[u] = "load", version[t] = version[u]
        PROVE  t = u
    <3>1. version[t] \in Version
      BY <2>1 DEF CacheInv, RefreshesHaveAVersion, Busy
    <3>2. loading[version[t]] = t /\ loading[version[t]] = u
      BY <2>1, <3>1 DEF CacheInv, TableNamesLoaders
    <3> QED
      BY <3>2
  <2>2. ASSUME NEW t \in Thread, pc[t] = "wait"
        PROVE  pc[awaited[t]] = "load" /\ version[awaited[t]] = version[t]
    <3>1. version[t] \in Version /\ awaited[t] # NoThread /\ loading[version[t]] = awaited[t]
      BY <2>2 DEF CacheInv, RefreshesHaveAVersion, WaitersAreInTheTable, Busy
    <3>2. awaited[t] \in Thread
      BY <3>1 DEF CacheInv, TypeOK
    <3> QED
      BY <3>1, <3>2 DEF CacheInv, TableNamesLoaders
  <2> QED
    BY <2>1, <2>2 DEF SingleFlight
<1> QED
  BY <1>1, CacheInvariant, PTL

(***************************************************************************)
(* No failure takes the bundle away, and every bundle that becomes active  *)
(* is exactly a published one.                                             *)
(***************************************************************************)
THEOREM TheLastGoodIsKept == Spec => LastGoodIsKept
<1> DEFINE Keeps == /\ active # NoBundle => active' # NoBundle
                    /\ active' # active =>
                          \E i \in DOMAIN history :
                              /\ history[i].version = active'.version
                              /\ history[i].document = active'.document
<1>1. ASSUME CacheInv, [Next]_vars PROVE Keeps
  <2>1. ASSUME NEW t \in Thread, LoadSucceeds(t) PROVE Keeps
    BY <1>1, <2>1, LoadSucceedsKeepsInv
  <2>2. ASSUME NEW t \in Thread, ThreadStep(t), ~ LoadSucceeds(t) PROVE active' = active
    BY <2>2 DEF ThreadStep, ReadActiveVersion, ActiveVersionFails, Enter, LoadFails,
                ReturnFromWait, LeaveLoop, RecordFailure
  <2>3. CASE UNCHANGED vars
    BY <2>3 DEF vars
  <2>4. CASE PublishRelease \/ StopAutoRefresh \/ JoinReturns
    BY <2>4 DEF PublishRelease, StopAutoRefresh, JoinReturns
  <2>5. ASSUME NEW t \in Caller, NEW v \in Version, CallRefresh(t, v) PROVE active' = active
    BY <2>5 DEF CallRefresh
  <2>6. ASSUME NEW t \in Refresher, StartAutoRefresh(t) PROVE active' = active
    BY <2>6 DEF StartAutoRefresh
  <2> QED
    BY <1>1, <2>1, <2>2, <2>3, <2>4, <2>5, <2>6 DEF Next
<1>2. ASSUME CacheInv, [Next]_vars PROVE [Keeps]_vars
  BY <1>1, <1>2
<1> QED
  BY <1>2, CacheInvariant, PTL DEF Spec, LastGoodIsKept
===============================================================================
