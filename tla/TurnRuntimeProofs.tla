------------------------- MODULE TurnRuntimeProofs -------------------------
(***************************************************************************)
(* Proofs about TurnRuntime for every number of sessions, requests,        *)
(* workers and readers, and about the page of BrowserClient on top of it.  *)
(***************************************************************************)
EXTENDS BrowserClient, TLAPS

-----------------------------------------------------------------------------
(* What the helpers the actions are built from do to the types.            *)

LEMMA FinishTyped ==
    ASSUME WorkerTypeOK, NEW w \in Worker, Finish(w)
    PROVE  WorkerTypeOK'
<1> USE DEF WorkerTypeOK, Finish
<1>1. pc' \in [Worker -> Stage]
  BY DEF Stage
<1>2. call' \in [Worker -> Call \cup {NoCall}]
  OBVIOUS
<1>3. loaded' \in [Worker -> State]
  BY RuntimeAssumption DEF State, EmptyState
<1>4. response' \in [Worker -> Response \cup {NoResponse}]
  OBVIOUS
<1>5. ASSUME NEW v \in Worker
      PROVE  /\ pc'[v] # "idle" => call'[v] \in Call
             /\ pc'[v] \in HasResponse => response'[v] \in Response
  BY DEF HasResponse, InTransaction
<1> QED
  BY <1>1, <1>2, <1>3, <1>4, <1>5

LEMMA GotoTyped ==
    ASSUME WorkerTypeOK, NEW w \in Worker, NEW next \in Stage,
           pc[w] # "idle",
           next \in HasResponse => pc[w] \in HasResponse,
           Goto(w, next), UNCHANGED <<call, loaded, response>>
    PROVE  WorkerTypeOK'
<1> USE DEF WorkerTypeOK, Goto
<1>1. pc' \in [Worker -> Stage]
  OBVIOUS
<1>2. ASSUME NEW v \in Worker
      PROVE  /\ pc'[v] # "idle" => call'[v] \in Call
             /\ pc'[v] \in HasResponse => response'[v] \in Response
  OBVIOUS
<1> QED
  BY <1>1, <1>2

LEMMA ReplayTyped ==
    ASSUME DatabaseTypeOK, WorkerTypeOK, NEW w \in Worker,
           pc[w] # "idle", Replay(w)
    PROVE  WorkerTypeOK'
<1> USE DEF WorkerTypeOK, Goto
<1>1. PICK i \in Stored(w) :
          response' = [response EXCEPT ![w] = turns[call[w].session][i].response]
  BY DEF Replay
<1>2. call[w].session \in Session
  BY DEF Call
<1>3. turns[call[w].session][i] \in Turn
  BY <1>1, <1>2 DEF DatabaseTypeOK, Stored, StoredTurns
<1>4. turns[call[w].session][i].response \in Response
  BY <1>3 DEF Turn
<1>5. response' \in [Worker -> Response \cup {NoResponse}]
  BY <1>1, <1>4
<1>6. pc' \in [Worker -> Stage]
  BY DEF Replay, Stage
<1>7. ASSUME NEW v \in Worker
      PROVE  /\ pc'[v] # "idle" => call'[v] \in Call
             /\ pc'[v] \in HasResponse => response'[v] \in Response
  BY <1>1, <1>4 DEF Replay
<1> QED
  BY <1>5, <1>6, <1>7 DEF Replay

LEMMA ReleaseTyped ==
    ASSUME DatabaseTypeOK, NEW w \in Worker, ReleaseLock(w),
           UNCHANGED <<created, state, turns>>
    PROVE  DatabaseTypeOK'
BY DEF DatabaseTypeOK, ReleaseLock

LEMMA EngineResultTyped ==
    ASSUME NEW base \in State, NEW res \in EngineResults(base)
    PROVE  /\ res \in Response
           /\ \/ res.state = base
              \/ res.state.revision = base.revision + 1
BY DEF EngineResults, State, Response

-----------------------------------------------------------------------------
LEMMA TypeInit == Init => TypeOK
<1> SUFFICES ASSUME Init PROVE TypeOK
  OBVIOUS
<1> USE RuntimeAssumption DEF Init
<1>1. DatabaseTypeOK
  BY DEF DatabaseTypeOK, EmptyState, State
<1>2. WorkerTypeOK
  BY DEF WorkerTypeOK, Stage, HasResponse, InTransaction, EmptyState, State
<1>3. ClientTypeOK
  BY DEF ClientTypeOK
<1> QED
  BY <1>1, <1>2, <1>3 DEF TypeOK

LEMMA TypeStep == TypeOK /\ [Next]_vars => TypeOK'
<1> SUFFICES ASSUME DatabaseTypeOK, WorkerTypeOK, ClientTypeOK, [Next]_vars
             PROVE  DatabaseTypeOK' /\ WorkerTypeOK' /\ ClientTypeOK'
  BY DEF TypeOK
<1> USE RuntimeAssumption DEF database, workers
<1>1. ASSUME NEW s \in Session, CreateSession(s)
      PROVE  DatabaseTypeOK' /\ WorkerTypeOK' /\ ClientTypeOK'
  BY <1>1 DEF CreateSession, DatabaseTypeOK, WorkerTypeOK, ClientTypeOK, EmptyState, State
<1>2. ASSUME NEW w \in Worker, NEW s \in Session, NEW q \in Request,
             NEW n \in Revision, Post(w, s, q, n)
      PROVE  DatabaseTypeOK' /\ WorkerTypeOK' /\ ClientTypeOK'
  <2>1. pc' \in [Worker -> Stage]
    BY <1>2 DEF Post, Goto, WorkerTypeOK, Stage
  <2>2. call' \in [Worker -> Call \cup {NoCall}]
    BY <1>2 DEF Post, WorkerTypeOK, Call
  <2>3. ASSUME NEW v \in Worker
        PROVE  /\ pc'[v] # "idle" => call'[v] \in Call
               /\ pc'[v] \in HasResponse => response'[v] \in Response
    BY <1>2 DEF Post, Goto, WorkerTypeOK, Call, HasResponse, InTransaction
  <2>4. WorkerTypeOK'
    BY <1>2, <2>1, <2>2, <2>3 DEF Post, WorkerTypeOK
  <2> QED
    BY <1>2, <2>4 DEF Post, DatabaseTypeOK, ClientTypeOK
<1>3. ASSUME NEW w \in Worker, GetReplay(w)
      PROVE  DatabaseTypeOK' /\ WorkerTypeOK' /\ ClientTypeOK'
  <2>1. CASE Replay(w)
    BY <1>3, <2>1, ReplayTyped DEF GetReplay, DatabaseTypeOK, ClientTypeOK
  <2>2. CASE Goto(w, "get_state") /\ UNCHANGED <<call, loaded, response>>
    BY <1>3, <2>2, GotoTyped
       DEF GetReplay, DatabaseTypeOK, ClientTypeOK, Stage, HasResponse, InTransaction
  <2> QED
    BY <1>3, <2>1, <2>2 DEF GetReplay
<1>4. ASSUME NEW w \in Worker, GetState(w)
      PROVE  DatabaseTypeOK' /\ WorkerTypeOK' /\ ClientTypeOK'
  <2>1. DatabaseTypeOK' /\ ClientTypeOK'
    BY <1>4 DEF GetState, DatabaseTypeOK, ClientTypeOK
  <2>2. CASE StateIsCurrent(w)
    <3>1. pc' \in [Worker -> Stage]
      BY <1>4, <2>2 DEF GetState, Goto, WorkerTypeOK, Stage
    <3>2. loaded' \in [Worker -> State]
      BY <1>4, <2>2 DEF GetState, WorkerTypeOK, DatabaseTypeOK, Call
    <3>3. ASSUME NEW v \in Worker
          PROVE  /\ pc'[v] # "idle" => call'[v] \in Call
                 /\ pc'[v] \in HasResponse => response'[v] \in Response
      BY <1>4, <2>2 DEF GetState, Goto, WorkerTypeOK, HasResponse, InTransaction
    <3> QED
      BY <1>4, <2>1, <2>2, <3>1, <3>2, <3>3 DEF GetState, WorkerTypeOK
  <2>3. CASE ~ StateIsCurrent(w)
    BY <1>4, <2>1, <2>3, FinishTyped DEF GetState
  <2> QED
    BY <2>2, <2>3
<1>5. ASSUME NEW w \in Worker, HandleTurn(w)
      PROVE  DatabaseTypeOK' /\ WorkerTypeOK' /\ ClientTypeOK'
  <2>1. PICK res \in EngineResults(loaded[w]) : response' = [response EXCEPT ![w] = res]
    BY <1>5 DEF HandleTurn
  <2>2. res \in Response
    BY <2>1, EngineResultTyped DEF WorkerTypeOK
  <2>3. pc' \in [Worker -> Stage]
    BY <1>5 DEF HandleTurn, Goto, WorkerTypeOK, Stage
  <2>4. response' \in [Worker -> Response \cup {NoResponse}]
    BY <2>1, <2>2 DEF WorkerTypeOK
  <2>5. ASSUME NEW v \in Worker
        PROVE  /\ pc'[v] # "idle" => call'[v] \in Call
               /\ pc'[v] \in HasResponse => response'[v] \in Response
    BY <1>5, <2>1, <2>2 DEF HandleTurn, Goto, WorkerTypeOK
  <2> QED
    BY <1>5, <2>3, <2>4, <2>5 DEF HandleTurn, DatabaseTypeOK, WorkerTypeOK, ClientTypeOK
<1>6. ASSUME NEW w \in Worker, EngineRaises(w)
      PROVE  DatabaseTypeOK' /\ WorkerTypeOK' /\ ClientTypeOK'
  BY <1>6, FinishTyped DEF EngineRaises, DatabaseTypeOK, ClientTypeOK
<1>7. ASSUME NEW w \in Worker, LockSession(w)
      PROVE  DatabaseTypeOK' /\ WorkerTypeOK' /\ ClientTypeOK'
  <2>1. DatabaseTypeOK' /\ ClientTypeOK'
    BY <1>7 DEF LockSession, DatabaseTypeOK, ClientTypeOK
  <2>2. CASE call[w].session \in created
    BY <1>7, <2>1, <2>2, GotoTyped DEF LockSession, Stage, HasResponse, InTransaction
  <2>3. CASE call[w].session \notin created
    BY <1>7, <2>1, <2>3, FinishTyped DEF LockSession
  <2> QED
    BY <2>2, <2>3
<1>8. ASSUME NEW w \in Worker, Recheck(w)
      PROVE  DatabaseTypeOK' /\ WorkerTypeOK' /\ ClientTypeOK'
  <2>1. ClientTypeOK'
    BY <1>8 DEF Recheck, ClientTypeOK
  <2>2. CASE Replay(w) /\ ReleaseLock(w)
    BY <1>8, <2>1, <2>2, ReplayTyped, ReleaseTyped DEF Recheck
  <2>3. CASE Finish(w) /\ ReleaseLock(w)
    BY <1>8, <2>1, <2>3, FinishTyped, ReleaseTyped DEF Recheck
  <2>4. CASE Goto(w, "insert") /\ UNCHANGED <<call, loaded, response, rowLock>>
    BY <1>8, <2>1, <2>4, GotoTyped
       DEF Recheck, DatabaseTypeOK, Stage, HasResponse, InTransaction
  <2> QED
    BY <1>8, <2>2, <2>3, <2>4 DEF Recheck
<1>9. ASSUME NEW w \in Worker, InsertTurn(w) \/ UpdateState(w)
      PROVE  DatabaseTypeOK' /\ WorkerTypeOK' /\ ClientTypeOK'
  <2>1. ClientTypeOK'
    BY <1>9 DEF InsertTurn, UpdateState, ClientTypeOK
  <2>2. CASE Finish(w) /\ ReleaseLock(w)
    BY <1>9, <2>1, <2>2, FinishTyped, ReleaseTyped DEF InsertTurn, UpdateState
  <2>3. CASE /\ Goto(w, "update") \/ Goto(w, "commit")
             /\ UNCHANGED <<call, loaded, response, rowLock>>
    BY <1>9, <2>1, <2>3, GotoTyped
       DEF InsertTurn, UpdateState, DatabaseTypeOK, Stage, HasResponse, InTransaction
  <2> QED
    BY <1>9, <2>2, <2>3 DEF InsertTurn, UpdateState
<1>10. ASSUME NEW w \in Worker, CommitTurn(w)
       PROVE  DatabaseTypeOK' /\ WorkerTypeOK' /\ ClientTypeOK'
  <2>1. WorkerTypeOK' /\ ClientTypeOK'
    BY <1>10, GotoTyped DEF CommitTurn, ClientTypeOK, Stage, HasResponse, InTransaction
  <2>2. /\ call[w] \in Call
        /\ response[w] \in Response
        /\ loaded[w] \in State
    BY <1>10 DEF CommitTurn, WorkerTypeOK, HasResponse, InTransaction
  <2>3. NewTurn(w) \in Turn
    BY <2>2 DEF NewTurn, Turn, Call
  <2>4. turns' \in [Session -> Seq(Turn)]
    BY <1>10, <2>2, <2>3 DEF CommitTurn, DatabaseTypeOK, Call
  <2>5. state' \in [Session -> State]
    BY <1>10, <2>2 DEF CommitTurn, DatabaseTypeOK, Response
  <2> QED
    BY <1>10, <2>1, <2>4, <2>5 DEF CommitTurn, ReleaseLock, DatabaseTypeOK
<1>11. ASSUME NEW w \in Worker, SendReply(w)
       PROVE  DatabaseTypeOK' /\ WorkerTypeOK' /\ ClientTypeOK'
  <2>1. call[w] \in Call /\ response[w] \in Response
    BY <1>11 DEF SendReply, WorkerTypeOK, HasResponse
  <2>2. replies' \subseteq Reply
    BY <1>11, <2>1 DEF SendReply, ClientTypeOK, Reply, Call
  <2> QED
    BY <1>11, <2>2, FinishTyped DEF SendReply, DatabaseTypeOK, ClientTypeOK
<1>12. ASSUME NEW w \in Worker, Fail(w)
       PROVE  DatabaseTypeOK' /\ WorkerTypeOK' /\ ClientTypeOK'
  BY <1>12, FinishTyped, ReleaseTyped DEF Fail, ClientTypeOK
<1>13. ASSUME NEW r \in Reader, NEW s \in Session, BeginView(r, s)
       PROVE  DatabaseTypeOK' /\ WorkerTypeOK' /\ ClientTypeOK'
  <2>1. view' \in [Reader -> View \cup {NoView}]
    BY <1>13 DEF BeginView, ClientTypeOK, View, EmptyState, State
  <2> QED
    BY <1>13, <2>1 DEF BeginView, DatabaseTypeOK, WorkerTypeOK, ClientTypeOK
<1>14. ASSUME NEW r \in Reader, ReadTable(r)
       PROVE  DatabaseTypeOK' /\ WorkerTypeOK' /\ ClientTypeOK'
  <2>1. view[r] \in View
    BY <1>14 DEF ReadTable, ClientTypeOK
  <2> DEFINE s     == view[r].session
             table == Statements[view[r].done + 1]
             new   == [view[r] EXCEPT
                         !.done = @ + 1,
                         !.state = IF table = "session_state" THEN state[s] ELSE @,
                         !.messages = IF table = "turn_message" THEN turns[s] ELSE @]
  <2>2. new \in View
    <3>1. s \in Session /\ state[s] \in State /\ turns[s] \in Seq(Turn)
      BY <2>1 DEF View, DatabaseTypeOK
    <3>2. view[r].done + 1 \in 0..2
      BY <1>14, <2>1 DEF ReadTable, View
    <3> HIDE DEF table, s
    <3> QED
      BY <2>1, <3>1, <3>2 DEF View
  <2>3. view' = [view EXCEPT ![r] = new]
    BY <1>14 DEF ReadTable
  <2>4. view' \in [Reader -> View \cup {NoView}]
    BY <2>2, <2>3 DEF ClientTypeOK
  <2> QED
    BY <1>14, <2>4 DEF ReadTable, DatabaseTypeOK, WorkerTypeOK, ClientTypeOK
<1>15. ASSUME NEW r \in Reader, ReturnView(r)
       PROVE  DatabaseTypeOK' /\ WorkerTypeOK' /\ ClientTypeOK'
  BY <1>15 DEF ReturnView, DatabaseTypeOK, WorkerTypeOK, ClientTypeOK
<1>16. CASE UNCHANGED vars
  BY <1>16 DEF vars, DatabaseTypeOK, WorkerTypeOK, ClientTypeOK
<1> QED
  BY <1>1, <1>2, <1>3, <1>4, <1>5, <1>6, <1>7, <1>8, <1>9, <1>10, <1>11,
     <1>12, <1>13, <1>14, <1>15, <1>16 DEF Next, WorkerStep

(***************************************************************************)
(* Every table and every thread keeps its type.                            *)
(***************************************************************************)
THEOREM TypeCorrect == Spec => []TypeOK
BY TypeInit, TypeStep, PTL DEF Spec

-----------------------------------------------------------------------------
(* The inductive invariant.  Most actions change one worker and, at most,  *)
(* the row lock it owns: for those it is enough to look at that worker.    *)

\* What RuntimeInv says of one worker.
WorkerInv(w) ==
    /\ pc[w] \in InTransaction => rowLock[call[w].session] = w
    /\ pc[w] \in TurnIsOpen \cup {"handle"} =>
          LET current == state[call[w].session] IN
            /\ call[w].session \in created
            /\ loaded[w].revision = call[w].given
            /\ loaded[w].revision <= current.revision
            /\ loaded[w].revision = current.revision => loaded[w] = current
    /\ pc[w] \in TurnIsOpen => response[w] \in EngineResults(loaded[w])
    /\ pc[w] \in {"insert", "update", "commit"} =>
          /\ Stored(w) = {}
          /\ state[call[w].session].revision = call[w].given
    /\ pc[w] = "reply" => IsStored(call[w].session, call[w].request, response[w])

\* What it says of the tables, and of the readers.
TablesInv ==
    /\ RowsBeforeTurns
    /\ OneTurnPerRequest
    /\ TurnsFormChain
    /\ \A r \in replies : IsStored(r.session, r.request, r.response)

ViewsInv == ViewStateWasStored /\ ViewIsExplained

LEMMA RuntimeInvSplit ==
    RuntimeInv <=> /\ TypeOK
                   /\ TablesInv
                   /\ ViewsInv
                   /\ \A w \in Worker : WorkerInv(w)
BY DEF RuntimeInv, TablesInv, ViewsInv, WorkerInv, TransactionOwnsRow,
       LoadedIsAPastState, ResponseFollowsLoaded, CommitCannotCollide,
       AnswersAreStored

\* A step of worker w that writes no table and takes no other worker's lock.
OnlyWorker(w) ==
    /\ UNCHANGED <<created, state, turns>>
    /\ \A v \in Worker \ {w} :
          /\ pc'[v] = pc[v]
          /\ call'[v] = call[v]
          /\ loaded'[v] = loaded[v]
          /\ response'[v] = response[v]
          /\ \A s \in Session : rowLock[s] = v => rowLock'[s] = v

LEMMA OtherWorkersKept ==
    ASSUME WorkerTypeOK, NEW w \in Worker, OnlyWorker(w),
           \A v \in Worker : WorkerInv(v), WorkerInv(w)'
    PROVE  \A v \in Worker : WorkerInv(v)'
<1> SUFFICES ASSUME NEW v \in Worker, v # w PROVE WorkerInv(v)'
  OBVIOUS
<1>1. /\ pc'[v] = pc[v] /\ call'[v] = call[v]
      /\ loaded'[v] = loaded[v] /\ response'[v] = response[v]
      /\ \A s \in Session : rowLock[s] = v => rowLock'[s] = v
      /\ created' = created /\ state' = state /\ turns' = turns
  BY DEF OnlyWorker
<1>2. WorkerInv(v)
  OBVIOUS
<1>3. pc[v] # "idle" => call[v].session \in Session
  BY DEF WorkerTypeOK, Call
<1> QED
  BY <1>1, <1>2, <1>3 DEF WorkerInv, EngineResults, Stored, StoredTurns, IsStored, InTransaction

LEMMA TablesKept ==
    ASSUME TablesInv, UNCHANGED <<created, state, turns, replies>>
    PROVE  TablesInv'
BY DEF TablesInv, RowsBeforeTurns, OneTurnPerRequest, TurnsFormChain, StateAfter, IsStored

LEMMA ViewsKept ==
    ASSUME ViewsInv, UNCHANGED <<turns, view>>
    PROVE  ViewsInv'
BY DEF ViewsInv, ViewStateWasStored, ViewIsExplained, StateAfter

LEMMA FinishKeeps ==
    ASSUME WorkerTypeOK, NEW w \in Worker, \A v \in Worker : WorkerInv(v),
           Finish(w), UNCHANGED rowLock \/ ReleaseLock(w),
           UNCHANGED <<created, state, turns>>, DatabaseTypeOK
    PROVE  \A v \in Worker : WorkerInv(v)'
<1>1. OnlyWorker(w)
  BY DEF OnlyWorker, Finish, ReleaseLock, WorkerTypeOK, DatabaseTypeOK
<1>2. pc'[w] = "idle"
  BY DEF Finish, WorkerTypeOK
<1>3. WorkerInv(w)'
  BY <1>2 DEF WorkerInv, TurnIsOpen, InTransaction
<1> QED
  BY <1>1, <1>3, OtherWorkersKept

LEMMA ReplayKeeps ==
    ASSUME WorkerTypeOK, NEW w \in Worker, \A v \in Worker : WorkerInv(v),
           Replay(w), UNCHANGED rowLock \/ ReleaseLock(w),
           UNCHANGED <<created, state, turns>>, DatabaseTypeOK
    PROVE  \A v \in Worker : WorkerInv(v)'
<1>1. PICK i \in Stored(w) :
          response' = [response EXCEPT ![w] = turns[call[w].session][i].response]
  BY DEF Replay
<1>2. OnlyWorker(w)
  BY <1>1 DEF OnlyWorker, Replay, Goto, ReleaseLock, WorkerTypeOK, DatabaseTypeOK
<1>3. pc'[w] = "reply"
  BY DEF Replay, Goto, WorkerTypeOK
<1>4. IsStored(call[w].session, call[w].request, response[w])'
  BY <1>1 DEF IsStored, Stored, StoredTurns, Replay, WorkerTypeOK
<1>5. WorkerInv(w)'
  BY <1>3, <1>4 DEF WorkerInv, TurnIsOpen, InTransaction
<1> QED
  BY <1>2, <1>5, OtherWorkersKept

-----------------------------------------------------------------------------
LEMMA RuntimeInvInit == Init => RuntimeInv
<1> SUFFICES ASSUME Init PROVE RuntimeInv
  OBVIOUS
<1>1. TypeOK
  BY TypeInit
<1>2. TablesInv
  BY DEF Init, TablesInv, RowsBeforeTurns, OneTurnPerRequest, TurnsFormChain, StateAfter
<1>3. ViewsInv
  BY DEF Init, ViewsInv, ViewStateWasStored, ViewIsExplained
<1>4. \A w \in Worker : WorkerInv(w)
  BY DEF Init, WorkerInv, TurnIsOpen, InTransaction
<1> QED
  BY <1>1, <1>2, <1>3, <1>4, RuntimeInvSplit

\* The steps of a worker that leave tables, readers and replies alone.
LEMMA WorkerStepKeeps ==
    ASSUME TypeOK, \A v \in Worker : WorkerInv(v), TablesInv, NEW w \in Worker,
           \/ GetReplay(w) \/ GetState(w) \/ HandleTurn(w) \/ EngineRaises(w)
           \/ LockSession(w) \/ Recheck(w) \/ InsertTurn(w) \/ UpdateState(w)
    PROVE  \A v \in Worker : WorkerInv(v)'
<1> USE DEF TypeOK, database
<1>0. UNCHANGED <<created, state, turns>>
  BY DEF GetReplay, GetState, HandleTurn, EngineRaises, LockSession, Recheck, InsertTurn, UpdateState
<1>1. CASE GetReplay(w)
  <2>1. CASE Replay(w)
    BY <1>0, <1>1, <2>1, ReplayKeeps DEF GetReplay
  <2>2. CASE Goto(w, "get_state") /\ UNCHANGED <<call, loaded, response>>
    <3>1. OnlyWorker(w)
      BY <1>0, <1>1, <2>2 DEF OnlyWorker, GetReplay, Goto, WorkerTypeOK
    <3>2. WorkerInv(w)'
      BY <1>1, <2>2 DEF WorkerInv, Goto, WorkerTypeOK, TurnIsOpen, InTransaction
    <3> QED
      BY <3>1, <3>2, OtherWorkersKept
  <2> QED
    BY <1>1, <2>1, <2>2 DEF GetReplay
<1>2. CASE GetState(w)
  <2>1. CASE StateIsCurrent(w)
    <3>1. OnlyWorker(w)
      BY <1>0, <1>2, <2>1 DEF OnlyWorker, GetState, Goto, WorkerTypeOK
    <3>2. call[w].session \in Session /\ state[call[w].session] \in State
      BY <1>2 DEF GetState, WorkerTypeOK, Call, DatabaseTypeOK
    <3>3. pc'[w] = "handle" /\ loaded'[w] = state[call[w].session] /\ call' = call
      BY <1>2, <2>1 DEF GetState, Goto, WorkerTypeOK
    <3>4. WorkerInv(w)'
      BY <1>0, <2>1, <3>2, <3>3
         DEF WorkerInv, StateIsCurrent, StateFound, State, TurnIsOpen, InTransaction
    <3> QED
      BY <3>1, <3>4, OtherWorkersKept
  <2>2. CASE ~ StateIsCurrent(w)
    BY <1>0, <1>2, <2>2, FinishKeeps DEF GetState
  <2> QED
    BY <2>1, <2>2
<1>3. CASE HandleTurn(w)
  <2>1. OnlyWorker(w)
    BY <1>0, <1>3 DEF OnlyWorker, HandleTurn, Goto, WorkerTypeOK
  <2>2. /\ pc'[w] = "lock" /\ call' = call /\ loaded' = loaded
        /\ response'[w] \in EngineResults(loaded[w])
    BY <1>3 DEF HandleTurn, Goto, WorkerTypeOK
  <2>3. WorkerInv(w)'
    BY <1>0, <1>3, <2>2
       DEF WorkerInv, HandleTurn, EngineResults, TurnIsOpen, InTransaction
  <2> QED
    BY <2>1, <2>3, OtherWorkersKept
<1>4. CASE EngineRaises(w)
  BY <1>0, <1>4, FinishKeeps DEF EngineRaises
<1>5. CASE LockSession(w)
  <2>1. CASE call[w].session \in created
    <3>1. call[w].session \in Session
      BY <1>5 DEF LockSession, WorkerTypeOK, Call
    <3>2. /\ pc'[w] = "recheck" /\ UNCHANGED <<call, loaded, response>>
          /\ rowLock'[call[w].session] = w
      BY <1>5, <2>1, <3>1 DEF LockSession, Goto, WorkerTypeOK, DatabaseTypeOK
    <3>3. OnlyWorker(w)
      BY <1>0, <1>5, <2>1, RuntimeAssumption
         DEF OnlyWorker, LockSession, Goto, WorkerTypeOK, DatabaseTypeOK
    <3>4. WorkerInv(w)'
      BY <1>0, <1>5, <3>2
         DEF WorkerInv, LockSession, EngineResults, TurnIsOpen, InTransaction
    <3> QED
      BY <3>3, <3>4, OtherWorkersKept
  <2>2. CASE call[w].session \notin created
    BY <1>0, <1>5, <2>2, FinishKeeps DEF LockSession
  <2> QED
    BY <2>1, <2>2
<1>6. CASE Recheck(w)
  <2>1. CASE Replay(w) /\ ReleaseLock(w)
    BY <1>0, <1>6, <2>1, ReplayKeeps
  <2>2. CASE Finish(w) /\ ReleaseLock(w)
    BY <1>0, <1>6, <2>2, FinishKeeps
  <2>3. CASE /\ Stored(w) = {} /\ RevisionAccepted(w) /\ Goto(w, "insert")
             /\ UNCHANGED <<call, loaded, response, rowLock>>
    <3>1. OnlyWorker(w)
      BY <1>0, <2>3 DEF OnlyWorker, Goto, WorkerTypeOK
    <3>2. pc[w] = "recheck" /\ pc'[w] = "insert"
      BY <1>6, <2>3 DEF Recheck, Goto, WorkerTypeOK
    <3>3. Stored(w)' = {}
      BY <1>0, <2>3 DEF Stored, StoredTurns
    <3>4. WorkerInv(w)'
      BY <1>0, <2>3, <3>2, <3>3
         DEF WorkerInv, RevisionAccepted, EngineResults, TurnIsOpen, InTransaction
    <3> QED
      BY <3>1, <3>4, OtherWorkersKept
  <2> QED
    BY <1>6, <2>1, <2>2, <2>3 DEF Recheck
<1>7. CASE InsertTurn(w) \/ UpdateState(w)
  <2>1. CASE Finish(w) /\ ReleaseLock(w)
    BY <1>0, <2>1, FinishKeeps
  <2>2. CASE /\ Goto(w, "update") \/ Goto(w, "commit")
             /\ UNCHANGED <<call, loaded, response, rowLock>>
    <3>1. OnlyWorker(w)
      BY <1>0, <2>2 DEF OnlyWorker, Goto, WorkerTypeOK
    <3>2. pc[w] \in {"insert", "update"} /\ pc'[w] \in {"update", "commit"}
      BY <1>7, <2>2 DEF InsertTurn, UpdateState, Goto, WorkerTypeOK
    <3>3. Stored(w)' = Stored(w)
      BY <1>0, <2>2 DEF Stored, StoredTurns
    <3>4. WorkerInv(w)'
      BY <1>0, <2>2, <3>2, <3>3 DEF WorkerInv, EngineResults, TurnIsOpen, InTransaction
    <3> QED
      BY <3>1, <3>4, OtherWorkersKept
  <2> QED
    BY <1>7, <2>1, <2>2 DEF InsertTurn, UpdateState
<1> QED
  BY <1>1, <1>2, <1>3, <1>4, <1>5, <1>6, <1>7

\* A longer history keeps its prefixes, and ends with the new turn's state.
LEMMA StateAfterAppend ==
    ASSUME NEW ts \in Seq(Turn), NEW t \in Turn
    PROVE  /\ \A n \in 0..Len(ts) : StateAfter(Append(ts, t), n) = StateAfter(ts, n)
           /\ StateAfter(Append(ts, t), Len(ts) + 1) = t.response.state
BY DEF StateAfter

\* What CommitTurn knows when it appends the turn: it extends the chain.
LEMMA CommitExtendsChain ==
    ASSUME RuntimeInv, NEW w \in Worker, CommitTurn(w)
    PROVE  LET s == call[w].session IN
             /\ s \in created /\ s \in Session
             /\ NewTurn(w) \in Turn
             /\ loaded[w] = state[s] /\ state[s] = StateAfter(turns[s], Len(turns[s]))
             /\ response[w] \in EngineResults(state[s])
             /\ \A i \in DOMAIN turns[s] : turns[s][i].request # call[w].request
             /\ turns' = [turns EXCEPT ![s] = Append(turns[s], NewTurn(w))]
             /\ state' = [state EXCEPT ![s] = response[w].state]
<1> DEFINE s == call[w].session
<1>1. TypeOK /\ TablesInv /\ WorkerInv(w) /\ pc[w] = "commit"
  BY RuntimeInvSplit DEF CommitTurn
<1>2. call[w] \in Call /\ response[w] \in Response /\ loaded[w] \in State
  BY <1>1 DEF TypeOK, WorkerTypeOK, HasResponse, InTransaction
<1>3. NewTurn(w) \in Turn
  BY <1>2 DEF NewTurn, Turn, Call
<1>4. s \in created /\ loaded[w] = state[s] /\ response[w] \in EngineResults(loaded[w])
  BY <1>1 DEF WorkerInv, TurnIsOpen, InTransaction
<1>5. \A i \in DOMAIN turns[s] : turns[s][i].request # call[w].request
  BY <1>1 DEF WorkerInv, Stored, StoredTurns
<1>6. s \in Session /\ state[s] = StateAfter(turns[s], Len(turns[s]))
  BY <1>1, <1>2 DEF TablesInv, TurnsFormChain, Call
<1> QED
  BY <1>3, <1>4, <1>5, <1>6 DEF CommitTurn

LEMMA CommitKeeps ==
    ASSUME RuntimeInv, NEW w \in Worker, CommitTurn(w)
    PROVE  TablesInv' /\ ViewsInv' /\ \A v \in Worker : WorkerInv(v)'
<1> DEFINE s == call[w].session
           t == NewTurn(w)
<1>1. TypeOK /\ TablesInv /\ ViewsInv /\ (\A v \in Worker : WorkerInv(v))
  BY RuntimeInvSplit
<1>2. /\ s \in created /\ s \in Session /\ t \in Turn
      /\ t.request = call[w].request /\ t.base = state[s] /\ t.response = response[w]
      /\ state[s] = StateAfter(turns[s], Len(turns[s]))
      /\ response[w] \in EngineResults(state[s])
      /\ \A i \in DOMAIN turns[s] : turns[s][i].request # t.request
      /\ turns' = [turns EXCEPT ![s] = Append(turns[s], t)]
      /\ state' = [state EXCEPT ![s] = t.response.state]
  BY CommitExtendsChain DEF NewTurn
<1>3. turns \in [Session -> Seq(Turn)] /\ turns[s] \in Seq(Turn) /\ state \in [Session -> State]
  BY <1>1, <1>2 DEF TypeOK, DatabaseTypeOK
<1> HIDE DEF s, t
<1>4. /\ turns'[s] = Append(turns[s], t)
      /\ Len(turns'[s]) = Len(turns[s]) + 1
      /\ DOMAIN turns'[s] = 1..(Len(turns[s]) + 1)
      /\ turns'[s][Len(turns[s]) + 1] = t
      /\ \A i \in DOMAIN turns[s] : turns'[s][i] = turns[s][i]
      /\ state'[s] = t.response.state
      /\ \A u \in Session \ {s} : turns'[u] = turns[u] /\ state'[u] = state[u]
  BY <1>2, <1>3
<1>5. /\ \A n \in 0..Len(turns[s]) : StateAfter(turns'[s], n) = StateAfter(turns[s], n)
      /\ StateAfter(turns'[s], Len(turns[s]) + 1) = t.response.state
  BY <1>2, <1>3, <1>4, StateAfterAppend
<1>6. ASSUME NEW u \in Session, NEW q, NEW res, IsStored(u, q, res)
      PROVE  IsStored(u, q, res)'
  <2>1. PICK i \in DOMAIN turns[u] : turns[u][i].request = q /\ turns[u][i].response = res
    BY <1>6 DEF IsStored
  <2>2. CASE u = s
    <3>1. i \in DOMAIN turns'[u] /\ turns'[u][i] = turns[u][i]
      BY <1>3, <1>4, <2>1, <2>2
    <3> QED
      BY <2>1, <3>1 DEF IsStored
  <2>3. CASE u # s
    BY <1>4, <2>1, <2>3 DEF IsStored
  <2> QED
    BY <2>2, <2>3
<1>7. TablesInv'
  <2>1. RowsBeforeTurns'
    BY <1>1, <1>2, <1>4 DEF CommitTurn, TablesInv, RowsBeforeTurns
  <2>2. OneTurnPerRequest'
    <3>1. ASSUME NEW u \in Session, NEW i \in DOMAIN turns'[u], NEW j \in DOMAIN turns'[u],
                 turns'[u][i].request = turns'[u][j].request
          PROVE  i = j
      BY <1>1, <1>2, <1>3, <1>4, <3>1 DEF TablesInv, OneTurnPerRequest
    <3> QED
      BY <3>1 DEF OneTurnPerRequest
  <2>3. TurnsFormChain'
    <3>1. ASSUME NEW u \in Session \ {s}
          PROVE  /\ \A i \in DOMAIN turns'[u] : turns'[u][i].base = StateAfter(turns'[u], i - 1)
                 /\ state'[u] = StateAfter(turns'[u], Len(turns'[u]))
      BY <1>1, <1>4 DEF TablesInv, TurnsFormChain
    <3>2. ASSUME NEW i \in DOMAIN turns'[s]
          PROVE  turns'[s][i].base = StateAfter(turns'[s], i - 1)
      <4>1. CASE i \in DOMAIN turns[s]
        <5>1. turns[s][i].base = StateAfter(turns[s], i - 1) /\ i - 1 \in 0..Len(turns[s])
          BY <1>1, <1>2, <1>3, <4>1 DEF TablesInv, TurnsFormChain
        <5> QED
          BY <1>4, <1>5, <4>1, <5>1
      <4>2. CASE i = Len(turns[s]) + 1
        <5>1. i - 1 = Len(turns[s]) /\ Len(turns[s]) \in 0..Len(turns[s])
          BY <1>3, <4>2
        <5>2. StateAfter(turns'[s], i - 1) = StateAfter(turns[s], Len(turns[s]))
          BY <1>5, <5>1
        <5>3. turns'[s][i] = t
          BY <1>4, <4>2
        <5> QED
          BY <1>2, <5>2, <5>3
      <4> QED
        BY <1>3, <1>4, <4>1, <4>2
    <3>3. state'[s] = StateAfter(turns'[s], Len(turns'[s]))
      BY <1>4, <1>5
    <3> QED
      BY <3>1, <3>2, <3>3 DEF TurnsFormChain, StateAfter
  <2>4. \A r \in replies' : IsStored(r.session, r.request, r.response)'
    BY <1>1, <1>6 DEF CommitTurn, TablesInv, TypeOK, ClientTypeOK, Reply
  <2> QED
    BY <2>1, <2>2, <2>3, <2>4 DEF TablesInv
<1>8. ViewsInv'
  <2>1. view' = view
    BY DEF CommitTurn
  <2>2. ASSUME NEW r \in Reader, view[r] # NoView, view[r].done = 1
        PROVE  \E n \in 0..Len(turns'[view[r].session]) :
                 view[r].state = StateAfter(turns'[view[r].session], n)
    <3> DEFINE u == view[r].session
    <3>1. u \in Session
      BY <1>1, <2>2 DEF TypeOK, ClientTypeOK, View
    <3>2. PICK n \in 0..Len(turns[u]) : view[r].state = StateAfter(turns[u], n)
      BY <1>1, <2>2 DEF ViewsInv, ViewStateWasStored
    <3> HIDE DEF u
    <3>3. CASE u = s
      <4>1. n \in 0..Len(turns'[s]) /\ StateAfter(turns'[s], n) = StateAfter(turns[s], n)
        BY <1>3, <1>4, <1>5, <3>2, <3>3
      <4> QED
        BY <3>2, <3>3, <4>1 DEF u
    <3>4. CASE u # s
      BY <1>4, <3>1, <3>2, <3>4 DEF u
    <3> QED
      BY <3>3, <3>4
  <2> QED
    BY <1>1, <2>1, <2>2 DEF ViewsInv, ViewStateWasStored, ViewIsExplained, StateAfter
<1>9. ASSUME NEW v \in Worker, v # w PROVE WorkerInv(v)'
  <2>1. /\ pc'[v] = pc[v] /\ call' = call /\ loaded' = loaded /\ response' = response
        /\ created' = created /\ \A u \in Session : rowLock[u] = v => rowLock'[u] = v
    BY <1>1, <1>9 DEF CommitTurn, Goto, ReleaseLock, TypeOK, WorkerTypeOK
  <2>2. WorkerInv(v) /\ (pc[v] # "idle" => call[v].session \in Session)
    BY <1>1 DEF TypeOK, WorkerTypeOK, Call
  <2>3. CASE call[v].session # s
    <3>1. CASE pc[v] = "idle"
      BY <2>1, <3>1 DEF WorkerInv, TurnIsOpen, InTransaction
    <3>2. CASE pc[v] # "idle"
      BY <1>4, <2>1, <2>2, <2>3, <3>2
         DEF WorkerInv, EngineResults, Stored, StoredTurns, IsStored, InTransaction
    <3> QED
      BY <3>1, <3>2
  <2>4. CASE call[v].session = s
    <3>1. pc[v] \notin InTransaction
      BY <1>1, <1>9, <2>4 DEF WorkerInv, CommitTurn, InTransaction, s
    <3>2. state[s] \in State /\ loaded[v] \in State
      BY <1>1, <1>2 DEF TypeOK, DatabaseTypeOK, WorkerTypeOK
    <3>3. \/ state'[s] = state[s]
          \/ state'[s].revision = state[s].revision + 1
      BY <1>2, <1>4, <3>2, EngineResultTyped
    <3>4. pc[v] = "reply" => IsStored(call[v].session, call[v].request, response[v])'
      BY <1>2, <1>6, <2>1, <2>2, <2>4 DEF WorkerInv, IsStored
    <3> QED
      BY <2>1, <2>2, <2>4, <3>1, <3>2, <3>3, <3>4
         DEF WorkerInv, EngineResults, State, TurnIsOpen, InTransaction
  <2> QED
    BY <2>3, <2>4
<1>10. WorkerInv(w)'
  <2>1. pc'[w] = "reply" /\ call' = call /\ response' = response
    BY <1>1 DEF CommitTurn, Goto, TypeOK, WorkerTypeOK
  <2>2. Len(turns[s]) + 1 \in DOMAIN turns'[s]
    BY <1>3, <1>4
  <2>3. IsStored(call[w].session, call[w].request, response[w])'
    BY <1>2, <1>4, <2>1, <2>2 DEF IsStored, s
  <2> QED
    BY <2>1, <2>3 DEF WorkerInv, TurnIsOpen, InTransaction
<1> QED
  BY <1>7, <1>8, <1>9, <1>10

LEMMA OneViewChanged ==
    ASSUME ViewsInv, NEW r \in Reader, turns' = turns,
           \A o \in Reader \ {r} : view'[o] = view[o],
           view'[r].done = 1 => \E n \in 0..Len(turns'[view'[r].session]) :
                                   view'[r].state = StateAfter(turns'[view'[r].session], n),
           view'[r].done = 2 => \E n \in 0..Len(view'[r].messages) :
                                   view'[r].state = StateAfter(view'[r].messages, n)
    PROVE  ViewsInv'
<1>1. ViewStateWasStored'
  <2> SUFFICES ASSUME NEW o \in Reader, view'[o] # NoView, view'[o].done = 1
               PROVE  \E n \in 0..Len(turns'[view'[o].session]) :
                         view'[o].state = StateAfter(turns'[view'[o].session], n)
    BY DEF ViewStateWasStored, StateAfter
  <2>1. CASE o = r
    BY <2>1
  <2>2. CASE o # r
    BY <2>2 DEF ViewsInv, ViewStateWasStored
  <2> QED
    BY <2>1, <2>2
<1>2. ViewIsExplained'
  <2> SUFFICES ASSUME NEW o \in Reader, view'[o] # NoView, view'[o].done = 2
               PROVE  \E n \in 0..Len(view'[o].messages) :
                         view'[o].state = StateAfter(view'[o].messages, n)
    BY DEF ViewIsExplained, StateAfter
  <2>1. CASE o = r
    BY <2>1
  <2>2. CASE o # r
    BY <2>2 DEF ViewsInv, ViewIsExplained
  <2> QED
    BY <2>1, <2>2
<1> QED
  BY <1>1, <1>2 DEF ViewsInv

LEMMA RuntimeInvStep == RuntimeInv /\ [Next]_vars => RuntimeInv'
<1> SUFFICES ASSUME RuntimeInv, [Next]_vars PROVE RuntimeInv'
  OBVIOUS
<1> USE DEF database, workers
<1>1. TypeOK /\ TablesInv /\ ViewsInv /\ (\A v \in Worker : WorkerInv(v))
  BY RuntimeInvSplit
<1>2. DatabaseTypeOK /\ WorkerTypeOK /\ ClientTypeOK
  BY <1>1 DEF TypeOK
<1>3. TypeOK'
  BY <1>1, TypeStep
<1>4. SUFFICES TablesInv' /\ ViewsInv' /\ (\A v \in Worker : WorkerInv(v)')
  BY <1>3
     DEF RuntimeInv, TablesInv, ViewsInv, WorkerInv, TransactionOwnsRow,
         LoadedIsAPastState, ResponseFollowsLoaded, CommitCannotCollide, AnswersAreStored
<1>5. ASSUME NEW s \in Session, CreateSession(s)
      PROVE  TablesInv' /\ ViewsInv' /\ (\A v \in Worker : WorkerInv(v)')
  <2>1. state[s] = EmptyState /\ turns[s] = <<>> /\ s \notin created
    BY <1>1, <1>5 DEF CreateSession, TablesInv, RowsBeforeTurns
  <2>2. state' = state
    BY <1>2, <1>5, <2>1 DEF CreateSession, DatabaseTypeOK
  <2>3. created' = created \cup {s} /\ UNCHANGED <<turns, rowLock, pc, call, loaded, response, view, replies>>
    BY <1>5 DEF CreateSession
  <2>4. TablesInv'
    BY <1>1, <2>2, <2>3
       DEF TablesInv, RowsBeforeTurns, OneTurnPerRequest, TurnsFormChain, StateAfter, IsStored
  <2>5. ASSUME NEW v \in Worker PROVE WorkerInv(v)'
    BY <1>1, <2>2, <2>3 DEF WorkerInv, EngineResults, Stored, StoredTurns, IsStored
  <2> QED
    BY <1>1, <2>3, <2>4, <2>5, ViewsKept
<1>6. ASSUME NEW w \in Worker, NEW s \in Session, NEW q \in Request,
             NEW n \in Revision, Post(w, s, q, n)
      PROVE  TablesInv' /\ ViewsInv' /\ (\A v \in Worker : WorkerInv(v)')
  <2>1. OnlyWorker(w)
    BY <1>2, <1>6 DEF Post, Goto, OnlyWorker, WorkerTypeOK
  <2>2. WorkerInv(w)'
    BY <1>2, <1>6 DEF Post, Goto, WorkerTypeOK, WorkerInv, TurnIsOpen, InTransaction
  <2> QED
    BY <1>1, <1>2, <1>6, <2>1, <2>2, OtherWorkersKept, TablesKept, ViewsKept DEF Post
<1>7. ASSUME NEW w \in Worker,
             \/ GetReplay(w) \/ GetState(w) \/ HandleTurn(w) \/ EngineRaises(w)
             \/ LockSession(w) \/ Recheck(w) \/ InsertTurn(w) \/ UpdateState(w)
      PROVE  TablesInv' /\ ViewsInv' /\ (\A v \in Worker : WorkerInv(v)')
  <2>1. UNCHANGED <<created, state, turns, view, replies>>
    BY <1>7 DEF GetReplay, GetState, HandleTurn, EngineRaises, LockSession, Recheck, InsertTurn, UpdateState
  <2> QED
    BY <1>1, <1>7, <2>1, WorkerStepKeeps, TablesKept, ViewsKept
<1>8. ASSUME NEW w \in Worker, CommitTurn(w)
      PROVE  TablesInv' /\ ViewsInv' /\ (\A v \in Worker : WorkerInv(v)')
  BY <1>8, CommitKeeps
<1>9. ASSUME NEW w \in Worker, SendReply(w)
      PROVE  TablesInv' /\ ViewsInv' /\ (\A v \in Worker : WorkerInv(v)')
  <2>1. IsStored(call[w].session, call[w].request, response[w])
    BY <1>1, <1>9 DEF SendReply, WorkerInv
  <2>2. TablesInv'
    BY <1>1, <1>9, <2>1
       DEF SendReply, TablesInv, RowsBeforeTurns, OneTurnPerRequest, TurnsFormChain, StateAfter, IsStored
  <2> QED
    BY <1>1, <1>2, <1>9, <2>2, FinishKeeps, ViewsKept DEF SendReply
<1>10. ASSUME NEW w \in Worker, Fail(w)
       PROVE  TablesInv' /\ ViewsInv' /\ (\A v \in Worker : WorkerInv(v)')
  BY <1>1, <1>2, <1>10, FinishKeeps, TablesKept, ViewsKept DEF Fail
<1>11. ASSUME NEW r \in Reader, UNCHANGED <<database, workers, replies>>, ViewsInv'
       PROVE  TablesInv' /\ ViewsInv' /\ (\A v \in Worker : WorkerInv(v)')
  BY <1>1, <1>11, TablesKept DEF WorkerInv, EngineResults, Stored, StoredTurns, IsStored
<1>12. ASSUME NEW r \in Reader, NEW s \in Session, BeginView(r, s) PROVE ViewsInv'
  BY <1>1, <1>2, <1>12 DEF BeginView, ClientTypeOK, ViewsInv, ViewStateWasStored, ViewIsExplained, StateAfter
<1>13. ASSUME NEW r \in Reader, ReadTable(r) PROVE ViewsInv'
  <2>1. view[r] \in View /\ view[r].done \in {0, 1}
    BY <1>2, <1>13 DEF ReadTable, ClientTypeOK, View
  <2>2. view[r].session \in Session
    BY <2>1 DEF View
  <2>3. /\ view'[r].done = view[r].done + 1
        /\ view'[r].session = view[r].session
        /\ view[r].done = 0 => view'[r].state = state[view[r].session]
        /\ view[r].done = 1 => /\ view'[r].state = view[r].state
                               /\ view'[r].messages = turns[view[r].session]
        /\ \A o \in Reader \ {r} : view'[o] = view[o]
        /\ turns' = turns
    <3>1. /\ view[r].done = 0 => Statements[view[r].done + 1] = "session_state"
          /\ view[r].done = 1 => Statements[view[r].done + 1] = "turn_message"
      BY <2>1 DEF Statements
    <3> QED
      BY <1>2, <1>13, <2>1, <3>1 DEF ReadTable, ClientTypeOK, View
  <2>4. CASE view[r].done = 0
    <3>1. Len(turns[view[r].session]) \in 0..Len(turns[view[r].session])
      BY <1>2, <2>2 DEF DatabaseTypeOK
    <3>2. state[view[r].session] = StateAfter(turns[view[r].session], Len(turns[view[r].session]))
      BY <1>1, <2>2 DEF TablesInv, TurnsFormChain
    <3>3. \E n \in 0..Len(turns'[view'[r].session]) :
             view'[r].state = StateAfter(turns'[view'[r].session], n)
      BY <2>3, <2>4, <3>1, <3>2
    <3> QED
      BY <1>1, <2>3, <2>4, <3>3, OneViewChanged
  <2>5. CASE view[r].done = 1
    <3>1. view[r] # NoView
      BY <1>13 DEF ReadTable
    <3>2. \E n \in 0..Len(view'[r].messages) : view'[r].state = StateAfter(view'[r].messages, n)
      BY <1>1, <2>3, <2>5, <3>1 DEF ViewsInv, ViewStateWasStored
    <3> QED
      BY <1>1, <2>3, <2>5, <3>2, OneViewChanged
  <2> QED
    BY <2>1, <2>4, <2>5
<1>14. ASSUME NEW r \in Reader, ReturnView(r) PROVE ViewsInv'
  BY <1>1, <1>2, <1>14 DEF ReturnView, ClientTypeOK, ViewsInv, ViewStateWasStored, ViewIsExplained, StateAfter
<1>15. CASE UNCHANGED vars
  BY <1>1, <1>15, TablesKept, ViewsKept
     DEF vars, WorkerInv, EngineResults, Stored, StoredTurns, IsStored
<1>16. CASE \E r \in Reader, s \in Session : BeginView(r, s)
  BY <1>11, <1>12, <1>16 DEF BeginView
<1>17. CASE \E r \in Reader : ReadTable(r) \/ ReturnView(r)
  BY <1>11, <1>13, <1>14, <1>17 DEF ReadTable, ReturnView
<1> QED
  BY <1>5, <1>6, <1>7, <1>8, <1>9, <1>10, <1>15, <1>16, <1>17 DEF Next, WorkerStep

-----------------------------------------------------------------------------
LEMMA RuntimeInvariant == Spec => []RuntimeInv
BY RuntimeInvInit, RuntimeInvStep, PTL DEF Spec

(***************************************************************************)
(* No lost update: every stored turn was computed from exactly the state   *)
(* its predecessor left, for any number of concurrent workers.             *)
(***************************************************************************)
THEOREM ChainHolds == Spec => []TurnsFormChain
<1>1. RuntimeInv => TurnsFormChain
  BY DEF RuntimeInv
<1> QED
  BY <1>1, RuntimeInvariant, PTL

(***************************************************************************)
(* Idempotent retries: all answers a client gets to one request are the    *)
(* stored response of its only turn.                                       *)
(***************************************************************************)
THEOREM RetriesAreIdempotent == Spec => []RepliesAreTheStoredTurn
<1>1. RuntimeInv => RepliesAreTheStoredTurn
  <2> SUFFICES ASSUME RuntimeInv, NEW r \in replies
               PROVE  \E i \in DOMAIN turns[r.session] :
                         /\ turns[r.session][i].response = r.response
                         /\ \A j \in DOMAIN turns[r.session] :
                               turns[r.session][j].request = r.request <=> j = i
    BY DEF RepliesAreTheStoredTurn
  <2>1. r.session \in Session
    BY DEF RuntimeInv, TypeOK, ClientTypeOK, Reply
  <2>2. PICK i \in DOMAIN turns[r.session] :
            /\ turns[r.session][i].request = r.request
            /\ turns[r.session][i].response = r.response
    BY DEF RuntimeInv, AnswersAreStored, IsStored
  <2>3. \A j \in DOMAIN turns[r.session] : turns[r.session][j].request = r.request => j = i
    BY <2>1, <2>2 DEF RuntimeInv, OneTurnPerRequest
  <2> QED
    BY <2>2, <2>3
<1> QED
  BY <1>1, RuntimeInvariant, PTL

(***************************************************************************)
(* The row lock and the second look for a stored answer are enough: no     *)
(* copy of a request ends in a constraint violation.                       *)
(***************************************************************************)
THEOREM CommitsDoNotCollide == Spec => []CommitCannotCollide
<1>1. RuntimeInv => CommitCannotCollide
  BY DEF RuntimeInv
<1> QED
  BY <1>1, RuntimeInvariant, PTL

(***************************************************************************)
(* GET /sessions/{id} never returns a state its messages cannot explain.   *)
(***************************************************************************)
THEOREM ViewsAreExplained == Spec => []ViewIsExplained
<1>1. RuntimeInv => ViewIsExplained
  BY DEF RuntimeInv
<1> QED
  BY <1>1, RuntimeInvariant, PTL

-----------------------------------------------------------------------------
\* Only CommitTurn writes turns, only SendReply writes replies, and creating a
\* session writes the state it stands for already.
LEMMA WhoWrites ==
    ASSUME RuntimeInv, [Next]_vars
    PROVE  \/ \E w \in Worker : CommitTurn(w)
           \/ \E w \in Worker : SendReply(w)
           \/ UNCHANGED <<turns, state, replies>>
<1> USE DEF database
<1>1. ASSUME NEW s \in Session, CreateSession(s) PROVE UNCHANGED <<turns, state, replies>>
  BY <1>1 DEF CreateSession, RuntimeInv, RowsBeforeTurns, TypeOK, DatabaseTypeOK
<1>2. ASSUME NEW w \in Worker, NEW s \in Session, NEW q \in Request,
             NEW n \in Revision, Post(w, s, q, n)
      PROVE  UNCHANGED <<turns, state, replies>>
  BY <1>2 DEF Post
<1>3. ASSUME NEW w \in Worker, WorkerStep(w), ~ CommitTurn(w), ~ SendReply(w)
      PROVE  UNCHANGED <<turns, state, replies>>
  BY <1>3 DEF WorkerStep, GetReplay, GetState, HandleTurn, EngineRaises,
              LockSession, Recheck, InsertTurn, UpdateState
<1>4. ASSUME NEW w \in Worker, Fail(w) PROVE UNCHANGED <<turns, state, replies>>
  BY <1>4 DEF Fail
<1>5. ASSUME NEW r \in Reader, \/ \E s \in Session : BeginView(r, s)
                               \/ ReadTable(r) \/ ReturnView(r)
      PROVE  UNCHANGED <<turns, state, replies>>
  BY <1>5 DEF BeginView, ReadTable, ReturnView
<1>6. CASE UNCHANGED vars
  BY <1>6 DEF vars
<1> QED
  BY <1>1, <1>2, <1>3, <1>4, <1>5, <1>6 DEF Next

(***************************************************************************)
(* Every step appends at most one turn to a session, rewrites none, and    *)
(* moves its revision by at most one, never changing the context under an  *)
(* unchanged revision.                                                     *)
(***************************************************************************)
THEOREM HistoryOnlyGrows == Spec => HistoryGrowsByTurns
<1> DEFINE Grows(s) ==
      /\ \/ turns'[s] = turns[s]
         \/ \E w \in Worker : /\ pc[w] = "commit"
                              /\ turns'[s] = Append(turns[s], NewTurn(w))
      /\ state'[s].revision \in {state[s].revision, state[s].revision + 1}
      /\ state'[s].revision = state[s].revision => state'[s] = state[s]
<1>1. ASSUME RuntimeInv, [Next]_vars, NEW s \in Session PROVE Grows(s)
  <2>1. state \in [Session -> State] /\ turns \in [Session -> Seq(Turn)]
    BY <1>1 DEF RuntimeInv, TypeOK, DatabaseTypeOK
  <2>2. CASE \E w \in Worker : CommitTurn(w)
    <3>1. PICK w \in Worker : CommitTurn(w)
      BY <2>2
    <3>2. pc[w] = "commit"
      BY <3>1 DEF CommitTurn
    <3>3. /\ response[w] \in EngineResults(state[call[w].session])
          /\ call[w].session \in Session
          /\ turns' = [turns EXCEPT ![call[w].session] = Append(turns[call[w].session], NewTurn(w))]
          /\ state' = [state EXCEPT ![call[w].session] = response[w].state]
      BY <1>1, <3>1, CommitExtendsChain
    <3>4. CASE s = call[w].session
      <4>1. \/ state'[s] = state[s]
            \/ state'[s].revision = state[s].revision + 1
        BY <2>1, <3>3, <3>4, EngineResultTyped
      <4>2. turns'[s] = Append(turns[s], NewTurn(w))
        BY <2>1, <3>3, <3>4
      <4>3. state[s].revision \in Nat
        BY <2>1 DEF State
      <4> QED
        BY <3>2, <4>1, <4>2, <4>3
    <3>5. CASE s # call[w].session
      BY <2>1, <3>3, <3>5
    <3> QED
      BY <3>4, <3>5
  <2>3. CASE \E w \in Worker : SendReply(w)
    BY <2>3 DEF SendReply, database
  <2>4. CASE UNCHANGED <<turns, state, replies>>
    BY <2>4
  <2> QED
    BY <1>1, <2>2, <2>3, <2>4, WhoWrites
<1>2. ASSUME RuntimeInv, [Next]_vars PROVE [\A s \in Session : Grows(s)]_vars
  BY <1>1, <1>2
<1> QED
  BY <1>2, RuntimeInvariant, PTL DEF Spec, HistoryGrowsByTurns

(***************************************************************************)
(* The runtime implements the abstract ledger of turns.                    *)
(***************************************************************************)
THEOREM RuntimeIsALedger == Spec => IsTurnLedger
<1>1. Init => Ledger!Init
  BY DEF Init, Ledger!Init
<1>2. ASSUME RuntimeInv, [Next]_vars PROVE [Ledger!Next]_<<turns, replies>>
  <2>1. CASE \E w \in Worker : CommitTurn(w)
    <3>1. PICK w \in Worker : CommitTurn(w)
      BY <2>1
    <3> DEFINE s == call[w].session
               q == call[w].request
    <3>2. /\ s \in Session
          /\ loaded[w] = state[s] /\ state[s] = StateAfter(turns[s], Len(turns[s]))
          /\ response[w] \in EngineResults(state[s])
          /\ \A i \in DOMAIN turns[s] : turns[s][i].request # q
          /\ turns' = [turns EXCEPT ![s] = Append(turns[s], NewTurn(w))]
      BY <1>2, <3>1, CommitExtendsChain
    <3>3. q \in Request
      BY <1>2, <3>1 DEF CommitTurn, RuntimeInv, TypeOK, WorkerTypeOK, Call
    <3>4. turns[s] \in Seq(Turn)
      BY <1>2, <3>2 DEF RuntimeInv, TypeOK, DatabaseTypeOK
    <3>5. Ledger!Current(s) = state[s]
      BY <3>2, <3>4 DEF Ledger!Current, Ledger!EmptyState, StateAfter, EmptyState
    <3>6. response[w] \in Ledger!Results(state[s])
      BY <3>2 DEF Ledger!Results, EngineResults
    <3>7. turns' = [turns EXCEPT ![s] = Append(@, [request  |-> q,
                                                  base     |-> Ledger!Current(s),
                                                  response |-> response[w]])]
      BY <3>2, <3>5 DEF NewTurn
    <3>8. Ledger!TakeTurn(s, q)
      BY <3>1, <3>2, <3>5, <3>6, <3>7 DEF Ledger!TakeTurn, CommitTurn
    <3> QED
      BY <3>2, <3>3, <3>8 DEF Ledger!Next
  <2>2. CASE \E w \in Worker : SendReply(w)
    <3>1. PICK w \in Worker : SendReply(w)
      BY <2>2
    <3>2. PICK i \in DOMAIN turns[call[w].session] :
              /\ turns[call[w].session][i].request = call[w].request
              /\ turns[call[w].session][i].response = response[w]
      BY <1>2, <3>1 DEF SendReply, RuntimeInv, AnswersAreStored, IsStored
    <3>3. Ledger!GiveAnswer(call[w].session, i)
      BY <3>1, <3>2 DEF SendReply, database, Ledger!GiveAnswer
    <3>4. call[w].session \in Session
      BY <1>2, <3>1 DEF SendReply, RuntimeInv, TypeOK, WorkerTypeOK, Call
    <3> QED
      BY <3>3, <3>4 DEF Ledger!Next
  <2>3. CASE UNCHANGED <<turns, state, replies>>
    BY <2>3
  <2> QED
    BY <1>2, <2>1, <2>2, <2>3, WhoWrites
<1> QED
  BY <1>1, <1>2, RuntimeInvariant, PTL DEF Spec, IsTurnLedger, Ledger!Spec

-----------------------------------------------------------------------------
(* The page: its steps are steps of the runtime, and what it remembers.    *)

\* What every step of a worker is to the others and to the page.
Moves(w) ==
    /\ pc[w] # "idle"
    /\ created' = created
    /\ \A v \in Worker \ {w} : /\ pc'[v] = pc[v] /\ call'[v] = call[v]
                               /\ loaded'[v] = loaded[v] /\ response'[v] = response[v]
    /\ pc'[w] # "idle" => call'[w] = call[w] /\ pc[w] # "reply"
    /\ CommitTurn(w) \/ UNCHANGED <<turns, state>>

LEMMA WorkerMoves ==
    ASSUME WorkerTypeOK, NEW w \in Worker, WorkerStep(w) \/ Fail(w)
    PROVE  Moves(w)
<1> USE DEF Moves, WorkerTypeOK, database
<1>1. CASE GetReplay(w)
  BY <1>1 DEF GetReplay, Replay, Goto
<1>2. CASE GetState(w)
  BY <1>2 DEF GetState, Finish, Goto
<1>3. CASE HandleTurn(w)
  BY <1>3 DEF HandleTurn, Goto
<1>4. CASE EngineRaises(w)
  BY <1>4 DEF EngineRaises, Finish
<1>5. CASE LockSession(w)
  BY <1>5 DEF LockSession, Finish, Goto
<1>6. CASE Recheck(w)
  BY <1>6 DEF Recheck, Replay, Finish, Goto
<1>7. CASE InsertTurn(w)
  BY <1>7 DEF InsertTurn, Finish, Goto
<1>8. CASE UpdateState(w)
  BY <1>8 DEF UpdateState, Finish, Goto
<1>9. CASE CommitTurn(w)
  BY <1>9 DEF CommitTurn, Goto
<1>10. CASE SendReply(w)
  BY <1>10 DEF SendReply, Finish
<1>11. CASE Fail(w)
  BY <1>11 DEF Fail, Finish
<1> QED
  BY <1>1, <1>2, <1>3, <1>4, <1>5, <1>6, <1>7, <1>8, <1>9, <1>10, <1>11 DEF WorkerStep

LEMMA FreshIsMember ==
    ASSUME NEW ids, ids # {}
    PROVE  Fresh(ids) \in ids
BY DEF Fresh

LEMMA PageStepIsRuntimeStep ==
    ASSUME Revision = Nat, PageInv, PageNext
    PROVE  [Next]_vars
<1>1. ASSUME NEW s \in Session, CreateSession(s) PROVE Next
  BY <1>1 DEF Next
<1>2. CASE OpenSession \/ SessionFails
  <2>1. CASE UNCHANGED vars
    BY <2>1
  <2>2. CASE created # Session /\ CreateSession(Fresh(Session \ created))
    <3>1. Fresh(Session \ created) \in Session
      BY <2>2, FreshIsMember DEF PageInv, RuntimeInv, TypeOK, DatabaseTypeOK
    <3> QED
      BY <1>1, <2>2, <3>1
  <2> QED
    BY <1>2, <2>1, <2>2 DEF OpenSession, SessionFails
<1>3. CASE SendMessage
  <2>1. Fresh(Idle) \in Worker /\ Fresh(Request \ sent) \in Request
    <3>1. Idle # {} /\ Request \ sent # {}
      BY <1>3 DEF SendMessage, PageInv, PageTypeOK
    <3>2. Fresh(Idle) \in Idle /\ Fresh(Request \ sent) \in Request \ sent
      BY <3>1, FreshIsMember
    <3> QED
      BY <3>2 DEF Idle
  <2>2. sessionId \in Session /\ revision \in Revision
    BY <1>3 DEF SendMessage, PageInv, PageTypeOK, SessionIsCreated
  <2>3. Post(Fresh(Idle), sessionId, Fresh(Request \ sent), revision)
    BY <1>3 DEF SendMessage
  <2> QED
    BY <2>1, <2>2, <2>3 DEF Next
<1>4. ASSUME NEW w \in Worker, Serves(w) \/ Breaks(w) PROVE Next
  BY <1>4 DEF Serves, Breaks, Works, Answers, Refuses, Raises, WorkerStep, Next
<1>5. CASE Submit \/ OutOfRequests \/ Disconnect \/ Reload
  BY <1>5 DEF Submit, OutOfRequests, Disconnect, Reload
<1> QED
  BY <1>2, <1>3, <1>4, <1>5 DEF PageNext, SubmitStep

LEMMA TurnsGrow ==
    ASSUME RuntimeInv, [Next]_vars, NEW s \in Session
    PROVE  /\ turns[s] \in Seq(Turn) /\ turns'[s] \in Seq(Turn)
           /\ \A j \in DOMAIN turns[s] : /\ j \in DOMAIN turns'[s]
                                         /\ turns'[s][j] = turns[s][j]
<1>1. turns \in [Session -> Seq(Turn)] /\ turns' \in [Session -> Seq(Turn)]
  BY RuntimeInvStep DEF RuntimeInv, TypeOK, DatabaseTypeOK
<1>2. CASE UNCHANGED turns
  BY <1>1, <1>2
<1>3. ASSUME NEW w \in Worker, CommitTurn(w)
      PROVE  \A j \in DOMAIN turns[s] : /\ j \in DOMAIN turns'[s]
                                        /\ turns'[s][j] = turns[s][j]
  <2>1. /\ turns' = [turns EXCEPT ![call[w].session] = Append(turns[call[w].session], NewTurn(w))]
        /\ NewTurn(w) \in Turn
    BY <1>3, CommitExtendsChain
  <2> QED
    BY <1>1, <2>1
<1> QED
  BY <1>1, <1>2, <1>3, WhoWrites DEF SendReply, database

LEMMA StatesStayPast ==
    ASSUME RuntimeInv, [Next]_vars, StatesArePast
    PROVE  StatesArePast'
<1>1. CASE UNCHANGED <<turns, state>>
  BY <1>1 DEF StatesArePast, StatesOf
<1>2. ASSUME NEW w \in Worker, CommitTurn(w)
      PROVE  StatesArePast'
  <2> SUFFICES ASSUME NEW s \in Session, NEW past \in StatesOf(s)'
               PROVE  /\ past.revision <= state'[s].revision
                      /\ past.revision = state'[s].revision => past = state'[s]
    BY DEF StatesArePast
  <2> DEFINE t == call[w].session
  <2>1. /\ t \in Session /\ NewTurn(w) \in Turn
        /\ response[w] \in EngineResults(state[t])
        /\ turns' = [turns EXCEPT ![t] = Append(turns[t], NewTurn(w))]
        /\ state' = [state EXCEPT ![t] = response[w].state]
    BY <1>2, CommitExtendsChain
  <2>2. state \in [Session -> State] /\ turns \in [Session -> Seq(Turn)]
    BY DEF RuntimeInv, TypeOK, DatabaseTypeOK
  <2>3. CASE s # t
    BY <2>1, <2>2, <2>3 DEF StatesArePast, StatesOf
  <2>4. CASE s = t
    <3>1. /\ response[w].state = state[t] \/ response[w].state.revision = state[t].revision + 1
          /\ state[t].revision \in Nat /\ response[w].state.revision \in Nat
      BY <2>1, <2>2, EngineResultTyped DEF State, Response
    <3>2. state'[s] = response[w].state /\ turns'[s] = Append(turns[s], NewTurn(w))
      BY <2>1, <2>2, <2>4
    <3>3. past = response[w].state \/ past \in StatesOf(s)
      <4>1. CASE past = EmptyState
        BY <4>1 DEF StatesOf
      <4>2. CASE \E i \in DOMAIN turns'[s] : past = turns'[s][i].response.state
        <5>1. PICK i \in DOMAIN turns'[s] : past = turns'[s][i].response.state
          BY <4>2
        <5>2. turns[s] \in Seq(Turn)
          BY <2>2
        <5>3. CASE i \in DOMAIN turns[s]
          BY <3>2, <5>1, <5>2, <5>3, <2>1 DEF StatesOf
        <5>4. CASE i = Len(turns[s]) + 1
          BY <3>2, <5>1, <5>2, <5>4, <2>1 DEF NewTurn
        <5> QED
          BY <2>1, <3>2, <5>1, <5>2, <5>3, <5>4
      <4> QED
        BY <4>1, <4>2 DEF StatesOf
    <3>4. past \in StatesOf(s) => past.revision \in Nat
      <4>1. EmptyState.revision = 0
        BY DEF EmptyState
      <4>2. ASSUME NEW i \in DOMAIN turns[s] PROVE turns[s][i].response.state.revision \in Nat
        <5>1. turns[s][i] \in Turn
          BY <2>2
        <5> QED
          BY <5>1 DEF Turn, Response, State
      <4> QED
        BY <4>1, <4>2 DEF StatesOf
    <3>5. CASE past = response[w].state
      BY <3>1, <3>2, <3>5
    <3>6. CASE past \in StatesOf(s)
      <4> DEFINE p == past.revision
                 n == state[s].revision
                 m == response[w].state.revision
      <4>1. p \in Nat /\ n \in Nat /\ m \in Nat /\ p <= n /\ (p = n => past = state[s])
        <5>1. p \in Nat
          BY <3>4, <3>6
        <5>2. n \in Nat /\ m \in Nat
          BY <2>4, <3>1
        <5>3. p <= n /\ (p = n => past = state[s])
          BY <3>6 DEF StatesArePast
        <5> QED
          BY <5>1, <5>2, <5>3
      <4>2. response[w].state = state[s] \/ m = n + 1
        BY <2>4, <3>1
      <4>3. CASE response[w].state = state[s]
        BY <3>2, <4>1, <4>3
      <4>4. CASE m = n + 1
        <5> HIDE DEF p, n, m
        <5>1. p <= m /\ p # m
          BY <4>1, <4>4
        <5> QED
          BY <3>2, <5>1 DEF p, m
      <4> QED
        BY <4>2, <4>3, <4>4
    <3> QED
      BY <3>3, <3>5, <3>6
  <2> QED
    BY <2>3, <2>4
<1> QED
  BY <1>1, <1>2, WhoWrites DEF SendReply, database

LEMMA RequestsStayFresh ==
    ASSUME RuntimeInv, RequestsAreFresh, NEW w \in Worker, Moves(w), sent' = sent
    PROVE  RequestsAreFresh'
<1> DEFINE Uses(v) ==
        /\ call[v].session \in created
        /\ call[v].request \in sent
        /\ \A u \in Worker : (pc[u] # "idle" /\ call[u].request = call[v].request) => u = v
        /\ pc[v] # "reply" => \A s \in Session : StoredTurns(s, call[v].request) = {}
<1>1. /\ \A v \in Worker : pc[v] # "idle" => Uses(v)
      /\ \A s \in Session : \A i \in DOMAIN turns[s] : turns[s][i].request \in sent
  BY DEF RequestsAreFresh
<1>2. /\ created' = created /\ pc[w] # "idle"
      /\ \A v \in Worker : pc'[v] # "idle" => /\ pc[v] # "idle" /\ call'[v] = call[v]
                                              /\ pc'[v] # "reply" => pc[v] # "reply"
  BY DEF Moves
<1>3. CASE UNCHANGED <<turns, state>>
  BY <1>1, <1>2, <1>3 DEF RequestsAreFresh, StoredTurns
<1>4. CASE CommitTurn(w)
  <2> DEFINE t == call[w].session
  <2>1. /\ t \in Session /\ NewTurn(w) \in Turn
        /\ turns' = [turns EXCEPT ![t] = Append(turns[t], NewTurn(w))]
    BY <1>4, CommitExtendsChain
  <2>2. turns \in [Session -> Seq(Turn)]
    BY DEF RuntimeInv, TypeOK, DatabaseTypeOK
  <2>3. pc'[w] = "reply"
    BY <1>4 DEF CommitTurn, Goto, RuntimeInv, TypeOK, WorkerTypeOK
  <2>4. NewTurn(w).request = call[w].request
    BY DEF NewTurn
  <2>5. ASSUME NEW s \in Session, NEW i \in DOMAIN turns'[s]
        PROVE  \/ i \in DOMAIN turns[s] /\ turns'[s][i] = turns[s][i]
               \/ turns'[s][i] = NewTurn(w)
    BY <2>1, <2>2
  <2> HIDE DEF t
  <2>6. \A s \in Session : \A i \in DOMAIN turns'[s] : turns'[s][i].request \in sent
    BY <1>1, <1>2, <2>4, <2>5
  <2>7. ASSUME NEW v \in Worker, pc'[v] # "idle", pc'[v] # "reply", NEW s \in Session
        PROVE  StoredTurns(s, call[v].request)' = {}
    <3>1. v # w /\ call'[v] = call[v] /\ StoredTurns(s, call[v].request) = {}
      BY <1>1, <1>2, <2>3, <2>7
    <3>2. call[v].request # call[w].request
      BY <1>1, <1>2, <2>7, <3>1
    <3> QED
      BY <2>4, <2>5, <3>1, <3>2 DEF StoredTurns
  <2> QED
    BY <1>1, <1>2, <2>6, <2>7 DEF RequestsAreFresh
<1> QED
  BY <1>3, <1>4 DEF Moves

\* What the page was told last is a state its session was in.
LEMMA ToldIsPast ==
    ASSUME PageInv
    PROVE  /\ Told \in State
           /\ sessionId # NoSession => Told \in StatesOf(sessionId)
<1>1. /\ shown \in Seq([request : Request, response : Response])
      /\ ShownAnswersFollowOn /\ SessionIsCreated
  BY DEF PageInv, PageTypeOK
<1>2. CASE shown = <<>>
  BY <1>2, RuntimeAssumption DEF Told, StatesOf, EmptyState, State
<1>3. CASE shown # <<>>
  <2>1. Len(shown) \in DOMAIN shown /\ Told = shown[Len(shown)].response.state
    BY <1>1, <1>3 DEF Told
  <2>2. shown[Len(shown)] \in [request : Request, response : Response]
    <3> DEFINE Shown == [request : Request, response : Response]
    <3>1. shown \in Seq(Shown)
      BY <1>1
    <3> HIDE DEF Shown
    <3>2. shown[Len(shown)] \in Shown
      BY <2>1, <3>1
    <3> QED
      BY <3>2 DEF Shown
  <2>3. Told \in State
    BY <2>1, <2>2 DEF Response
  <2>4. PICK j \in DOMAIN turns[sessionId] :
           turns[sessionId][j].response = shown[Len(shown)].response
    BY <1>1, <2>1 DEF ShownAnswersFollowOn
  <2> QED
    BY <2>1, <2>3, <2>4 DEF StatesOf
<1> QED
  BY <1>2, <1>3

\* An answer the page shows was stored in its session, and stays there.
LEMMA AnswersStayShown ==
    ASSUME PageInv, [Next]_vars, UNCHANGED <<sessionId, shown>>
    PROVE  ShownAnswersFollowOn'
<1>1. CASE sessionId = NoSession
  BY <1>1 DEF PageInv, SessionIsCreated, ShownAnswersFollowOn
<1>2. CASE sessionId # NoSession
  <2>1. sessionId \in Session /\ RuntimeInv
    BY <1>2 DEF PageInv, PageTypeOK
  <2>2. \A j \in DOMAIN turns[sessionId] :
           /\ j \in DOMAIN turns'[sessionId]
           /\ turns'[sessionId][j] = turns[sessionId][j]
    BY <2>1, TurnsGrow
  <2> QED
    BY <2>2 DEF PageInv, ShownAnswersFollowOn
<1> QED
  BY <1>1, <1>2

\* The page's own part of the invariant.
PageRest ==
    /\ PageTypeOK
    /\ SessionIsCreated
    /\ ServerHasThePost
    /\ PageRemembersTold
    /\ ServerContinues
    /\ NothingIsMissed
    /\ ShownAnswersFollowOn
    /\ RefusedOnlyAfterLoss

\* A page that waits has a session and a worker.
LEMMA WaitingPage ==
    ASSUME PageInv, server \in Worker
    PROVE  /\ stage = "waiting" /\ sessionId \in Session /\ sessionId \in created
           /\ call[server] \in Call /\ call[server].session = sessionId
           /\ call[server].given = revision /\ revision = Told.revision
           /\ pc[server] # "idle"
<1>1. stage = "waiting"
  BY DEF PageInv, PageTypeOK
<1>2. sessionId # NoSession
  BY <1>1 DEF PageInv, SessionIsCreated
<1>3. call[server] \in Call
  BY DEF PageInv, ServerHasThePost, RuntimeInv, TypeOK, WorkerTypeOK
<1> QED
  BY <1>1, <1>2, <1>3
     DEF PageInv, PageTypeOK, SessionIsCreated, ServerHasThePost, PageRemembersTold

\* Another worker's step leaves the page as it was.
LEMMA OthersWork ==
    ASSUME PageInv, [Next]_vars, NEW w \in Worker, Moves(w), server # w, UNCHANGED page
    PROVE  PageRest'
<1>1. UNCHANGED <<sessionId, revision, stage, server, shown, sent, heard, lost>>
  BY DEF page, memory, history
<1>2. RuntimeInv /\ PageTypeOK /\ SessionIsCreated /\ ServerHasThePost /\ PageRemembersTold
      /\ ServerContinues /\ NothingIsMissed /\ RefusedOnlyAfterLoss
  BY DEF PageInv
<1>3. PageTypeOK' /\ PageRemembersTold' /\ RefusedOnlyAfterLoss' /\ Told' = Told
  BY <1>1, <1>2 DEF PageTypeOK, PageRemembersTold, RefusedOnlyAfterLoss, Told
<1>4. SessionIsCreated'
  BY <1>1, <1>2 DEF SessionIsCreated, Moves
<1>5. server \in Worker => /\ pc'[server] = pc[server] /\ call'[server] = call[server]
                           /\ loaded'[server] = loaded[server]
                           /\ response'[server] = response[server]
  BY DEF Moves
<1>6. ServerHasThePost'
  BY <1>1, <1>2, <1>5 DEF ServerHasThePost
<1>7. ServerContinues'
  <2> SUFFICES ASSUME server \in Worker
               PROVE  ServerContinues'
    BY <1>1 DEF ServerContinues
  <2>1. \A j \in DOMAIN turns[sessionId] : /\ j \in DOMAIN turns'[sessionId]
                                           /\ turns'[sessionId][j] = turns[sessionId][j]
    BY <1>2, WaitingPage, TurnsGrow
  <2>2. /\ pc'[server] \in TurnIsOpen \cup {"handle"} => loaded'[server] = Told
        /\ pc'[server] = "reply" =>
              \E j \in DOMAIN turns[sessionId] :
                  turns[sessionId][j] = [request  |-> call'[server].request,
                                         base     |-> Told,
                                         response |-> response'[server]]
    BY <1>2, <1>5 DEF ServerContinues
  <2> QED
    BY <1>1, <1>3, <2>1, <2>2 DEF ServerContinues
<1>8. NothingIsMissed'
  <2> SUFFICES ASSUME ~ lost, sessionId # NoSession
               PROVE  /\ \A v \in Worker :
                            (pc'[v] # "idle" /\ call'[v].session = sessionId) => v = server
                      /\ state'[sessionId] = IF server \in Worker /\ pc'[server] = "reply"
                                             THEN response'[server].state ELSE Told
    BY <1>1, <1>3 DEF NothingIsMissed
  <2>1. /\ \A v \in Worker : (pc[v] # "idle" /\ call[v].session = sessionId) => v = server
        /\ state[sessionId] = IF server \in Worker /\ pc[server] = "reply"
                              THEN response[server].state ELSE Told
    BY <1>2 DEF NothingIsMissed
  <2>2. pc[w] # "idle" /\ call[w].session # sessionId
    BY <2>1 DEF Moves
  <2>3. \A v \in Worker : pc'[v] # "idle" => pc[v] # "idle" /\ call'[v] = call[v]
    BY DEF Moves
  <2>4. state'[sessionId] = state[sessionId]
    <3>1. CASE CommitTurn(w)
      <4>1. /\ call[w].session \in Session
            /\ state' = [state EXCEPT ![call[w].session] = response[w].state]
        BY <1>2, <3>1, CommitExtendsChain
      <4>2. state \in [Session -> State] /\ sessionId \in Session
        BY <1>2, <2>2 DEF RuntimeInv, TypeOK, DatabaseTypeOK, PageTypeOK
      <4> QED
        BY <2>2, <4>1, <4>2
    <3> QED
      BY <3>1 DEF Moves
  <2> QED
    BY <1>5, <2>1, <2>3, <2>4
<1>9. ShownAnswersFollowOn'
  BY <1>1, AnswersStayShown
<1> QED
  BY <1>3, <1>4, <1>6, <1>7, <1>8, <1>9 DEF PageRest

\* As long as nothing is missed, the page's revision is the current one.
LEMMA RevisionIsCurrent ==
    ASSUME PageInv, server \in Worker, ~ lost, pc[server] # "reply"
    PROVE  state[sessionId] = Told /\ state[sessionId].revision = call[server].given
<1>1. sessionId # NoSession
  BY WaitingPage, PageAssumption
<1> QED
  BY <1>1, WaitingPage DEF PageInv, NothingIsMissed

LEMMA RefusalsFollowALoss ==
    ASSUME PageInv, server \in Worker, WorkerStep(server), pc'[server] = "idle",
           pc[server] \notin {"handle", "reply"}
    PROVE  lost
<1> SUFFICES ASSUME ~ lost PROVE FALSE
  OBVIOUS
<1> DEFINE w == server
<1>1. /\ RuntimeInv /\ w \in Worker /\ pc \in [Worker -> Stage]
      /\ call[w].session = sessionId /\ sessionId \in created
      /\ state[sessionId].revision = call[w].given
  BY WaitingPage, RevisionIsCurrent DEF PageInv, RuntimeInv, TypeOK, WorkerTypeOK
<1> HIDE DEF w
<1>2. ~ GetReplay(w)
  BY <1>1 DEF GetReplay, Replay, Goto, w
<1>3. ~ GetState(w)
  BY <1>1 DEF GetState, StateIsCurrent, StateFound, Goto, w
<1>4. ~ LockSession(w)
  BY <1>1 DEF LockSession, Goto, w
<1>5. ~ Recheck(w)
  <2> SUFFICES ASSUME Recheck(w) PROVE FALSE
    OBVIOUS
  <2>1. pc[w] = "recheck"
    BY DEF Recheck
  <2>2. ~ Replay(w) /\ ~ Goto(w, "insert")
    BY <1>1 DEF Replay, Goto, w
  <2>3. ~ RevisionAccepted(w)
    BY <2>2 DEF Recheck
  <2>4. response[w] \in EngineResults(loaded[w]) /\ loaded[w].revision = call[w].given
    BY <1>1, <2>1 DEF RuntimeInv, ResponseFollowsLoaded, LoadedIsAPastState, TurnIsOpen, InTransaction
  <2>5. loaded[w] \in State
    BY <1>1 DEF RuntimeInv, TypeOK, WorkerTypeOK
  <2>6. response[w].state.revision \in {call[w].given, call[w].given + 1}
    BY <2>4, <2>5, EngineResultTyped
  <2> QED
    BY <1>1, <2>3, <2>6 DEF RevisionAccepted
<1>6. ~ InsertTurn(w)
  BY <1>1 DEF InsertTurn, Goto, RuntimeInv, CommitCannotCollide, w
<1>7. ~ UpdateState(w)
  BY <1>1 DEF UpdateState, Goto, RuntimeInv, CommitCannotCollide, w
<1>8. ~ CommitTurn(w)
  BY <1>1 DEF CommitTurn, Goto, w
<1>9. ~ HandleTurn(w) /\ ~ EngineRaises(w) /\ ~ SendReply(w)
  BY DEF HandleTurn, EngineRaises, SendReply, w
<1> QED
  BY <1>2, <1>3, <1>4, <1>5, <1>6, <1>7, <1>8, <1>9 DEF WorkerStep, w

\* The page's own worker goes on: it continues what the page was told.
LEMMA ServerWorks ==
    ASSUME PageInv, [Next]_vars, server \in Worker, WorkerStep(server),
           pc'[server] # "idle", Moves(server), UNCHANGED page
    PROVE  PageRest'
<1> DEFINE w == server
<1>1. /\ UNCHANGED <<sessionId, revision, stage, server, shown, sent, heard, lost>>
      /\ w \in Worker
  BY DEF page, memory, history
<1>2. /\ RuntimeInv /\ PageTypeOK /\ SessionIsCreated /\ PageRemembersTold
      /\ RequestsAreFresh /\ StatesArePast
      /\ ServerContinues /\ NothingIsMissed /\ RefusedOnlyAfterLoss
  BY DEF PageInv
<1>3. /\ sessionId \in Session /\ call[w] \in Call /\ call[w].session = sessionId
      /\ call[w].given = Told.revision /\ call[w].given = revision
      /\ Told \in StatesOf(sessionId)
      /\ pc \in [Worker -> Stage] /\ loaded \in [Worker -> State]
      /\ response \in [Worker -> Response \cup {NoResponse}]
      /\ state \in [Session -> State] /\ turns \in [Session -> Seq(Turn)]
  BY <1>2, WaitingPage, ToldIsPast, PageAssumption
     DEF RuntimeInv, TypeOK, DatabaseTypeOK, WorkerTypeOK
<1>4. PageTypeOK' /\ PageRemembersTold' /\ RefusedOnlyAfterLoss' /\ Told' = Told
  BY <1>1, <1>2 DEF PageTypeOK, PageRemembersTold, RefusedOnlyAfterLoss, Told
<1>5. SessionIsCreated'
  BY <1>1, <1>2 DEF SessionIsCreated, Moves
<1>6. pc[w] # "idle" /\ pc[w] # "reply" /\ call'[w] = call[w]
  BY DEF Moves
<1>7. ServerHasThePost'
  BY <1>1, <1>3, <1>6 DEF ServerHasThePost
<1>8. Stored(w) = {}
  BY <1>1, <1>2, <1>3, <1>6 DEF RequestsAreFresh, Stored
<1>9. pc[w] \in TurnIsOpen \cup {"handle"} => loaded[w] = Told
  BY <1>1, <1>2 DEF ServerContinues
<1> HIDE DEF w
<1>10. CASE CommitTurn(w)
  <2>1. /\ turns' = [turns EXCEPT ![sessionId] = Append(turns[sessionId], NewTurn(w))]
        /\ state' = [state EXCEPT ![sessionId] = response[w].state]
        /\ NewTurn(w) \in Turn
    BY <1>1, <1>2, <1>3, <1>10, CommitExtendsChain
  <2>2. pc'[w] = "reply" /\ response' = response /\ pc[w] = "commit"
    BY <1>1, <1>3, <1>10 DEF CommitTurn, Goto
  <2>3. loaded[w] = Told
    BY <1>9, <2>2 DEF TurnIsOpen, InTransaction
  <2>4. Len(turns[sessionId]) + 1 \in DOMAIN turns'[sessionId]
    BY <1>3, <2>1
  <2>5. turns'[sessionId][Len(turns[sessionId]) + 1] = NewTurn(w)
    BY <1>3, <2>1
  <2>6. NewTurn(w) = [request |-> call'[w].request, base |-> Told, response |-> response'[w]]
    BY <1>6, <2>2, <2>3 DEF NewTurn
  <2>7. ServerContinues'
    BY <1>1, <1>4, <2>2, <2>4, <2>5, <2>6 DEF ServerContinues, TurnIsOpen, InTransaction, w
  <2>8. state'[sessionId] = response'[w].state
    BY <1>3, <2>1, <2>2
  <2>9. NothingIsMissed'
    BY <1>1, <1>2, <2>2, <2>8 DEF NothingIsMissed, Moves, w
  <2> QED
    BY <1>1, <1>4, <1>5, <1>7, <2>7, <2>9, AnswersStayShown DEF PageRest
<1>11. ASSUME ~ CommitTurn(w) PROVE PageRest'
  <2>1. state' = state /\ turns' = turns
    BY <1>11 DEF Moves, w
  <2>2. /\ pc'[w] # "reply"
        /\ pc'[w] \in TurnIsOpen \cup {"handle"} => loaded'[w] = Told
    <3> USE <1>1, <1>3, <1>6, <1>8
    <3>1. CASE GetReplay(w)
      BY <3>1 DEF GetReplay, Replay, Goto, TurnIsOpen, InTransaction
    <3>2. CASE GetState(w)
      <4>1. StateIsCurrent(w)
        BY <3>2 DEF GetState, Finish, w
      <4>2. state[sessionId].revision = Told.revision
        BY <4>1 DEF StateIsCurrent
      <4>3. state[sessionId] = Told
        BY <1>2, <4>2 DEF StatesArePast
      <4>4. loaded' = [loaded EXCEPT ![w] = state[sessionId]] /\ Goto(w, "handle")
        BY <3>2, <4>1 DEF GetState
      <4> QED
        BY <4>3, <4>4 DEF Goto
    <3>3. CASE HandleTurn(w)
      BY <1>9, <3>3 DEF HandleTurn, Goto
    <3>4. CASE LockSession(w)
      BY <1>9, <3>4 DEF LockSession, Goto, Finish, TurnIsOpen, w
    <3>5. CASE Recheck(w)
      BY <1>9, <3>5 DEF Recheck, Replay, Goto, Finish, TurnIsOpen, InTransaction, w
    <3>6. CASE InsertTurn(w)
      BY <1>9, <3>6 DEF InsertTurn, Goto, TurnIsOpen, InTransaction
    <3>7. CASE UpdateState(w)
      BY <1>9, <3>7 DEF UpdateState, Goto, Finish, TurnIsOpen, InTransaction, w
    <3>8. ~ SendReply(w) /\ ~ EngineRaises(w)
      BY DEF SendReply, EngineRaises, Finish, w
    <3> QED
      BY <1>11, <3>1, <3>2, <3>3, <3>4, <3>5, <3>6, <3>7, <3>8 DEF WorkerStep, w
  <2>3. ServerContinues'
    BY <1>1, <1>4, <2>2 DEF ServerContinues, w
  <2>4. NothingIsMissed'
    BY <1>1, <1>2, <1>4, <1>6, <2>1, <2>2 DEF NothingIsMissed, Moves, w
  <2> QED
    BY <1>1, <1>4, <1>5, <1>7, <2>3, <2>4, AnswersStayShown DEF PageRest
<1> QED
  BY <1>10, <1>11

\* The page's worker ends without an answer.
LEMMA ErrorIsShown ==
    ASSUME PageInv, [Next]_vars, server \in Worker, Moves(server), pc'[server] = "idle",
           NEW error \in {"refused", "failed"}, ShowError(error),
           lost' \in BOOLEAN, lost => lost', error = "refused" => lost',
           pc[server] = "reply" => lost'
    PROVE  PageRest'
<1>1. /\ UNCHANGED <<sessionId, revision, shown, sent>>
      /\ stage' = "idle" /\ server' = Nothing /\ heard' = error
  BY DEF ShowError, memory
<1>2. RuntimeInv /\ PageTypeOK /\ SessionIsCreated /\ PageRemembersTold /\ NothingIsMissed
  BY DEF PageInv
<1>3. server' \notin Worker
  BY <1>1, PageAssumption
<1>4. PageTypeOK'
  BY <1>1, <1>2, <1>3 DEF PageTypeOK, SubmitStage
<1>5. PageRemembersTold' /\ RefusedOnlyAfterLoss' /\ Told' = Told
  BY <1>1, <1>2 DEF PageRemembersTold, RefusedOnlyAfterLoss, Told
<1>6. SessionIsCreated' /\ ServerHasThePost' /\ ServerContinues'
  BY <1>1, <1>2, <1>3 DEF SessionIsCreated, ServerHasThePost, ServerContinues, Moves
<1>7. NothingIsMissed'
  <2> SUFFICES ASSUME ~ lost', sessionId # NoSession
               PROVE  /\ \A v \in Worker : pc'[v] = "idle" \/ call'[v].session # sessionId
                      /\ state'[sessionId] = Told
    BY <1>1, <1>3, <1>5 DEF NothingIsMissed
  <2>1. pc[server] # "reply" /\ ~ lost
    OBVIOUS
  <2>2. state[sessionId] = Told
    BY <2>1, RevisionIsCurrent
  <2>3. state' = state
    <3>1. ~ CommitTurn(server)
      BY <1>2 DEF CommitTurn, Goto, RuntimeInv, TypeOK, WorkerTypeOK
    <3> QED
      BY <3>1 DEF Moves
  <2>4. \A v \in Worker : (pc[v] # "idle" /\ call[v].session = sessionId) => v = server
    BY <1>2, <2>1 DEF NothingIsMissed
  <2> QED
    BY <2>2, <2>3, <2>4 DEF Moves
<1> QED
  BY <1>1, <1>4, <1>5, <1>6, <1>7, AnswersStayShown DEF PageRest

\* The page is told its worker's answer, which was computed from what it was told.
LEMMA AnswerIsShown ==
    ASSUME PageInv, [Next]_vars, server \in Worker, SendReply(server), Moves(server),
           ShowAnswer(server)
    PROVE  PageRest'
<1> DEFINE w == server
           entry == [request |-> call[w].request, response |-> response[w]]
<1>1. /\ UNCHANGED <<sessionId, sent, lost>>
      /\ revision' = response[w].state.revision /\ shown' = Append(shown, entry)
      /\ stage' = "idle" /\ server' = Nothing /\ heard' = "answer"
  BY DEF ShowAnswer
<1>2. RuntimeInv /\ PageTypeOK /\ SessionIsCreated /\ ServerContinues /\ NothingIsMissed
      /\ ShownAnswersFollowOn
  BY DEF PageInv
<1>3. /\ sessionId \in Session /\ sessionId \in created /\ sessionId # NoSession
      /\ call[w] \in Call /\ call[w].session = sessionId
  BY WaitingPage, PageAssumption
<1>4. /\ pc[w] = "reply" /\ pc'[w] = "idle" /\ turns' = turns /\ state' = state
      /\ created' = created
  BY <1>2 DEF SendReply, Finish, database, RuntimeInv, TypeOK, WorkerTypeOK
<1>5. response[w] \in Response /\ call[w].request \in Request
  BY <1>2, <1>3, <1>4 DEF RuntimeInv, TypeOK, WorkerTypeOK, HasResponse, Call
<1>6. PICK j \in DOMAIN turns[sessionId] :
         turns[sessionId][j] = [request  |-> call[w].request,
                                base     |-> Told,
                                response |-> response[w]]
  BY <1>2, <1>4 DEF ServerContinues
<1>7. shown \in Seq([request : Request, response : Response])
  BY <1>2 DEF PageTypeOK
<1>8. entry \in [request : Request, response : Response]
  BY <1>5
<1>9. /\ shown' \in Seq([request : Request, response : Response])
      /\ Len(shown') = Len(shown) + 1 /\ shown'[Len(shown) + 1] = entry
      /\ \A i \in 1..Len(shown) : shown'[i] = shown[i]
      /\ shown' # <<>> /\ Len(shown) \in Nat /\ DOMAIN shown' = 1..(Len(shown) + 1)
      /\ DOMAIN shown = 1..Len(shown)
  <2> DEFINE Shown == [request : Request, response : Response]
  <2>1. shown \in Seq(Shown) /\ entry \in Shown
    BY <1>7, <1>8
  <2> HIDE DEF Shown, entry
  <2>2. shown' \in Seq(Shown) /\ shown' = Append(shown, entry)
    BY <1>1, <2>1
  <2> QED
    BY <2>1, <2>2 DEF Shown
<1>10. entry.request = call[w].request /\ entry.response = response[w]
  OBVIOUS
<1> HIDE DEF entry
<1>11. Told' = response[w].state
  BY <1>9, <1>10 DEF Told
<1>12. server' \notin Worker
  BY <1>1, PageAssumption
<1>13. PageTypeOK'
  <2>1. revision' \in Nat
    BY <1>1, <1>5 DEF Response, State
  <2> QED
    BY <1>1, <1>2, <1>9, <1>12, <2>1 DEF PageTypeOK, SubmitStage
<1>14. SessionIsCreated' /\ ServerHasThePost' /\ ServerContinues' /\ RefusedOnlyAfterLoss'
  BY <1>1, <1>3, <1>4, <1>12
     DEF SessionIsCreated, ServerHasThePost, ServerContinues, RefusedOnlyAfterLoss
<1>15. PageRemembersTold'
  BY <1>1, <1>11 DEF PageRemembersTold
<1>16. NothingIsMissed'
  <2> SUFFICES ASSUME ~ lost
               PROVE  /\ \A v \in Worker : pc'[v] = "idle" \/ call'[v].session # sessionId
                      /\ state[sessionId] = response[w].state
    BY <1>1, <1>4, <1>11, <1>12 DEF NothingIsMissed
  <2>1. /\ \A v \in Worker : (pc[v] # "idle" /\ call[v].session = sessionId) => v = w
        /\ state[sessionId] = response[w].state
    BY <1>2, <1>3, <1>4 DEF NothingIsMissed
  <2> QED
    BY <1>4, <2>1 DEF Moves
<1>17. ShownAnswersFollowOn'
  <2> SUFFICES ASSUME NEW i \in DOMAIN shown'
               PROVE  \E k \in DOMAIN turns[sessionId] :
                        LET turn == turns[sessionId][k] IN
                          /\ turn.request = shown'[i].request
                          /\ turn.response = shown'[i].response
                          /\ turn.base = IF i = 1 THEN EmptyState
                                         ELSE shown'[i - 1].response.state
    BY <1>1, <1>4 DEF ShownAnswersFollowOn
  <2>1. CASE i \in 1..Len(shown)
    <3>1. shown'[i] = shown[i] /\ (i # 1 => shown'[i - 1] = shown[i - 1])
      BY <1>9, <2>1
    <3> QED
      BY <1>2, <1>9, <2>1, <3>1 DEF ShownAnswersFollowOn
  <2>2. CASE i = Len(shown) + 1
    <3>1. shown'[i].request = call[w].request /\ shown'[i].response = response[w]
      BY <1>9, <1>10, <2>2
    <3>2. Told = IF i = 1 THEN EmptyState ELSE shown'[i - 1].response.state
      <4>1. CASE shown = <<>>
        BY <2>2, <4>1 DEF Told
      <4>2. CASE shown # <<>>
        <5>1. Len(shown) \in 1..Len(shown)
          BY <1>7, <4>2
        <5>2. i # 1 /\ i - 1 = Len(shown)
          BY <2>2, <5>1
        <5> QED
          BY <1>9, <4>2, <5>1, <5>2 DEF Told
      <4> QED
        BY <4>1, <4>2
    <3>3. /\ turns[sessionId][j].request = call[w].request
          /\ turns[sessionId][j].response = response[w]
          /\ turns[sessionId][j].base = Told
      BY <1>6
    <3> QED
      BY <3>1, <3>2, <3>3
  <2> QED
    BY <1>9, <2>1, <2>2
<1> QED
  BY <1>13, <1>14, <1>15, <1>16, <1>17 DEF PageRest

\* What the page does without a worker.
LEMMA QuietPageStep ==
    ASSUME PageInv, UNCHANGED vars, UNCHANGED sent,
           \/ Submit \/ OutOfRequests \/ Disconnect \/ Reload
           \/ stage = "ensure_session" /\ ShowError("failed") /\ UNCHANGED lost
    PROVE  PageRest' /\ RequestsAreFresh'
<1>1. /\ PageTypeOK /\ SessionIsCreated /\ ServerHasThePost /\ RequestsAreFresh
      /\ PageRemembersTold /\ ServerContinues /\ NothingIsMissed
      /\ ShownAnswersFollowOn /\ RefusedOnlyAfterLoss
  BY DEF PageInv
<1>2. /\ UNCHANGED <<created, state, turns, pc, call, loaded, response>>
      /\ UNCHANGED sent
  BY DEF vars, database, workers
<1>3. RequestsAreFresh'
  BY <1>1, <1>2 DEF RequestsAreFresh, StoredTurns
<1>4. CASE Submit
  <2>1. /\ UNCHANGED <<sessionId, revision, server, shown, sent, lost>> /\ heard' = "nothing"
        /\ stage = "idle" /\ stage' = IF sessionId = NoSession THEN "ensure_session" ELSE "fetch"
    BY <1>4 DEF Submit, memory
  <2>2. server \notin Worker
    BY <1>1, <2>1 DEF PageTypeOK
  <2>3. PageTypeOK'
    BY <1>1, <2>1, <2>2 DEF PageTypeOK, SubmitStage
  <2>4. SessionIsCreated' /\ ServerHasThePost' /\ ServerContinues'
    BY <1>1, <1>2, <2>1, <2>2 DEF SessionIsCreated, ServerHasThePost, ServerContinues
  <2> QED
    BY <1>1, <1>2, <1>3, <2>1, <2>3, <2>4
       DEF PageRest, PageRemembersTold, NothingIsMissed, ShownAnswersFollowOn,
           RefusedOnlyAfterLoss, Told
<1>5. CASE /\ ShowError("failed") /\ UNCHANGED <<memory, shown, sent>>
           /\ lost' \in BOOLEAN /\ (lost => lost')
           /\ server \in Worker => lost'
  <2>1. /\ UNCHANGED <<sessionId, revision, shown, sent>> /\ heard' = "failed"
        /\ stage' = "idle" /\ server' = Nothing /\ server' \notin Worker
    BY <1>5, PageAssumption DEF ShowError, memory
  <2>2. PageTypeOK'
    BY <1>1, <1>5, <2>1 DEF PageTypeOK, SubmitStage
  <2>3. SessionIsCreated' /\ ServerHasThePost' /\ ServerContinues'
    BY <1>1, <1>2, <2>1 DEF SessionIsCreated, ServerHasThePost, ServerContinues
  <2>4. Told' = Told
    BY <2>1 DEF Told
  <2>5. NothingIsMissed'
    <3> SUFFICES ASSUME ~ lost', sessionId # NoSession
                 PROVE  /\ \A w \in Worker :
                              (pc[w] # "idle" /\ call[w].session = sessionId) => w = Nothing
                        /\ state[sessionId] = Told
      BY <1>2, <2>1, <2>4 DEF NothingIsMissed
    <3>1. ~ lost /\ server \notin Worker
      BY <1>5
    <3> QED
      BY <1>1, <3>1 DEF NothingIsMissed
  <2> QED
    BY <1>1, <1>2, <1>3, <2>1, <2>2, <2>3, <2>4, <2>5
       DEF PageRest, PageRemembersTold, ShownAnswersFollowOn, RefusedOnlyAfterLoss
<1>6. CASE \/ OutOfRequests \/ Disconnect
           \/ stage = "ensure_session" /\ ShowError("failed") /\ UNCHANGED lost
  <2>1. ShowError("failed") /\ UNCHANGED <<memory, shown, sent>>
    BY <1>6 DEF OutOfRequests, Disconnect, ShowError
  <2>2. stage # "waiting" => server \notin Worker
    BY <1>1 DEF PageTypeOK
  <2>3. /\ lost' \in BOOLEAN /\ (lost => lost')
        /\ server \in Worker => lost'
    BY <1>1, <1>6, <2>2 DEF OutOfRequests, Disconnect, PageTypeOK
  <2> QED
    BY <1>3, <1>5, <2>1, <2>3
<1>7. CASE Reload
  <2>1. /\ sessionId' = NoSession /\ revision' = 0 /\ stage' = "idle" /\ server' = Nothing
        /\ shown' = <<>> /\ heard' = "nothing" /\ lost' = FALSE /\ server' \notin Worker
    BY <1>7, PageAssumption DEF Reload
  <2>2. PageTypeOK'
    <3>1. shown' \in Seq([request : Request, response : Response])
      BY <2>1
    <3>2. sent' \subseteq Request /\ lost' \in BOOLEAN
      BY <1>1, <1>2, <2>1 DEF PageTypeOK
    <3> QED
      BY <2>1, <3>1, <3>2 DEF PageTypeOK, SubmitStage
  <2>3. SessionIsCreated' /\ ServerHasThePost' /\ ServerContinues' /\ NothingIsMissed'
    BY <2>1 DEF SessionIsCreated, ServerHasThePost, ServerContinues, NothingIsMissed
  <2>4. PageRemembersTold' /\ RefusedOnlyAfterLoss'
    BY <2>1 DEF PageRemembersTold, RefusedOnlyAfterLoss, Told, EmptyState
  <2>5. ShownAnswersFollowOn'
    BY <2>1 DEF ShownAnswersFollowOn
  <2> QED
    BY <1>3, <2>2, <2>3, <2>4, <2>5 DEF PageRest
<1> QED
  BY <1>4, <1>6, <1>7

\* A new session: nobody works on it yet and it is in its first state.
LEMMA SessionIsOpened ==
    ASSUME PageInv, [Next]_vars, NEW s \in Session \ created, CreateSession(s),
           \/ /\ sessionId' = s /\ revision' = 0 /\ stage' = "fetch"
              /\ UNCHANGED <<server, history>>
           \/ ShowError("failed") /\ UNCHANGED lost,
           stage = "ensure_session"
    PROVE  PageRest' /\ RequestsAreFresh'
<1>1. /\ RuntimeInv /\ PageTypeOK /\ SessionIsCreated /\ RequestsAreFresh
      /\ PageRemembersTold /\ RefusedOnlyAfterLoss
  BY DEF PageInv
<1>2. /\ sessionId = NoSession /\ shown = <<>> /\ server \notin Worker /\ Told = EmptyState
      /\ revision = 0
  BY <1>1 DEF SessionIsCreated, PageTypeOK, PageRemembersTold, Told, EmptyState
<1>3. /\ created' = created \cup {s} /\ state'[s] = EmptyState
      /\ UNCHANGED <<turns, pc, call, loaded, response>>
  BY <1>1 DEF CreateSession, workers, RuntimeInv, TypeOK, DatabaseTypeOK
<1>4. UNCHANGED sent /\ shown' = <<>> /\ Told' = EmptyState /\ server' \notin Worker /\ revision' = 0
      /\ server' \in Worker \cup {Nothing}
  BY <1>1, <1>2, PageAssumption DEF ShowError, history, memory, Told, PageTypeOK
<1>5. RequestsAreFresh'
  BY <1>1, <1>3, <1>4 DEF RequestsAreFresh, StoredTurns
<1>6. /\ sessionId' \in {s, NoSession}
      /\ sessionId' = s => stage' = "fetch"
      /\ sessionId' = NoSession => stage' = "idle"
      /\ stage' \in {"fetch", "idle"}
      /\ heard' = heard \/ heard' = "failed"
      /\ lost' = lost
  BY <1>2, PageAssumption DEF ShowError, history, memory
<1>7. PageTypeOK'
  BY <1>1, <1>4, <1>6 DEF PageTypeOK, SubmitStage
<1>8. SessionIsCreated' /\ ServerHasThePost' /\ PageRemembersTold' /\ ServerContinues'
      /\ ShownAnswersFollowOn'
  BY <1>3, <1>4, <1>6
     DEF SessionIsCreated, ServerHasThePost, PageRemembersTold, ServerContinues,
         ShownAnswersFollowOn, EmptyState
<1>9. RefusedOnlyAfterLoss'
  BY <1>1, <1>6 DEF RefusedOnlyAfterLoss
<1>10. NothingIsMissed'
  <2>1. \A w \in Worker : pc[w] # "idle" => call[w].session # s
    BY <1>1 DEF RequestsAreFresh
  <2>2. CASE sessionId' = NoSession
    BY <2>2 DEF NothingIsMissed
  <2>3. CASE sessionId' = s
    BY <1>3, <1>4, <2>1, <2>3 DEF NothingIsMissed
  <2> QED
    BY <1>6, <2>2, <2>3
<1> QED
  BY <1>5, <1>7, <1>8, <1>9, <1>10 DEF PageRest

\* A POST under a new request id, with what the page was told.
LEMMA MessageIsSent ==
    ASSUME PageInv, SendMessage
    PROVE  PageRest' /\ RequestsAreFresh'
<1>1. /\ RuntimeInv /\ PageTypeOK /\ SessionIsCreated /\ RequestsAreFresh
      /\ PageRemembersTold /\ NothingIsMissed /\ ShownAnswersFollowOn /\ RefusedOnlyAfterLoss
  BY DEF PageInv
<1>2. PICK w \in Worker, q \in Request \ sent :
         pc[w] = "idle" /\ server' = w /\ Post(w, sessionId, q, revision) /\ sent' = sent \cup {q}
  <2>1. Idle # {} /\ Request \ sent # {}
    BY <1>1 DEF SendMessage, PageTypeOK
  <2>2. Fresh(Idle) \in Idle /\ Fresh(Request \ sent) \in Request \ sent
    BY <2>1, FreshIsMember
  <2>3. /\ server' = Fresh(Idle) /\ sent' = sent \cup {Fresh(Request \ sent)}
        /\ Post(Fresh(Idle), sessionId, Fresh(Request \ sent), revision)
    BY DEF SendMessage
  <2> QED
    BY <2>2, <2>3 DEF Idle
<1>3. /\ stage = "fetch" /\ stage' = "waiting"
      /\ UNCHANGED <<sessionId, revision, shown, heard, lost>>
  BY DEF SendMessage, memory
<1>4. sessionId \in Session /\ sessionId \in created /\ server \notin Worker
  BY <1>1, <1>3 DEF SessionIsCreated, PageTypeOK
<1>5. /\ pc'[w] = "get_replay" /\ call'[w].session = sessionId /\ call'[w].request = q
      /\ call'[w].given = revision
      /\ \A v \in Worker \ {w} : pc'[v] = pc[v] /\ call'[v] = call[v]
      /\ UNCHANGED <<created, state, turns, loaded, response>>
  BY <1>1, <1>2, <1>3 DEF Post, Goto, database, RuntimeInv, TypeOK, WorkerTypeOK
<1>6. RequestsAreFresh'
  <2>1. ASSUME NEW s \in Session PROVE StoredTurns(s, q)' = {}
    BY <1>1, <1>2, <1>5 DEF RequestsAreFresh, StoredTurns
  <2>2. \A s \in Session : \A i \in DOMAIN turns'[s] : turns'[s][i].request \in sent'
    BY <1>1, <1>2, <1>5 DEF RequestsAreFresh
  <2>3. ASSUME NEW v \in Worker, v # w, pc'[v] # "idle"
        PROVE  /\ call'[v].session \in created'
               /\ call'[v].request \in sent /\ call'[v].request # q
               /\ \A u \in Worker \ {w} :
                     (pc'[u] # "idle" /\ call'[u].request = call'[v].request) => u = v
               /\ pc'[v] # "reply" => \A s \in Session : StoredTurns(s, call[v].request)' = {}
    BY <1>1, <1>2, <1>5, <2>3 DEF RequestsAreFresh, StoredTurns
  <2> QED
    BY <1>2, <1>3, <1>4, <1>5, <2>1, <2>2, <2>3 DEF RequestsAreFresh
<1>7. PageTypeOK'
  BY <1>1, <1>2, <1>3 DEF PageTypeOK, SubmitStage
<1>8. SessionIsCreated' /\ ServerHasThePost' /\ PageRemembersTold' /\ RefusedOnlyAfterLoss'
      /\ ShownAnswersFollowOn' /\ Told' = Told
  BY <1>1, <1>2, <1>3, <1>4, <1>5, PageAssumption
     DEF SessionIsCreated, ServerHasThePost, PageRemembersTold, RefusedOnlyAfterLoss,
         ShownAnswersFollowOn, Told
<1>9. ServerContinues'
  BY <1>2, <1>5 DEF ServerContinues, TurnIsOpen, InTransaction
<1>10. NothingIsMissed'
  BY <1>1, <1>2, <1>3, <1>4, <1>5, <1>8 DEF NothingIsMissed
<1> QED
  BY <1>6, <1>7, <1>8, <1>9, <1>10 DEF PageRest

LEMMA PageInvInit == PageInit => PageInv
<1> SUFFICES ASSUME PageInit PROVE PageInv
  OBVIOUS
<1>1. RuntimeInv
  BY RuntimeInvInit DEF PageInit
<1>2. /\ created = {} /\ state = [s \in Session |-> EmptyState]
      /\ turns = [s \in Session |-> <<>>] /\ pc = [w \in Worker |-> "idle"]
      /\ sessionId = NoSession /\ revision = 0 /\ stage = "idle" /\ server = Nothing
      /\ shown = <<>> /\ heard = "nothing" /\ lost = FALSE /\ sent = {} /\ server \notin Worker
  BY PageAssumption DEF PageInit, Init, Loaded
<1>3. PageTypeOK
  <2>1. shown \in Seq([request : Request, response : Response])
    BY <1>2
  <2>2. stage # "waiting" /\ server \in Worker \cup {Nothing} /\ server \notin Worker
    BY <1>2
  <2>3. (stage = "waiting") = (server \in Worker)
    BY <2>2
  <2>4. sessionId \in Session \cup {NoSession} /\ revision \in Nat /\ stage \in SubmitStage
    BY <1>2 DEF SubmitStage
  <2>5. sent \subseteq Request /\ heard \in {"nothing", "answer", "refused", "failed"}
        /\ lost \in BOOLEAN
    BY <1>2
  <2> QED
    BY <2>1, <2>2, <2>3, <2>4, <2>5 DEF PageTypeOK
<1>4. SessionIsCreated /\ ServerHasThePost /\ PageRemembersTold /\ ServerContinues
      /\ NothingIsMissed /\ RefusedOnlyAfterLoss
  BY <1>2
     DEF SessionIsCreated, ServerHasThePost, PageRemembersTold, ServerContinues,
         NothingIsMissed, RefusedOnlyAfterLoss, Told, EmptyState
<1>5. RequestsAreFresh
  BY <1>2 DEF RequestsAreFresh
<1>6. StatesArePast
  BY <1>2, RuntimeAssumption DEF StatesArePast, StatesOf, EmptyState
<1>7. ShownAnswersFollowOn
  BY <1>2 DEF ShownAnswersFollowOn
<1> QED
  BY <1>1, <1>3, <1>4, <1>5, <1>6, <1>7 DEF PageInv

\* A worker's step, whether the page listens to it or not.
LEMMA WorkersKeepThePage ==
    ASSUME PageInv, [Next]_vars, NEW w \in Worker, Serves(w) \/ Breaks(w)
    PROVE  PageRest' /\ RequestsAreFresh'
<1>1. RuntimeInv /\ WorkerTypeOK /\ RequestsAreFresh /\ lost \in BOOLEAN
  BY DEF PageInv, RuntimeInv, TypeOK, PageTypeOK
<1>2. WorkerStep(w) \/ Fail(w)
  BY DEF Serves, Breaks, Works, Answers, Refuses, Raises, WorkerStep
<1>3. Moves(w)
  BY <1>1, <1>2, WorkerMoves
<1>4. sent' = sent
  BY DEF Serves, Breaks, Works, Answers, Refuses, Raises, ShowAnswer, ShowError, page, history
<1>5. RequestsAreFresh'
  BY <1>1, <1>3, <1>4, RequestsStayFresh
<1>6. CASE server # w
  <2>1. UNCHANGED page
    BY <1>6 DEF Serves, Breaks, Works, Answers, Refuses, Raises
  <2> QED
    BY <1>3, <1>5, <1>6, <2>1, OthersWork
<1>7. CASE server = w
  <2>1. CASE Works(w)
    BY <1>3, <1>5, <1>7, <2>1, ServerWorks DEF Works
  <2>2. CASE Answers(w)
    BY <1>3, <1>5, <1>7, <2>2, AnswerIsShown DEF Answers
  <2>3. CASE Refuses(w)
    <3>1. lost
      BY <1>7, <2>3, RefusalsFollowALoss DEF Refuses
    <3>2. ShowError("refused") /\ lost' = lost /\ pc'[w] = "idle"
      BY <1>7, <2>3 DEF Refuses
    <3> QED
      BY <1>1, <1>3, <1>5, <1>7, <3>1, <3>2, ErrorIsShown
  <2>4. CASE Raises(w)
    <3>1. /\ ShowError("failed") /\ lost' = lost /\ pc'[w] = "idle" /\ pc[w] # "reply"
      BY <1>1, <1>7, <2>4 DEF Raises, EngineRaises, Finish, WorkerTypeOK
    <3> QED
      BY <1>1, <1>3, <1>5, <1>7, <3>1, ErrorIsShown
  <2>5. CASE Breaks(w)
    <3>1. /\ ShowError("failed") /\ lost' = TRUE /\ pc'[w] = "idle"
      BY <1>1, <1>7, <2>5 DEF Breaks, Fail, Finish, WorkerTypeOK
    <3> QED
      BY <1>3, <1>5, <1>7, <3>1, ErrorIsShown
  <2> QED
    BY <2>1, <2>2, <2>3, <2>4, <2>5 DEF Serves
<1> QED
  BY <1>6, <1>7

LEMMA PageInvStep ==
    ASSUME Revision = Nat, PageInv, [PageNext]_all
    PROVE  PageInv'
<1>1. [Next]_vars
  BY PageStepIsRuntimeStep DEF all
<1>2. RuntimeInv' /\ StatesArePast'
  BY <1>1, RuntimeInvStep, StatesStayPast DEF PageInv
<1>3. SUFFICES PageRest' /\ RequestsAreFresh'
  BY <1>2 DEF PageRest, PageInv
<1>4. CASE Submit \/ OutOfRequests \/ Disconnect \/ Reload
  <2>1. UNCHANGED vars /\ UNCHANGED sent
    BY <1>4 DEF Submit, OutOfRequests, Disconnect, Reload, ShowError
  <2> QED
    BY <1>4, <2>1, QuietPageStep
<1>5. CASE OpenSession \/ SessionFails
  <2>1. ASSUME stage = "ensure_session", ShowError("failed"), UNCHANGED lost, UNCHANGED vars
        PROVE  PageRest' /\ RequestsAreFresh'
    BY <2>1, QuietPageStep DEF ShowError
  <2>2. CASE SessionFails /\ UNCHANGED vars
    BY <2>1, <2>2 DEF SessionFails
  <2> DEFINE s == Fresh(Session \ created)
  <2>3. CASE OpenSession \/ (SessionFails /\ ~ UNCHANGED vars)
    <3>1. created # Session /\ CreateSession(s) /\ stage = "ensure_session"
      BY <2>3 DEF OpenSession, SessionFails
    <3>2. s \in Session \ created
      <4>1. Session \ created # {}
        BY <3>1 DEF PageInv, RuntimeInv, TypeOK, DatabaseTypeOK
      <4> QED
        BY <4>1, FreshIsMember
    <3>3. \/ /\ sessionId' = s /\ revision' = 0 /\ stage' = "fetch"
             /\ UNCHANGED <<server, history>>
          \/ ShowError("failed") /\ UNCHANGED lost
      BY <2>3 DEF OpenSession, SessionFails
    <3> HIDE DEF s
    <3> QED
      BY <1>1, <3>1, <3>2, <3>3, SessionIsOpened
  <2> QED
    BY <1>5, <2>2, <2>3
<1>6. CASE SendMessage
  BY <1>6, MessageIsSent
<1>7. ASSUME NEW w \in Worker, Serves(w) \/ Breaks(w)
      PROVE  PageRest' /\ RequestsAreFresh'
  BY <1>1, <1>7, WorkersKeepThePage
<1>8. CASE UNCHANGED all
  <2>1. /\ UNCHANGED <<created, state, turns, pc, call, loaded, response>>
        /\ UNCHANGED <<sessionId, revision, stage, server, shown, sent, heard, lost>>
    BY <1>8 DEF all, vars, database, workers, page, memory, history
  <2>2. PageTypeOK' /\ SessionIsCreated' /\ ServerHasThePost' /\ RequestsAreFresh'
    BY <2>1
       DEF PageInv, PageTypeOK, SessionIsCreated, ServerHasThePost, RequestsAreFresh, StoredTurns
  <2>3. PageRemembersTold' /\ ServerContinues' /\ NothingIsMissed' /\ RefusedOnlyAfterLoss'
    BY <2>1
       DEF PageInv, PageRemembersTold, ServerContinues, NothingIsMissed, RefusedOnlyAfterLoss, Told
  <2>4. ShownAnswersFollowOn'
    BY <1>1, <2>1, AnswersStayShown
  <2> QED
    BY <2>2, <2>3, <2>4 DEF PageRest
<1> QED
  BY <1>4, <1>5, <1>6, <1>7, <1>8 DEF PageNext, SubmitStep

LEMMA PageInvariant ==
    ASSUME Revision = Nat
    PROVE  PageSpec => []PageInv
<1>1. PageInv /\ [PageNext]_all => PageInv'
  BY PageInvStep
<1> QED
  BY <1>1, PageInvInit, PTL DEF PageSpec

(***************************************************************************)
(* For any number of sessions, workers and requests: each answer on the    *)
(* page was computed from the state behind the answer above it.            *)
(***************************************************************************)
THEOREM AnswersFollowOn ==
    ASSUME Revision = Nat
    PROVE  PageSpec => []ShownAnswersFollowOn
<1>1. PageInv => ShownAnswersFollowOn
  BY DEF PageInv
<1> QED
  BY <1>1, PageInvariant, PTL

(***************************************************************************)
(* A page that has missed no answer of its session is never told 404 or    *)
(* 409: the revision it remembers is the stored one when it sends it, and  *)
(* still when its turn is committed.                                       *)
(***************************************************************************)
THEOREM RefusalsNeedALoss ==
    ASSUME Revision = Nat
    PROVE  PageSpec => []RefusedOnlyAfterLoss
<1>1. PageInv => RefusedOnlyAfterLoss
  BY DEF PageInv
<1> QED
  BY <1>1, PageInvariant, PTL

=============================================================================
