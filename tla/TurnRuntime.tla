---------------------------- MODULE TurnRuntime ----------------------------
(***************************************************************************)
(* The persistence protocol of one conversational turn: RuntimeService     *)
(* (app/runtime/service.py) over PostgresStateStore                        *)
(* (app/runtime/postgres.py).                                              *)
(*                                                                         *)
(* A POST runs in a worker thread.  It looks for a stored answer, reads    *)
(* the dialogue state, runs the agent engine WITHOUT a database lock, and  *)
(* commits in one transaction that takes the session's row lock, looks     *)
(* for a stored answer again, compares the revision, inserts the turn and  *)
(* updates the state.  Every statement is an action of its own; inside     *)
(* the transaction the program counter says which rows are written but     *)
(* not yet visible.  Connections may break between any two statements.     *)
(***************************************************************************)
EXTENDS Naturals, Sequences

CONSTANTS
    Session,      \* session ids
    Request,      \* request ids; a client may send one id any number of times
    Worker,       \* threads that serve POST .../messages
    Reader,       \* threads that serve GET /sessions/{id}
    Revision,     \* the values of state_revision that clients send
    Context,      \* a state's intent, phase, slots and pending question
    Answer,       \* the text, facts and diagnostics of an answer
    EmptyContext, \* the context of TurnState.empty
    NoWorker      \* the owner of a row lock that is free

ASSUME RuntimeAssumption ==
    /\ Revision \subseteq Nat
    /\ EmptyContext \in Context
    /\ NoWorker \notin Worker

VARIABLES
    created,   \* the sessions that have a row in session_state
    state,     \* that row's revision and state_json, per session
    turns,     \* the session's rows of turn_message, in order of id
    rowLock,   \* the worker whose transaction holds the session's row lock
    pc,        \* where each worker is
    call,      \* the arguments of the POST it serves
    loaded,    \* the state it read before it ran the engine
    response,  \* the response payload the engine (or a replay) gave it
    view,      \* what each reader has read so far
    replies    \* every answer that reached a client

database == <<created, state, turns, rowLock>>
workers  == <<pc, call, loaded, response>>
vars     == <<database, workers, view, replies>>

-----------------------------------------------------------------------------
State    == [revision : Nat, context : Context]
Response == [state : State, answer : Answer]
Call     == [session : Session, request : Request, given : Revision]

\* A row of turn_message.  `base' is not stored: it records which state the
\* engine computed the response from.
Turn     == [request : Request, base : State, response : Response]
Reply    == [session : Session, request : Request, response : Response]

EmptyState == [revision |-> 0, context |-> EmptyContext]
NoCall     == <<>>
NoResponse == <<>>

\* The stages between which another worker may run.
InTransaction == {"recheck", "insert", "update", "commit"}
Stage == {"idle", "get_replay", "get_state", "handle", "lock", "reply"}
            \cup InTransaction

\* The stages after the engine, and those where a turn is still open.
HasResponse == {"lock", "reply"} \cup InTransaction
TurnIsOpen  == {"lock"} \cup InTransaction

\* Mutation: the messages are read before the state.
TurnsBeforeState == <<"turn_message", "session_state">>

\* The statements get_session runs one after the other.
Statements == <<"session_state", "turn_message">>

\* A GET in progress: how many statements it has run, and what they returned.
NoView == <<>>
View   == [session : Session, done : 0..2, state : State, messages : Seq(Turn)]

-----------------------------------------------------------------------------
Init ==
    /\ created = {}
    /\ state = [s \in Session |-> EmptyState]
    /\ turns = [s \in Session |-> <<>>]
    /\ rowLock = [s \in Session |-> NoWorker]
    /\ pc = [w \in Worker |-> "idle"]
    /\ call = [w \in Worker |-> NoCall]
    /\ loaded = [w \in Worker |-> EmptyState]
    /\ response = [w \in Worker |-> NoResponse]
    /\ view = [r \in Reader |-> NoView]
    /\ replies = {}

-----------------------------------------------------------------------------
(* What the statements see.                                                *)

\* The stored turns of a request: UNIQUE (session_id, request_id) keeps at most one.
StoredTurns(s, q) == {i \in DOMAIN turns[s] : turns[s][i].request = q}

Stored(w) == StoredTurns(call[w].session, call[w].request)

Goto(w, stage) == pc' = [pc EXCEPT ![w] = stage]

\* The worker's thread returns to the pool: after an answer or an exception.
Finish(w) ==
    /\ pc' = [pc EXCEPT ![w] = "idle"]
    /\ call' = [call EXCEPT ![w] = NoCall]
    /\ loaded' = [loaded EXCEPT ![w] = EmptyState]
    /\ response' = [response EXCEPT ![w] = NoResponse]

\* Mutation: a connection that is returned with its transaction open.
KeepLock(w) == rowLock' = rowLock

\* COMMIT and ROLLBACK both end the row lock.
ReleaseLock(w) ==
    rowLock' = [s \in Session |-> IF rowLock[s] = w THEN NoWorker ELSE rowLock[s]]

\* Mutation: the row itself is returned in place of its response_json.
ReplayOfRow(w) ==
    /\ \E i \in Stored(w) :
          response' = [response EXCEPT ![w] = turns[call[w].session][i]]
    /\ Goto(w, "reply")
    /\ UNCHANGED <<call, loaded>>

\* SELECT response_json: the stored answer becomes the answer of this call.
Replay(w) ==
    /\ \E i \in Stored(w) :
          response' = [response EXCEPT
                         ![w] = turns[call[w].session][i].response]
    /\ Goto(w, "reply")
    /\ UNCHANGED <<call, loaded>>

-----------------------------------------------------------------------------
(* RuntimeService.create_session: INSERT under the primary key.            *)
CreateSession(s) ==
    /\ s \notin created
    /\ created' = created \cup {s}
    /\ state' = [state EXCEPT ![s] = EmptyState]
    /\ UNCHANGED <<turns, rowLock, workers, view, replies>>

(* RuntimeService.post_message is called.  The same request id may be in   *)
(* flight in several workers: clients retry after a timeout.               *)
Post(w, s, q, given) ==
    /\ pc[w] = "idle"
    /\ Goto(w, "get_replay")
    /\ call' = [call EXCEPT ![w] = [session |-> s, request |-> q, given |-> given]]
    /\ UNCHANGED <<database, loaded, response, view, replies>>

GetReplay(w) ==
    /\ pc[w] = "get_replay"
    /\ \/ Replay(w)
       \/ /\ Stored(w) = {}
          /\ Goto(w, "get_state")
          /\ UNCHANGED <<call, loaded, response>>
    /\ UNCHANGED <<database, view, replies>>

\* The client speaks about the state that is stored now.
StateFound(w) == call[w].session \in created
StateIsCurrent(w) ==
    /\ StateFound(w)
    /\ state[call[w].session].revision = call[w].given

\* get_state, then SessionNotFound (404) or StateRevisionConflict (409).
GetState(w) ==
    /\ pc[w] = "get_state"
    /\ IF StateIsCurrent(w)
       THEN /\ loaded' = [loaded EXCEPT ![w] = state[call[w].session]]
            /\ Goto(w, "handle")
            /\ UNCHANGED <<call, response>>
       ELSE Finish(w)
    /\ UNCHANGED <<database, view, replies>>

-----------------------------------------------------------------------------
(* AgentEngine.handle.  An accepted turn has the next revision and some    *)
(* new context; a rejected plan leaves the state as it was.                *)

\* Mutation: a rejected plan's slots are kept under the old revision.
EngineResultsAnyContext(base) ==
    [state : [revision : {base.revision, base.revision + 1}, context : Context],
     answer : Answer]

EngineResults(base) ==
    LET Accepted == [revision : {base.revision + 1}, context : Context]
    IN  [state : Accepted \cup {base}, answer : Answer]

HandleTurn(w) ==
    /\ pc[w] = "handle"
    /\ \E res \in EngineResults(loaded[w]) :
          response' = [response EXCEPT ![w] = res]
    /\ Goto(w, "lock")
    /\ UNCHANGED <<database, call, loaded, view, replies>>

\* The engine raises: no catalog version is active, or it cannot be loaded.
EngineRaises(w) ==
    /\ pc[w] = "handle"
    /\ Finish(w)
    /\ UNCHANGED <<database, view, replies>>

-----------------------------------------------------------------------------
(* PostgresStateStore.commit_turn.                                         *)

\* Mutation: SELECT revision without FOR UPDATE.
SelectSession(w) ==
    /\ pc[w] = "lock"
    /\ IF call[w].session \in created
       THEN /\ Goto(w, "recheck")
            /\ UNCHANGED <<call, loaded, response>>
       ELSE Finish(w)
    /\ UNCHANGED <<database, view, replies>>

\* SELECT revision ... FOR UPDATE waits until the row is free.
LockSession(w) ==
    /\ pc[w] = "lock"
    /\ rowLock[call[w].session] = NoWorker
    /\ IF call[w].session \in created
       THEN /\ rowLock' = [rowLock EXCEPT ![call[w].session] = w]
            /\ Goto(w, "recheck")
            /\ UNCHANGED <<call, loaded, response>>
       ELSE /\ Finish(w)
            /\ UNCHANGED rowLock
    /\ UNCHANGED <<created, state, turns, view, replies>>

\* The revision the transaction accepts, and the one the turn may lead to.
RevisionAccepted(w) ==
    /\ state[call[w].session].revision = call[w].given
    /\ response[w].state.revision \in {call[w].given, call[w].given + 1}

\* Replay of a turn that was committed meanwhile, conflict, or go on.
Recheck(w) ==
    /\ pc[w] = "recheck"
    /\ \/ /\ Replay(w)
          /\ ReleaseLock(w)
       \/ /\ Stored(w) = {}
          /\ ~ RevisionAccepted(w)
          /\ Finish(w)
          /\ ReleaseLock(w)
       \/ /\ Stored(w) = {}
          /\ RevisionAccepted(w)
          /\ Goto(w, "insert")
          /\ UNCHANGED <<call, loaded, response, rowLock>>
    /\ UNCHANGED <<created, state, turns, view, replies>>

\* INSERT INTO turn_message: refused when (session_id, request_id) exists.
InsertTurn(w) ==
    /\ pc[w] = "insert"
    /\ IF Stored(w) = {}
       THEN /\ Goto(w, "update")
            /\ UNCHANGED <<call, loaded, response, rowLock>>
       ELSE /\ Finish(w)
            /\ ReleaseLock(w)
    /\ UNCHANGED <<created, state, turns, view, replies>>

\* Mutation: the response is returned before the transaction commits.
UpdateStateAndReturn(w) ==
    /\ pc[w] = "update"
    /\ Goto(w, "reply")
    /\ ReleaseLock(w)
    /\ UNCHANGED <<created, state, turns, call, loaded, response, view, replies>>

\* UPDATE session_state ... WHERE revision = expected: one row, or a conflict.
UpdateState(w) ==
    /\ pc[w] = "update"
    /\ IF state[call[w].session].revision = call[w].given
       THEN /\ Goto(w, "commit")
            /\ UNCHANGED <<call, loaded, response, rowLock>>
       ELSE /\ Finish(w)
            /\ ReleaseLock(w)
    /\ UNCHANGED <<created, state, turns, view, replies>>

\* The connection block ends: both rows become visible, the lock is free.
NewTurn(w) == [request  |-> call[w].request,
               base     |-> loaded[w],
               response |-> response[w]]

CommitTurn(w) ==
    /\ pc[w] = "commit"
    /\ LET s == call[w].session IN
         /\ turns' = [turns EXCEPT ![s] = Append(@, NewTurn(w))]
         /\ state' = [state EXCEPT ![s] = response[w].state]
    /\ ReleaseLock(w)
    /\ Goto(w, "reply")
    /\ UNCHANGED <<created, call, loaded, response, view, replies>>

-----------------------------------------------------------------------------
\* The HTTP response reaches the client.
SendReply(w) ==
    /\ pc[w] = "reply"
    /\ replies' = replies \cup {[session  |-> call[w].session,
                                 request  |-> call[w].request,
                                 response |-> response[w]]}
    /\ Finish(w)
    /\ UNCHANGED <<database, view>>

\* The connection or the process is lost: an open transaction is rolled
\* back.  At "reply" the turn is stored and only its answer is lost.
Fail(w) ==
    /\ pc[w] # "idle"
    /\ Finish(w)
    /\ ReleaseLock(w)
    /\ UNCHANGED <<created, state, turns, view, replies>>

-----------------------------------------------------------------------------
(* PostgresStateStore.get_session: two statements under READ COMMITTED, so *)
(* a turn may be committed between them.                                   *)
BeginView(r, s) ==
    /\ view[r] = NoView
    /\ s \in created
    /\ view' = [view EXCEPT ![r] = [session  |-> s, done |-> 0,
                                    state    |-> EmptyState,
                                    messages |-> <<>>]]
    /\ UNCHANGED <<database, workers, replies>>

ReadTable(r) ==
    /\ view[r] # NoView
    /\ view[r].done < 2
    /\ LET s     == view[r].session
           table == Statements[view[r].done + 1]
       IN  view' = [view EXCEPT
                      ![r].done = @ + 1,
                      ![r].state = IF table = "session_state" THEN state[s] ELSE @,
                      ![r].messages = IF table = "turn_message" THEN turns[s] ELSE @]
    /\ UNCHANGED <<database, workers, replies>>

ReturnView(r) ==
    /\ view[r] # NoView
    /\ view[r].done = 2
    /\ view' = [view EXCEPT ![r] = NoView]
    /\ UNCHANGED <<database, workers, replies>>

-----------------------------------------------------------------------------
\* What a worker does by itself; LockSession also waits for the row.
WorkerStep(w) ==
    \/ GetReplay(w)
    \/ GetState(w)
    \/ HandleTurn(w)
    \/ EngineRaises(w)
    \/ LockSession(w)
    \/ Recheck(w)
    \/ InsertTurn(w)
    \/ UpdateState(w)
    \/ CommitTurn(w)
    \/ SendReply(w)

Next ==
    \/ \E s \in Session : CreateSession(s)
    \/ \E w \in Worker, s \in Session, q \in Request, n \in Revision : Post(w, s, q, n)
    \/ \E w \in Worker : WorkerStep(w)
    \/ \E w \in Worker : Fail(w)
    \/ \E r \in Reader, s \in Session : BeginView(r, s)
    \/ \E r \in Reader : ReadTable(r) \/ ReturnView(r)

Spec == Init /\ [][Next]_vars

\* A thread that can run does run: each statement and the engine end within
\* their timeouts.  PostgreSQL queues the transactions that wait for a row
\* lock, so none waits for ever while the lock keeps being released.
Fairness ==
    \A w \in Worker : /\ WF_vars(WorkerStep(w))
                      /\ SF_vars(LockSession(w))

FairSpec == Spec /\ Fairness

-----------------------------------------------------------------------------
DatabaseTypeOK ==
    /\ created \subseteq Session
    /\ state \in [Session -> State]
    /\ turns \in [Session -> Seq(Turn)]
    /\ rowLock \in [Session -> Worker \cup {NoWorker}]

WorkerTypeOK ==
    /\ pc \in [Worker -> Stage]
    /\ call \in [Worker -> Call \cup {NoCall}]
    /\ loaded \in [Worker -> State]
    /\ response \in [Worker -> Response \cup {NoResponse}]
    /\ \A w \in Worker : /\ pc[w] # "idle" => call[w] \in Call
                         /\ pc[w] \in HasResponse => response[w] \in Response

ClientTypeOK ==
    /\ view \in [Reader -> View \cup {NoView}]
    /\ replies \subseteq Reply

TypeOK == DatabaseTypeOK /\ WorkerTypeOK /\ ClientTypeOK

(***************************************************************************)
(* The turns of a session form a chain: each was computed from exactly the *)
(* state its predecessor left, and the stored state is what the last one   *)
(* left.  The engine runs without a lock, so a turn computed from a state  *)
(* that another turn has replaced must never be committed (no lost         *)
(* update): commit_turn's revision check is all that prevents it.          *)
(***************************************************************************)
StateAfter(ts, n) == IF n = 0 THEN EmptyState ELSE ts[n].response.state

TurnsFormChain ==
    \A s \in Session :
        /\ \A i \in DOMAIN turns[s] : turns[s][i].base = StateAfter(turns[s], i - 1)
        /\ state[s] = StateAfter(turns[s], Len(turns[s]))

(***************************************************************************)
(* However often a request is sent, it is answered with one response: each *)
(* answer that reached a client is the stored answer of the one turn of    *)
(* that request (idempotent retries, and nothing acknowledged is lost).    *)
(***************************************************************************)
RepliesAreTheStoredTurn ==
    \A r \in replies :
        \E i \in DOMAIN turns[r.session] :
            /\ turns[r.session][i].response = r.response
            /\ \A j \in DOMAIN turns[r.session] :
                  turns[r.session][j].request = r.request <=> j = i

(***************************************************************************)
(* Once the row is locked and the second look for a stored answer found    *)
(* nothing, no constraint can fire: the INSERT never meets a duplicate and *)
(* the UPDATE finds its revision.  Otherwise two overlapping copies of a   *)
(* request would give one of them an internal error (500) instead of the   *)
(* stored answer.                                                          *)
(***************************************************************************)
CommitCannotCollide ==
    \A w \in Worker :
        pc[w] \in {"insert", "update", "commit"} =>
            /\ Stored(w) = {}
            /\ state[call[w].session].revision = call[w].given

(***************************************************************************)
(* GET /sessions/{id} reads the state before the messages.  A turn that is *)
(* committed in between may show up only in the messages, so the state is  *)
(* the one after some prefix of the messages, never one they cannot        *)
(* explain.                                                                *)
(***************************************************************************)
ViewIsExplained ==
    \A r \in Reader :
        (view[r] # NoView /\ view[r].done = 2) =>
            \E n \in 0..Len(view[r].messages) :
                view[r].state = StateAfter(view[r].messages, n)

-----------------------------------------------------------------------------
(* The parts of the inductive invariant behind the properties above.       *)

\* A session without a row has no turns.
RowsBeforeTurns ==
    \A s \in Session :
        s \notin created => state[s] = EmptyState /\ turns[s] = <<>>

\* An open transaction owns its session's row.
TransactionOwnsRow ==
    \A w \in Worker :
        pc[w] \in InTransaction => rowLock[call[w].session] = w

\* A turn in progress was computed from the state its revision stands for:
\* the stored state has moved on, or it is still that very state.
LoadedIsAPastState ==
    \A w \in Worker :
        pc[w] \in TurnIsOpen \cup {"handle"} =>
            LET current == state[call[w].session] IN
              /\ call[w].session \in created
              /\ loaded[w].revision = call[w].given
              /\ loaded[w].revision <= current.revision
              /\ loaded[w].revision = current.revision => loaded[w] = current

\* The response of an open turn is one the engine gives for the loaded state.
ResponseFollowsLoaded ==
    \A w \in Worker :
        pc[w] \in TurnIsOpen => response[w] \in EngineResults(loaded[w])

\* UNIQUE (session_id, request_id).
OneTurnPerRequest ==
    \A s \in Session : \A i, j \in DOMAIN turns[s] :
        turns[s][i].request = turns[s][j].request => i = j

\* The response s gives to q is the one of a stored turn.
IsStored(s, q, res) ==
    \E i \in DOMAIN turns[s] :
        turns[s][i].request = q /\ turns[s][i].response = res

AnswersAreStored ==
    /\ \A w \in Worker :
          pc[w] = "reply" => IsStored(call[w].session, call[w].request, response[w])
    /\ \A r \in replies : IsStored(r.session, r.request, r.response)

\* After its first statement a reader holds a state the turns went through.
ViewStateWasStored ==
    \A r \in Reader :
        (view[r] # NoView /\ view[r].done = 1) =>
            \E n \in 0..Len(turns[view[r].session]) :
                view[r].state = StateAfter(turns[view[r].session], n)

RuntimeInv ==
    /\ TypeOK
    /\ RowsBeforeTurns
    /\ TransactionOwnsRow
    /\ LoadedIsAPastState
    /\ ResponseFollowsLoaded
    /\ CommitCannotCollide
    /\ OneTurnPerRequest
    /\ AnswersAreStored
    /\ TurnsFormChain
    /\ ViewStateWasStored
    /\ ViewIsExplained

-----------------------------------------------------------------------------
(***************************************************************************)
(* A step stores at most one turn per session, changes none, and moves the *)
(* state by at most one revision; the context never changes under an       *)
(* unchanged revision, so a client's revision stands for one state.        *)
(***************************************************************************)
HistoryGrowsByTurns ==
    [][\A s \in Session :
          /\ \/ turns'[s] = turns[s]
             \/ \E w \in Worker : /\ pc[w] = "commit"
                                  /\ turns'[s] = Append(turns[s], NewTurn(w))
          /\ state'[s].revision \in {state[s].revision, state[s].revision + 1}
          /\ state'[s].revision = state[s].revision => state'[s] = state[s]]_vars

(***************************************************************************)
(* The runtime is a ledger of turns: every step of every worker is, for a  *)
(* client, nothing, one whole turn taken on the current state, or a stored *)
(* answer given.                                                           *)
(***************************************************************************)
Ledger == INSTANCE TurnLedger WITH ledger <- turns

IsTurnLedger == Ledger!Spec

\* Every POST ends: with an answer, an error status or a lost connection.
PostEnds == \A w \in Worker : pc[w] # "idle" ~> pc[w] = "idle"
=============================================================================
