--------------------------- MODULE BrowserClient ---------------------------
(***************************************************************************)
(* The page of app/static/index.html, composed with TurnRuntime.  The page *)
(* remembers a session and the revision it was last told, in its own       *)
(* memory only, and sends each text once, under a new request id.  It      *)
(* disables its button while it waits, and whatever it hears enables it    *)
(* again.                                                                  *)
(*                                                                         *)
(* The network may lose an answer while the server goes on: the worker     *)
(* then commits a turn the page knows nothing of.  Pages have sessions of  *)
(* their own and meet only in the pool of workers, so one is enough.       *)
(***************************************************************************)
EXTENDS TurnRuntime

CONSTANTS
    NoSession,   \* sessionId is null
    Nothing      \* no worker serves the page

ASSUME PageAssumption == NoSession \notin Session /\ Nothing \notin Worker

VARIABLES
    sessionId,   \* the session the page remembers
    revision,    \* the state_revision the page remembers
    stage,       \* where submit() is
    server,      \* the worker that serves the page's POST
    shown,       \* the answers on the page, in order
    sent,        \* the request ids that were used; randomUUID gives new ones
    heard,       \* what the last submit() ended with
    lost         \* a POST of this session ended without any answer

memory  == <<sessionId, revision>>
history == <<shown, sent, heard, lost>>
page    == <<memory, stage, server, history>>
all     == <<vars, page>>

SubmitStage == {"idle", "ensure_session", "fetch", "waiting"}

\* The page is loaded: both variables are initialized and nothing is shown.
Loaded ==
    /\ sessionId = NoSession
    /\ revision = 0
    /\ stage = "idle"
    /\ server = Nothing
    /\ shown = <<>>
    /\ heard = "nothing"
    /\ lost = FALSE

PageInit == Init /\ Loaded /\ sent = {}

-----------------------------------------------------------------------------
\* randomUUID(), the server's new session id and the thread that is free: they are
\* only compared, so it does not matter which one is taken.
Fresh(ids) == CHOOSE id \in ids : TRUE

\* submit(): ignored while the button is disabled.
Submit ==
    /\ stage = "idle"
    /\ stage' = IF sessionId = NoSession THEN "ensure_session" ELSE "fetch"
    /\ heard' = "nothing"
    /\ UNCHANGED <<vars, memory, server, shown, sent, lost>>

\* The catch and finally blocks: the error is shown, the button is enabled.
ShowError(error) ==
    /\ stage' = "idle"
    /\ server' = Nothing
    /\ heard' = error
    /\ UNCHANGED <<memory, shown, sent>>

\* ensureSession(): POST /sessions.
OpenSession ==
    /\ stage = "ensure_session"
    /\ created # Session
    /\ sessionId' = Fresh(Session \ created)
    /\ CreateSession(sessionId')
    /\ revision' = 0
    /\ stage' = "fetch"
    /\ UNCHANGED <<server, history>>

\* The session is not created, or it is and nobody learns its id.
SessionFails ==
    /\ stage = "ensure_session"
    /\ \/ UNCHANGED vars
       \/ created # Session /\ CreateSession(Fresh(Session \ created))
    /\ ShowError("failed")
    /\ UNCHANGED lost

Idle == {w \in Worker : pc[w] = "idle"}

SendMessage ==
    /\ stage = "fetch"
    /\ sent # Request
    /\ Idle # {}
    /\ LET q == Fresh(Request \ sent) IN
         /\ server' = Fresh(Idle)
         /\ Post(server', sessionId, q, revision)
         /\ sent' = sent \cup {q}
    /\ stage' = "waiting"
    /\ UNCHANGED <<memory, shown, heard, lost>>

\* Every text has been sent (a bound of the model): the page is left.
OutOfRequests ==
    /\ stage = "fetch"
    /\ sent = Request
    /\ ShowError("failed")
    /\ UNCHANGED <<vars, lost>>

\* Mutation: the page keeps the revision of its first answer.
ShowAnswerOnly(w) ==
    /\ stage' = "idle"
    /\ server' = Nothing
    /\ heard' = "answer"
    /\ shown' = Append(shown, [request |-> call[w].request, response |-> response[w]])
    /\ UNCHANGED <<memory, sent, lost>>

\* response.ok: the revision is remembered and the answer added.
ShowAnswer(w) ==
    /\ revision' = response[w].state.revision
    /\ stage' = "idle"
    /\ server' = Nothing
    /\ heard' = "answer"
    /\ shown' = Append(shown, [request |-> call[w].request, response |-> response[w]])
    /\ UNCHANGED <<sessionId, sent, lost>>

-----------------------------------------------------------------------------
(* A worker's step, and what the page hears of it if it still listens.     *)
Works(w) ==
    /\ WorkerStep(w)
    /\ pc'[w] # "idle"
    /\ UNCHANGED page

Answers(w) ==
    /\ SendReply(w)
    /\ IF server = w THEN ShowAnswer(w) ELSE UNCHANGED page

\* 404 and 409: `!response.ok'.
Refuses(w) ==
    /\ pc[w] \notin {"handle", "reply"}
    /\ WorkerStep(w)
    /\ pc'[w] = "idle"
    /\ IF server = w THEN ShowError("refused") /\ UNCHANGED lost ELSE UNCHANGED page

\* 500: no catalog is active, or it cannot be loaded.
Raises(w) ==
    /\ EngineRaises(w)
    /\ IF server = w THEN ShowError("failed") /\ UNCHANGED lost ELSE UNCHANGED page

Breaks(w) ==
    /\ Fail(w)
    /\ IF server = w THEN ShowError("failed") /\ lost' = TRUE ELSE UNCHANGED page

Serves(w) == Works(w) \/ Answers(w) \/ Refuses(w) \/ Raises(w)

\* Mutation: after an error the page assumes that its turn was taken.
DisconnectAndCount ==
    /\ stage = "waiting"
    /\ stage' = "idle"
    /\ server' = Nothing
    /\ heard' = "failed"
    /\ lost' = TRUE
    /\ revision' = revision + 1
    /\ UNCHANGED <<vars, sessionId, shown, sent>>

\* fetch() rejects: the connection is gone, the worker knows nothing of it.
Disconnect ==
    /\ stage = "waiting"
    /\ ShowError("failed")
    /\ lost' = TRUE
    /\ UNCHANGED vars

\* "New chat": the page forgets everything.
Reload ==
    /\ sessionId' = NoSession
    /\ revision' = 0
    /\ stage' = "idle"
    /\ server' = Nothing
    /\ shown' = <<>>
    /\ heard' = "nothing"
    /\ lost' = FALSE
    /\ UNCHANGED <<vars, sent>>

-----------------------------------------------------------------------------
SubmitStep == OpenSession \/ SessionFails \/ SendMessage \/ OutOfRequests

PageNext ==
    \/ Submit
    \/ SubmitStep
    \/ \E w \in Worker : Serves(w) \/ Breaks(w)
    \/ Disconnect
    \/ Reload

PageSpec == PageInit /\ [][PageNext]_all

\* As in TurnRuntime; and the page's own requests reach the server or fail.
PageFairness ==
    /\ \A w \in Worker : /\ WF_all(Serves(w))
                         /\ SF_all(Serves(w) /\ pc[w] = "lock")
    /\ WF_all(SubmitStep)

FairPageSpec == PageSpec /\ PageFairness

-----------------------------------------------------------------------------
PageTypeOK ==
    /\ sessionId \in Session \cup {NoSession}
    /\ revision \in Nat
    /\ stage \in SubmitStage
    /\ server \in Worker \cup {Nothing}
    /\ (stage = "waiting") = (server \in Worker)
    /\ shown \in Seq([request : Request, response : Response])
    /\ sent \subseteq Request
    /\ heard \in {"nothing", "answer", "refused", "failed"}
    /\ lost \in BOOLEAN

(***************************************************************************)
(* The dialogue the user sees is one the agent had: each answer on the     *)
(* page was computed from exactly the state that the answer above it left, *)
(* even if turns the user never saw were committed in between, by workers  *)
(* that outlived their connection.                                         *)
(***************************************************************************)
ShownAnswersFollowOn ==
    \A i \in DOMAIN shown :
        \E j \in DOMAIN turns[sessionId] :
            LET turn == turns[sessionId][j] IN
              /\ turn.request = shown[i].request
              /\ turn.response = shown[i].response
              /\ turn.base = IF i = 1 THEN EmptyState ELSE shown[i - 1].response.state

(***************************************************************************)
(* A page is told 404 or 409 only if it has missed an answer since its     *)
(* session began.  (Then it may be told so for ever: nothing but a reload  *)
(* changes what it remembers.)                                             *)
(***************************************************************************)
RefusedOnlyAfterLoss == heard = "refused" => lost

-----------------------------------------------------------------------------
(* The parts of the inductive invariant behind these two.                  *)

\* A page without a session has nothing to show or to wait for.
SessionIsCreated ==
    /\ sessionId # NoSession => sessionId \in created /\ stage # "ensure_session"
    /\ sessionId = NoSession => /\ shown = <<>>
                                /\ stage \in {"idle", "ensure_session"}

\* The worker that serves the page has been given what the page remembers.
ServerHasThePost ==
    server \in Worker => /\ pc[server] # "idle"
                         /\ call[server].session = sessionId
                         /\ call[server].given = revision

\* A request id is used for one POST, in the one session of the page that sent it.
RequestsAreFresh ==
    /\ \A w \in Worker : pc[w] # "idle" =>
          /\ call[w].session \in created
          /\ call[w].request \in sent
          /\ \A v \in Worker :
                (pc[v] # "idle" /\ call[v].request = call[w].request) => v = w
          /\ pc[w] # "reply" => \A s \in Session : StoredTurns(s, call[w].request) = {}
    /\ \A s \in Session : \A i \in DOMAIN turns[s] : turns[s][i].request \in sent

\* The states a session has been in: each has an earlier revision than the
\* stored state, or is that state.
StatesOf(s) == {EmptyState} \cup {turns[s][i].response.state : i \in DOMAIN turns[s]}

StatesArePast ==
    \A s \in Session : \A past \in StatesOf(s) :
        /\ past.revision <= state[s].revision
        /\ past.revision = state[s].revision => past = state[s]

\* The state behind the last answer on the page.
Told == IF shown = <<>> THEN EmptyState ELSE shown[Len(shown)].response.state

PageRemembersTold == revision = Told.revision

\* What the page waits for continues what it has been told.
ServerContinues ==
    server \in Worker =>
        /\ pc[server] \in TurnIsOpen \cup {"handle"} => loaded[server] = Told
        /\ pc[server] = "reply" =>
              \E j \in DOMAIN turns[sessionId] :
                  turns[sessionId][j] = [request  |-> call[server].request,
                                         base     |-> Told,
                                         response |-> response[server]]

\* Before a loss nobody else works on the session, and it is where the page was told.
NothingIsMissed ==
    (~ lost /\ sessionId # NoSession) =>
        /\ \A w \in Worker :
              (pc[w] # "idle" /\ call[w].session = sessionId) => w = server
        /\ state[sessionId] = IF server \in Worker /\ pc[server] = "reply"
                              THEN response[server].state ELSE Told

PageInv ==
    /\ RuntimeInv
    /\ PageTypeOK
    /\ SessionIsCreated
    /\ ServerHasThePost
    /\ RequestsAreFresh
    /\ StatesArePast
    /\ PageRemembersTold
    /\ ServerContinues
    /\ NothingIsMissed
    /\ ShownAnswersFollowOn
    /\ RefusedOnlyAfterLoss

=============================================================================
