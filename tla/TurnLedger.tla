----------------------------- MODULE TurnLedger -----------------------------
(***************************************************************************)
(* What the runtime promises, without workers, locks or transactions: a    *)
(* session is an append-only ledger of turns.  A request takes effect at   *)
(* most once, on the state the last turn left, and every answer is the     *)
(* response in the ledger.  TurnRuntime implements this specification.     *)
(***************************************************************************)
EXTENDS Naturals, Sequences

CONSTANTS Session, Request, Context, Answer, EmptyContext

VARIABLES
    ledger,   \* the turns of each session
    replies   \* the answers that were given

EmptyState == [revision |-> 0, context |-> EmptyContext]

Current(s) ==
    IF ledger[s] = <<>> THEN EmptyState
    ELSE ledger[s][Len(ledger[s])].response.state

Init ==
    /\ ledger = [s \in Session |-> <<>>]
    /\ replies = {}

\* An accepted turn moves the state by one revision, a rejected one keeps it.
Results(base) ==
    [state  : [revision : {base.revision + 1}, context : Context] \cup {base},
     answer : Answer]

TakeTurn(s, q) ==
    /\ \A i \in DOMAIN ledger[s] : ledger[s][i].request # q
    /\ \E res \in Results(Current(s)) :
          ledger' = [ledger EXCEPT
                       ![s] = Append(@, [request  |-> q,
                                         base     |-> Current(s),
                                         response |-> res])]
    /\ UNCHANGED replies

\* The answer is given for the first time, or once more to a retry.
GiveAnswer(s, i) ==
    /\ replies' = replies \cup {[session  |-> s,
                                 request  |-> ledger[s][i].request,
                                 response |-> ledger[s][i].response]}
    /\ UNCHANGED ledger

Next ==
    \/ \E s \in Session, q \in Request : TakeTurn(s, q)
    \/ \E s \in Session : \E i \in DOMAIN ledger[s] : GiveAnswer(s, i)

Spec == Init /\ [][Next]_<<ledger, replies>>
=============================================================================
