---------------------------- MODULE TokenManager ----------------------------
(***************************************************************************)
(* The OAuth token of the language model: GigaChatTokenManager and the     *)
(* deadline of GigaChatHttpPlanner.plan (app/providers/gigachat.py).       *)
(*                                                                         *)
(* Turns run in threads of their own.  They share one cached token; who    *)
(* finds it expired takes the lock, looks again and asks the OAuth server  *)
(* while holding it.  Time advances in units, and only when no thread can  *)
(* go on at once; a request takes up to its timeout.                       *)
(***************************************************************************)
EXTENDS Integers, FiniteSets

CONSTANTS
    Thread,    \* turns that plan at the same time
    NoThread,  \* the lock is free
    Deadline,  \* planner_deadline_ms
    Margin,    \* a token is renewed that long before it expires (60 s)
    Grace,     \* and is kept at least that long (30 s)
    Guess,     \* lifetime of a token whose end the server does not tell (1700 s)
    Lifetime,  \* lifetimes the OAuth server may grant
    MaxTime    \* bound on the time that passes

ASSUME TokenAssumption ==
    /\ NoThread \notin Thread
    /\ {Deadline, Margin, Grace} \subseteq Nat \ {0}
    /\ {Guess, MaxTime} \subseteq Nat
    /\ Lifetime \subseteq Nat

VARIABLES
    now,        \* time.time() and time.monotonic()
    token,      \* _token
    expiresAt,  \* _expires_at
    lock,       \* the thread that holds _lock
    pc,         \* what each thread does
    started,    \* started_at of its plan
    requested,  \* when it sent its OAuth request
    held        \* the token it is about to send

vars == <<now, token, expiresAt, lock, pc, started, requested, held>>

\* When a token was received, how long it lives, and whether the server has
\* told so: expires_at may be missing or illegible.
Token   == [received : Nat, lifetime : Lifetime, told : BOOLEAN]
NoToken == [received |-> 0, lifetime |-> 0]

-----------------------------------------------------------------------------
Init ==
    /\ now = 0
    /\ token = NoToken
    /\ expiresAt = 0
    /\ lock = NoThread
    /\ pc = [t \in Thread |-> "idle"]
    /\ started = [t \in Thread |-> 0]
    /\ requested = [t \in Thread |-> 0]
    /\ held = [t \in Thread |-> NoToken]

Goto(t, step) == pc' = [pc EXCEPT ![t] = step]

Fresh == token # NoToken /\ now < expiresAt

\* plan() begins.
Plan(t) ==
    /\ pc[t] = "idle"
    /\ Goto(t, "check")
    /\ started' = [started EXCEPT ![t] = now]
    /\ UNCHANGED <<now, token, expiresAt, lock, requested, held>>

HandOut(t) ==
    /\ Goto(t, "send")
    /\ held' = [held EXCEPT ![t] = token]

\* The look at the cache before the lock.
CheckToken(t) ==
    /\ pc[t] = "check"
    /\ \/ Fresh /\ HandOut(t)
       \/ ~ Fresh /\ Goto(t, "wait") /\ UNCHANGED held
    /\ UNCHANGED <<now, token, expiresAt, lock, started, requested>>

\* Mutation: no second look once the lock is taken.
AcquireAndRequest(t) ==
    /\ pc[t] = "wait"
    /\ lock = NoThread
    /\ lock' = t
    /\ requested' = [requested EXCEPT ![t] = now]
    /\ Goto(t, "oauth")
    /\ UNCHANGED <<now, token, expiresAt, started, held>>

\* `with self._lock', the second look, and the request under the lock.
AcquireLock(t) ==
    /\ pc[t] = "wait"
    /\ lock = NoThread
    /\ \/ /\ Fresh
          /\ HandOut(t)
          /\ UNCHANGED <<lock, requested>>
       \/ /\ ~ Fresh
          /\ lock' = t
          /\ requested' = [requested EXCEPT ![t] = now]
          /\ Goto(t, "oauth")
          /\ UNCHANGED held
    /\ UNCHANGED <<now, token, expiresAt, started>>

Later(a, b) == IF a > b THEN a ELSE b

\* parsed_expiry, from now on.
Announced(new) == IF new.told THEN new.lifetime ELSE Guess

\* Mutation: the margin is added.
RenewLate(new) == new.received + Later(Grace, Announced(new) + Margin)

\* max(now + 30, parsed_expiry - 60)
RenewAt(new) == new.received + Later(Grace, Announced(new) - Margin)

ReceiveToken(t) ==
    /\ pc[t] = "oauth"
    /\ \E new \in [received : {now}, lifetime : Lifetime, told : BOOLEAN] :
          /\ token' = new
          /\ expiresAt' = RenewAt(new)
          /\ held' = [held EXCEPT ![t] = new]
    /\ lock' = NoThread
    /\ Goto(t, "send")
    /\ UNCHANGED <<now, started, requested>>

\* The OAuth request fails or times out, and plan() with it.
OAuthFails(t) ==
    /\ pc[t] = "oauth"
    /\ lock' = NoThread
    /\ Goto(t, "idle")
    /\ UNCHANGED <<now, token, expiresAt, started, requested, held>>

\* What the token has cost is taken off the deadline of the model's request.
Remaining(t) == IF now - started[t] < Deadline THEN Deadline - (now - started[t]) ELSE 0

SendPrompt(t) ==
    /\ pc[t] = "send"
    /\ Goto(t, IF Remaining(t) > 0 THEN "model" ELSE "idle")
    /\ held' = [held EXCEPT ![t] = NoToken]
    /\ UNCHANGED <<now, token, expiresAt, lock, started, requested>>

\* The model answers, or its request fails or times out.
ModelReturns(t) ==
    /\ pc[t] = "model"
    /\ Goto(t, "idle")
    /\ UNCHANGED <<now, token, expiresAt, lock, started, requested, held>>

\* Requests last no longer than their timeouts, and the rest takes no time.
Tick ==
    /\ now < MaxTime
    /\ \A t \in Thread :
          /\ pc[t] \notin {"check", "send"}
          /\ pc[t] = "wait" => lock # NoThread
          /\ pc[t] = "oauth" => now - requested[t] < Deadline
          /\ pc[t] = "model" => Remaining(t) > 0
    /\ now' = now + 1
    /\ UNCHANGED <<token, expiresAt, lock, pc, started, requested, held>>

Next ==
    \/ \E t \in Thread :
          \/ Plan(t) \/ CheckToken(t) \/ AcquireLock(t) \/ ReceiveToken(t)
          \/ OAuthFails(t) \/ SendPrompt(t) \/ ModelReturns(t)
    \/ Tick

Spec == Init /\ [][Next]_vars

-----------------------------------------------------------------------------
TypeOK ==
    /\ now \in 0..MaxTime
    /\ token \in Token \cup {NoToken}
    /\ expiresAt \in Nat
    /\ lock \in Thread \cup {NoThread}
    /\ pc \in [Thread -> {"idle", "check", "wait", "oauth", "send", "model"}]
    /\ started \in [Thread -> 0..now]
    /\ requested \in [Thread -> 0..now]
    /\ held \in [Thread -> Token \cup {NoToken}]
    /\ \A t \in Thread : pc[t] = "oauth" <=> lock = t
    /\ \A t \in Thread : pc[t] = "send" <=> held[t] # NoToken

\* What the cache cannot know: the token ends within the grace that every
\* token is given, or before the end that is guessed for it.
EndsTooSoon(given) ==
    \/ given.lifetime < Grace
    \/ ~ given.told /\ given.lifetime < Guess - Margin

(***************************************************************************)
(* A token is valid when a thread is about to use it, whether it was read  *)
(* from the cache before or after the lock, or just received.  Only one    *)
(* that ends sooner than the cache can tell may have expired.              *)
(***************************************************************************)
TokenIsValid ==
    \A t \in Thread : pc[t] = "send" =>
        now < held[t].received + held[t].lifetime \/ EndsTooSoon(held[t])

(***************************************************************************)
(* One refresh serves everybody who waited for it: no thread asks the      *)
(* OAuth server while the cache holds a token that need not be renewed.    *)
(***************************************************************************)
OneRefreshServesAll ==
    \A t \in Thread : pc[t] = "oauth" => ~ Fresh

=============================================================================
