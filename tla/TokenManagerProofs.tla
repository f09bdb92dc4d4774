-------------------------- MODULE TokenManagerProofs --------------------------
(***************************************************************************)
(* Tokens are valid when they are used and refreshed once, for any number  *)
(* of threads, any lifetimes, told or guessed, margins and deadlines.      *)
(***************************************************************************)
EXTENDS TokenManager, TLAPS

\* A token leaves the cache before it expires, if that can be known.
CacheIsCautious ==
    token # NoToken => expiresAt <= token.received + token.lifetime \/ EndsTooSoon(token)

TokenInv ==
    /\ TypeOK
    /\ CacheIsCautious
    /\ TokenIsValid
    /\ OneRefreshServesAll

LEMMA RenewedInTime ==
    ASSUME NEW new \in Token
    PROVE  /\ RenewAt(new) \in Nat
           /\ RenewAt(new) <= new.received + new.lifetime \/ EndsTooSoon(new)
<1>1. /\ new.received \in Nat /\ new.lifetime \in Nat /\ new.told \in BOOLEAN
      /\ Margin \in Nat /\ Grace \in Nat /\ Guess \in Nat
  BY TokenAssumption DEF Token
<1>2. CASE new.told
  BY <1>1, <1>2 DEF RenewAt, Announced, Later, EndsTooSoon
<1>3. CASE ~ new.told
  BY <1>1, <1>3 DEF RenewAt, Announced, Later, EndsTooSoon
<1> QED
  BY <1>2, <1>3

\* A token can be told from none.
LEMMA TokensAreTokens == NoToken \notin Token
  BY DEF NoToken, Token

LEMMA TimesAreNumbers ==
    ASSUME TokenInv PROVE now \in Nat /\ expiresAt \in Nat
<1>1. now \in 0..MaxTime /\ expiresAt \in Nat
  BY DEF TokenInv, TypeOK
<1> QED
  BY <1>1, TokenAssumption

LEMMA TokenInit == Init => TokenInv
  BY TokenAssumption DEF Init, TokenInv, TypeOK, CacheIsCautious, TokenIsValid,
         OneRefreshServesAll

\* A fresh token is handed out.
LEMMA HandingOutKeeps ==
    ASSUME TokenInv, NEW t \in Thread, pc[t] \in {"check", "wait"}, Fresh, HandOut(t),
           UNCHANGED <<now, token, expiresAt, lock, started, requested>>
    PROVE  TokenInv'
<1>1. /\ pc' = [pc EXCEPT ![t] = "send"] /\ held' = [held EXCEPT ![t] = token]
      /\ token # NoToken /\ token \in Token /\ now < expiresAt
  BY DEF HandOut, Goto, Fresh, TokenInv, TypeOK
<1>2. /\ held' \in [Thread -> Token \cup {NoToken}]
      /\ pc' \in [Thread -> {"idle", "check", "wait", "oauth", "send", "model"}]
      /\ pc'[t] = "send" /\ held'[t] = token
      /\ \A u \in Thread \ {t} : pc'[u] = pc[u] /\ held'[u] = held[u]
  BY <1>1 DEF TokenInv, TypeOK
<1>3. TypeOK'
  BY <1>1, <1>2 DEF TokenInv, TypeOK
<1>4. CacheIsCautious' /\ OneRefreshServesAll'
  BY <1>2 DEF TokenInv, CacheIsCautious, OneRefreshServesAll, Fresh
<1>5. now < token.received + token.lifetime \/ EndsTooSoon(token)
  <2>1. token.received \in Nat /\ token.lifetime \in Nat
    BY <1>1, TokenAssumption DEF Token
  <2>2. now \in Nat /\ expiresAt \in Nat
    BY TimesAreNumbers
  <2> QED
    BY <1>1, <2>1, <2>2 DEF TokenInv, CacheIsCautious
<1>6. TokenIsValid'
  BY <1>2, <1>5 DEF TokenInv, TokenIsValid
<1> QED
  BY <1>3, <1>4, <1>6 DEF TokenInv

\* Steps that only move a thread on, or hand it what the cache holds.
LEMMA WaitingKeeps ==
    ASSUME TokenInv, NEW t \in Thread,
           Plan(t) \/ CheckToken(t) \/ AcquireLock(t) \/ SendPrompt(t) \/ ModelReturns(t)
    PROVE  TokenInv'
<1> USE DEF TokenInv, TypeOK, CacheIsCautious, TokenIsValid,
            OneRefreshServesAll, Fresh, Goto, HandOut
<1>1. CASE Plan(t)
  BY <1>1 DEF Plan
<1>2. CASE CheckToken(t)
  <2>1. CASE Fresh
    BY <1>2, <2>1, HandingOutKeeps DEF CheckToken
  <2>2. CASE ~ Fresh
    BY <1>2, <2>2 DEF CheckToken
  <2> QED
    BY <2>1, <2>2
<1>3. CASE AcquireLock(t)
  <2>1. \A u \in Thread : pc[u] # "oauth"
    BY <1>3, TokenAssumption DEF AcquireLock
  <2>2. CASE Fresh /\ HandOut(t) /\ UNCHANGED <<lock, requested>>
    BY <1>3, <2>2, HandingOutKeeps DEF AcquireLock
  <2>3. CASE /\ ~ Fresh
             /\ lock' = t
             /\ requested' = [requested EXCEPT ![t] = now]
             /\ Goto(t, "oauth")
             /\ UNCHANGED held
    <3>1. requested' \in [Thread -> 0..now]
      BY <2>3 DEF AcquireLock
    <3>2. \A u \in Thread : (pc'[u] = "oauth" <=> lock' = u)
                             /\ (pc'[u] = "send" <=> held'[u] # NoToken)
      BY <1>3, <2>1, <2>3 DEF AcquireLock
    <3>3. TypeOK'
      BY <1>3, <2>3, <3>1, <3>2 DEF AcquireLock
    <3>4. CacheIsCautious' /\ TokenIsValid' /\ OneRefreshServesAll'
      BY <1>3, <2>1, <2>3 DEF AcquireLock
    <3> QED
      BY <3>3, <3>4
  <2> QED
    BY <1>3, <2>2, <2>3 DEF AcquireLock
<1>4. CASE SendPrompt(t)
  BY <1>4 DEF SendPrompt
<1>5. CASE ModelReturns(t)
  BY <1>5 DEF ModelReturns
<1> QED
  BY <1>1, <1>2, <1>3, <1>4, <1>5

\* The OAuth request ends; nobody else is asking.
LEMMA AskingKeeps ==
    ASSUME TokenInv, NEW t \in Thread, ReceiveToken(t) \/ OAuthFails(t)
    PROVE  TokenInv'
<1>1. pc[t] = "oauth" /\ \A u \in Thread : pc[u] = "oauth" => u = t
  BY DEF ReceiveToken, OAuthFails, TokenInv, TypeOK
<1>2. CASE ReceiveToken(t)
  <2>1. PICK new \in [received : {now}, lifetime : Lifetime, told : BOOLEAN] :
           /\ token' = new
           /\ expiresAt' = RenewAt(new)
           /\ held' = [held EXCEPT ![t] = new]
    BY <1>2 DEF ReceiveToken
  <2>2. new \in Token /\ new # NoToken /\ new.received = now /\ new.lifetime \in Nat
    <3>1. /\ new = [received |-> new.received, lifetime |-> new.lifetime, told |-> new.told]
          /\ new.received = now /\ new.lifetime \in Lifetime /\ new.told \in BOOLEAN
      BY <2>1
    <3>2. now \in Nat /\ new.lifetime \in Nat
      BY <3>1, TimesAreNumbers, TokenAssumption
    <3>3. new \in Token
      BY <3>1, <3>2 DEF Token
    <3> QED
      BY <3>1, <3>2, <3>3, TokensAreTokens
  <2>3. now' = now /\ pc' = [pc EXCEPT ![t] = "send"]
    BY <1>2 DEF ReceiveToken, Goto
  <2>4. TypeOK'
    BY <1>1, <1>2, <2>1, <2>2, <2>3, RenewedInTime, TokenAssumption
    DEF ReceiveToken, TokenInv, TypeOK
  <2>5. CacheIsCautious'
    BY <2>1, <2>2, RenewedInTime DEF CacheIsCautious
  <2>6. OneRefreshServesAll'
    BY <1>1, <2>3 DEF TokenInv, TypeOK, OneRefreshServesAll
  <2>7. TokenIsValid'
    <3>1. new.lifetime > 0 \/ EndsTooSoon(new)
      BY <2>2, TokenAssumption DEF EndsTooSoon
    <3>2. now < new.received + new.lifetime \/ EndsTooSoon(new)
      BY <2>2, <3>1 DEF TokenInv, TypeOK
    <3>3. held'[t] = new /\ \A u \in Thread \ {t} : held'[u] = held[u] /\ pc'[u] = pc[u]
      BY <2>1, <2>3 DEF TokenInv, TypeOK
    <3> QED
      BY <2>3, <3>2, <3>3 DEF TokenInv, TokenIsValid
  <2> QED
    BY <2>4, <2>5, <2>6, <2>7 DEF TokenInv
<1>3. CASE OAuthFails(t)
  BY <1>1, <1>3, TokenAssumption DEF OAuthFails, Goto, TokenInv, TypeOK, CacheIsCautious,
                    TokenIsValid, OneRefreshServesAll, Fresh
<1> QED
  BY <1>2, <1>3

\* Time passes: an expired token stays expired, and nobody is about to use one.
LEMMA TickKeeps == ASSUME TokenInv, Tick PROVE TokenInv'
<1> USE DEF TokenInv, TypeOK
<1>1. now' \in 0..MaxTime /\ 0..now \subseteq 0..now'
  BY TokenAssumption DEF Tick
<1>2. TypeOK'
  BY <1>1 DEF Tick
<1>3. CacheIsCautious' /\ TokenIsValid' /\ OneRefreshServesAll'
  BY TokenAssumption DEF Tick, CacheIsCautious, TokenIsValid, OneRefreshServesAll, Fresh
<1> QED
  BY <1>2, <1>3

THEOREM TokenInvariant == Spec => []TokenInv
<1>1. TokenInv /\ [Next]_vars => TokenInv'
  <2> SUFFICES ASSUME TokenInv, [Next]_vars PROVE TokenInv'
    OBVIOUS
  <2>1. CASE Next
    BY <2>1, WaitingKeeps, AskingKeeps, TickKeeps DEF Next
  <2>2. CASE UNCHANGED vars
    BY <2>2 DEF vars, TokenInv, TypeOK, CacheIsCautious, TokenIsValid,
                OneRefreshServesAll, Fresh
  <2> QED
    BY <2>1, <2>2
<1> QED
  BY TokenInit, <1>1, PTL DEF Spec

(***************************************************************************)
(* No turn sends an expired token, but for one that lives less than the    *)
(* grace, or less than was guessed where the server does not tell the end  *)
(* (providers/gigachat.py:115-154).                                        *)
(***************************************************************************)
THEOREM TokensAreValid == Spec => []TokenIsValid
<1>1. TokenInv => TokenIsValid
  BY DEF TokenInv
<1> QED
  BY <1>1, TokenInvariant, PTL

(***************************************************************************)
(* Who waited for a refresh does not ask again                             *)
(* (providers/gigachat.py:119-125).                                        *)
(***************************************************************************)
THEOREM RefreshServesAll == Spec => []OneRefreshServesAll
<1>1. TokenInv => OneRefreshServesAll
  BY DEF TokenInv
<1> QED
  BY <1>1, TokenInvariant, PTL
===============================================================================
