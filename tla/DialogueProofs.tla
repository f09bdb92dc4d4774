---------------------------- MODULE DialogueProofs ----------------------------
(***************************************************************************)
(* Phase and question agree, answers follow the pinned release and the     *)
(* dialogue changes only with its revision, for every catalog, every text  *)
(* and whatever the language model plans.                                  *)
(***************************************************************************)
EXTENDS Dialogue, FiniteSetTheorems, TLAPS

-----------------------------------------------------------------------------
(* The inductive invariant, and what every turn has to show.               *)

\* PhaseMatchesQuestion, of any state of the dialogue.
Consistent(next) ==
    /\ next.pending = NoPending <=> next.phase \in {"READY", "ANSWERED"}
    /\ next.pending.kind = "candidate_selection" =>
          Cardinality(next.pending.options) \in 1..Limit
    /\ (next.pending.kind = "slot" /\ next.pending.topic = "intent") =>
          next.slots["system"] # NoValue
    /\ (next.pending.kind = "slot" /\ next.pending.topic = "position") =>
          next.slots["department"] # NoValue

\* What the pinned release supports.
Supported(facts) ==
    /\ facts \subseteq Entities(pinned)
    /\ facts \cap (Department \cup Position) # {} =>
          \E p \in bundle.profiles :
              /\ p.id \in facts
              /\ facts \cap Department \subseteq p.departments
              /\ facts \cap Position \subseteq p.positions
              /\ facts \cap System \subseteq p.systems
              /\ Cardinality(p.systems) <= AccessLimit => p.systems \subseteq facts

DialogueInv ==
    /\ TypeOK
    /\ PhaseMatchesQuestion
    /\ FactsComeFromThePinnedCatalog
    /\ AccessFollowsAProfile

ChangesAreRevised ==
    /\ state' # state => answer'.revised
    /\ answer'.outcome = "PROVIDER_FAILURE" => state' = state

Sound == DialogueInv' /\ ChangesAreRevised

-----------------------------------------------------------------------------
(* The catalog, questions and slots.                                       *)

LEMMA PinnedRelease ==
    ASSUME TypeOK
    PROVE  /\ bundle.systems \subseteq System /\ IsFiniteSet(bundle.systems)
           /\ bundle.departments \subseteq Department /\ IsFiniteSet(bundle.departments)
           /\ bundle.positions \subseteq Position /\ IsFiniteSet(bundle.positions)
           /\ IsFiniteSet(bundle.profiles)
           /\ \A p \in bundle.profiles : /\ p \in ProfileOf /\ p.id \in Profile
                                         /\ p.departments \subseteq bundle.departments
                                         /\ p.positions \subseteq bundle.positions
                                         /\ p.systems \subseteq bundle.systems
<1>1. pinned \in Version
  BY DEF TypeOK
<1>2. Content[pinned] \in [systems     : SUBSET System,
                           departments : SUBSET Department,
                           positions   : SUBSET Position,
                           profiles    : SUBSET ProfileOf]
  BY <1>1, DialogueAssumption
<1>3. \A p \in Content[pinned].profiles : p \in ProfileOf /\ p.id \in Profile
  BY <1>2 DEF ProfileOf
<1> QED
  BY <1>1, <1>2, <1>3, DialogueAssumption DEF bundle

LEMMA KindsAreApart ==
    /\ NoValue \notin Id
    /\ \A t \in Slot : OptionsOf(t) \subseteq Id
    /\ OptionsOf("system") = System /\ OptionsOf("department") = Department
    /\ OptionsOf("position") = Position /\ OptionsOf("profile") = Profile
  BY DialogueAssumption DEF Id, Slot, OptionsOf

LEMMA QuestionShapes ==
    ASSUME NEW q \in Question
    PROVE  /\ q = NoPending <=> q.kind = "none"
           /\ q.kind \in {"none", "slot", "candidate_selection"}
           /\ q.kind = "slot" => q.topic \in {"intent", "system", "department", "position"}
           /\ q.kind = "candidate_selection" =>
                 q.topic \in Slot /\ q.options \subseteq OptionsOf(q.topic)
<1>1. CASE q = NoPending
  BY <1>1 DEF NoPending
<1>2. ASSUME NEW t \in {"intent", "system", "department", "position"}, q = SlotQuestion(t)
      PROVE  q.kind = "slot" /\ q.topic = t /\ q # NoPending
  BY <1>2 DEF SlotQuestion, NoPending
<1>3. ASSUME NEW t \in Slot, NEW options \in SUBSET OptionsOf(t), q = Selection(t, options)
      PROVE  /\ q.kind = "candidate_selection" /\ q.topic = t /\ q.options = options
             /\ q # NoPending
  BY <1>3 DEF Selection, NoPending
<1>4. \/ q = NoPending
      \/ \E t \in {"intent", "system", "department", "position"} : q = SlotQuestion(t)
      \/ \E t \in Slot : \E options \in SUBSET OptionsOf(t) : q = Selection(t, options)
  BY DEF Question
<1> QED
  BY <1>1, <1>2, <1>3, <1>4

LEMMA NewQuestions ==
    /\ NoPending \in Question /\ NoPending.kind = "none"
    /\ \A t \in {"intent", "system", "department", "position"} :
          /\ SlotQuestion(t) \in Question /\ SlotQuestion(t) # NoPending
          /\ SlotQuestion(t).kind = "slot" /\ SlotQuestion(t).topic = t
    /\ \A t \in Slot : \A options \in SUBSET OptionsOf(t) :
          /\ Selection(t, options) \in Question /\ Selection(t, options) # NoPending
          /\ Selection(t, options).kind = "candidate_selection"
          /\ Selection(t, options).options = options
<1>1. NoPending \in Question /\ NoPending.kind = "none"
  BY DEF Question, NoPending
<1>2. ASSUME NEW t \in {"intent", "system", "department", "position"}
      PROVE  /\ SlotQuestion(t) \in Question /\ SlotQuestion(t) # NoPending
             /\ SlotQuestion(t).kind = "slot" /\ SlotQuestion(t).topic = t
  <2>1. SlotQuestion(t) \in Question
    BY DEF Question
  <2> QED
    BY <2>1 DEF SlotQuestion, NoPending
<1>3. ASSUME NEW t \in Slot, NEW options \in SUBSET OptionsOf(t)
      PROVE  /\ Selection(t, options) \in Question /\ Selection(t, options) # NoPending
             /\ Selection(t, options).kind = "candidate_selection"
             /\ Selection(t, options).options = options
  <2>1. Selection(t, options) \in Question
    BY DEF Question
  <2> QED
    BY <2>1 DEF Selection, NoPending
<1> QED
  BY <1>1, <1>2, <1>3

LEMMA SlotIsFilled ==
    ASSUME NEW slots \in Slots, NEW s \in Slot, NEW id \in OptionsOf(s) \cup {NoValue}
    PROVE  /\ [slots EXCEPT ![s] = id] \in Slots
           /\ [slots EXCEPT ![s] = id][s] = id
           /\ \A t \in Slot \ {s} : [slots EXCEPT ![s] = id][t] = slots[t]
<1> DEFINE filled == [slots EXCEPT ![s] = id]
<1>1. slots \in [Slot -> Id \cup {NoValue}] /\ \A t \in Slot : slots[t] \in OptionsOf(t) \cup {NoValue}
  BY DEF Slots
<1>2. id \in Id \cup {NoValue}
  BY KindsAreApart
<1>3. /\ filled \in [Slot -> Id \cup {NoValue}] /\ filled[s] = id
      /\ \A t \in Slot \ {s} : filled[t] = slots[t]
  BY <1>1, <1>2
<1>4. \A t \in Slot : filled[t] \in OptionsOf(t) \cup {NoValue}
  BY <1>1, <1>3
<1> QED
  BY <1>3, <1>4 DEF Slots

LEMMA StateIsTyped ==
    ASSUME TypeOK
    PROVE  /\ state.intent \in Intent \cup {NoValue} /\ state.phase \in Phase
           /\ state.slots \in Slots /\ state.pending \in Question
           /\ state = [intent |-> state.intent, phase |-> state.phase,
                       slots |-> state.slots, pending |-> state.pending]
  BY DEF TypeOK, TurnState

\* The engine writes phase, system and question at once.
WithSystem(phase, s, question) ==
    [state EXCEPT !.phase = phase, !.slots["system"] = s, !.pending = question]

LEMMA SystemIsRemembered ==
    ASSUME TypeOK, NEW phase, NEW s, NEW question
    PROVE  WithSystem(phase, s, question) =
              [intent |-> state.intent, phase |-> phase,
               slots |-> [state.slots EXCEPT !["system"] = s], pending |-> question]
<1> DEFINE named == [state EXCEPT !.phase = phase]
           told  == [named EXCEPT !.slots["system"] = s]
           asked == [told EXCEPT !.pending = question]
<1>1. named = [intent |-> state.intent, phase |-> phase,
               slots |-> state.slots, pending |-> state.pending]
  BY StateIsTyped
<1>2. told = [intent |-> state.intent, phase |-> phase,
              slots |-> [state.slots EXCEPT !["system"] = s], pending |-> state.pending]
  <2> HIDE DEF named
  <2>1. told = [named EXCEPT !.slots = [named.slots EXCEPT !["system"] = s]]
    OBVIOUS
  <2>2. named.slots = state.slots
    BY <1>1
  <2> QED
    BY <1>1, <2>1, <2>2
<1>3. asked = [intent |-> state.intent, phase |-> phase,
               slots |-> [state.slots EXCEPT !["system"] = s], pending |-> question]
  <2> HIDE DEF told
  <2> QED
    BY <1>2
<1> QED
  BY <1>3 DEF WithSystem

WithSlots(phase, slots, question) ==
    [state EXCEPT !.phase = phase, !.slots = slots, !.pending = question]

LEMMA SlotsAreReplaced ==
    ASSUME TypeOK, NEW phase, NEW slots, NEW question
    PROVE  WithSlots(phase, slots, question) =
              [intent |-> state.intent, phase |-> phase, slots |-> slots, pending |-> question]
<1> DEFINE named == [state EXCEPT !.phase = phase]
           told  == [named EXCEPT !.slots = slots]
           asked == [told EXCEPT !.pending = question]
<1>1. named = [intent |-> state.intent, phase |-> phase,
               slots |-> state.slots, pending |-> state.pending]
  BY StateIsTyped
<1>2. told = [intent |-> state.intent, phase |-> phase,
              slots |-> slots, pending |-> state.pending]
  <2> HIDE DEF named
  <2> QED
    BY <1>1
<1>3. asked = [intent |-> state.intent, phase |-> phase, slots |-> slots, pending |-> question]
  <2> HIDE DEF told
  <2> QED
    BY <1>2
<1> QED
  BY <1>3 DEF WithSlots

\* A search returns at most five of finitely many candidates.
LEMMA ResultsAreFew ==
    ASSUME NEW C, IsFiniteSet(C), NEW S \in Results(C)
    PROVE  /\ S \subseteq C /\ IsFiniteSet(S) /\ Cardinality(S) \in 0..Limit
           /\ S # {} => Cardinality(S) \in 1..Limit
<1>1. S \subseteq C /\ Cardinality(S) <= Limit
  BY DEF Results
<1>2. IsFiniteSet(S)
  BY <1>1, FS_Subset
<1>3. Cardinality(S) \in Nat /\ (S = {} <=> Cardinality(S) = 0)
  BY <1>2, FS_CardinalityType, FS_EmptySet
<1> QED
  BY <1>1, <1>2, <1>3 DEF Limit

-----------------------------------------------------------------------------
(* The ways a turn ends.                                                   *)

LEMMA InvIsConsistent ==
    ASSUME DialogueInv
    PROVE  /\ TypeOK /\ state \in TurnState /\ Consistent(state)
           /\ answer.facts \subseteq Id /\ Supported(answer.facts)
  BY DEF DialogueInv, TypeOK, PhaseMatchesQuestion, PendingIs, Consistent,
         FactsComeFromThePinnedCatalog, AccessFollowsAProfile, Supported

LEMMA ReturnKeepsInv ==
    ASSUME TypeOK, NEW next \in TurnState, Consistent(next),
           NEW result, result.facts \subseteq Id, Supported(result.facts),
           Return(next, result)
    PROVE  DialogueInv'
<1>1. /\ state' = next /\ answer' = result /\ stage' = "idle" /\ request' = NoValue
      /\ UNCHANGED <<catalog, pinned>>
  BY DEF Return
<1>2. TypeOK'
  BY <1>1 DEF TypeOK
<1>3. PhaseMatchesQuestion'
  BY <1>1 DEF PhaseMatchesQuestion, PendingIs, Consistent
<1>4. FactsComeFromThePinnedCatalog' /\ AccessFollowsAProfile'
  BY <1>1 DEF FactsComeFromThePinnedCatalog, AccessFollowsAProfile, Supported, Entities, bundle
<1> QED
  BY <1>2, <1>3, <1>4 DEF DialogueInv

LEMMA ReplyIsSound ==
    ASSUME DialogueInv, NEW next \in TurnState, Consistent(next),
           NEW outcome \in {"HANDLED", "NEEDS_CLARIFICATION"},
           NEW facts \in SUBSET Id, Supported(facts),
           Reply(next, outcome, facts)
    PROVE  Sound
<1> DEFINE result == [outcome |-> outcome, facts |-> facts, revised |-> TRUE]
<1>1. Return(next, result)
  BY DEF Reply
<1>2. DialogueInv'
  BY <1>1, ReturnKeepsInv, InvIsConsistent
<1>3. answer' = result
  BY <1>1 DEF Return
<1> QED
  BY <1>2, <1>3 DEF Sound, ChangesAreRevised

LEMMA RejectIsSound ==
    ASSUME DialogueInv, NEW outcome, Reject(outcome)
    PROVE  Sound
<1> DEFINE result == [outcome |-> outcome, facts |-> {}, revised |-> FALSE]
<1>1. Return(state, result)
  BY DEF Reject
<1>2. result.facts \subseteq Id /\ Supported(result.facts)
  BY DEF Supported
<1>3. DialogueInv'
  BY <1>1, <1>2, ReturnKeepsInv, InvIsConsistent
<1>4. state' = state
  BY <1>1 DEF Return
<1> QED
  BY <1>3, <1>4 DEF Sound, ChangesAreRevised

LEMMA NoFactsAreSupported == Supported({})
  BY DEF Supported

LEMMA SystemsAreSupported ==
    ASSUME TypeOK, NEW s \in bundle.systems
    PROVE  /\ s \in System /\ s # NoValue
           /\ {s} \in SUBSET Id /\ Supported({s})
<1>1. s \in System
  BY PinnedRelease
<1>2. s \notin Department /\ s \notin Position /\ s # NoValue /\ s \in Id
  BY <1>1, DialogueAssumption DEF Id
<1>3. s \in Entities(pinned)
  BY DEF Entities, bundle
<1> QED
  BY <1>1, <1>2, <1>3 DEF Supported

\* A cut that has room for all keeps all.
LEMMA FirstIsAll ==
    ASSUME TypeOK, NEW profile \in bundle.profiles,
           NEW systems \in First(AccessLimit, profile.systems)
    PROVE  /\ systems \subseteq profile.systems
           /\ Cardinality(profile.systems) <= AccessLimit => systems = profile.systems
<1>1. profile.systems \subseteq bundle.systems /\ IsFiniteSet(bundle.systems)
  BY PinnedRelease
<1>2. IsFiniteSet(profile.systems)
  BY <1>1, FS_Subset
<1>3. systems \subseteq profile.systems
  BY DEF First
<1>4. IsFiniteSet(systems) /\ Cardinality(systems) <= Cardinality(profile.systems)
  BY <1>2, <1>3, FS_Subset
<1>5. CASE Cardinality(profile.systems) <= AccessLimit /\ Cardinality(systems) = AccessLimit
  <2>1. Cardinality(systems) = Cardinality(profile.systems)
    BY <1>2, <1>4, <1>5, FS_CardinalityType, DialogueAssumption
  <2> QED
    BY <1>2, <1>3, <2>1, FS_Subset
<1> QED
  BY <1>3, <1>5 DEF First

LEMMA ProfilesAreSupported ==
    ASSUME TypeOK, NEW d, NEW p, NEW profile \in ProfilesFor(d, p),
           NEW systems \in First(AccessLimit, profile.systems)
    PROVE  /\ profile.id \in Profile
           /\ {d, p, profile.id} \cup systems \in SUBSET Id
           /\ Supported({d, p, profile.id} \cup systems)
<1> DEFINE facts == {d, p, profile.id} \cup systems
<1>0. /\ systems \subseteq profile.systems
      /\ Cardinality(profile.systems) <= AccessLimit => systems = profile.systems
  BY FirstIsAll, PinnedRelease DEF ProfilesFor
<1>1. profile \in bundle.profiles /\ d \in profile.departments /\ p \in profile.positions
  BY DEF ProfilesFor
<1>2. /\ profile.id \in Profile /\ d \in bundle.departments /\ p \in bundle.positions
      /\ systems \subseteq bundle.systems
  BY <1>0, <1>1, PinnedRelease
<1>3. d \in Department /\ p \in Position /\ systems \subseteq System
  BY <1>2, PinnedRelease
<1>4. facts \subseteq Id
  BY <1>2, <1>3 DEF Id
<1>5. facts \subseteq Entities(pinned)
  BY <1>1, <1>2 DEF Entities, bundle
<1>6. /\ facts \cap Department = {d} /\ facts \cap Position = {p}
      /\ facts \cap System = systems
  BY <1>2, <1>3, DialogueAssumption
<1>7. profile.id \in facts /\ systems \subseteq facts
  OBVIOUS
<1> HIDE DEF facts
<1>8. Supported(facts)
  BY <1>0, <1>1, <1>5, <1>6, <1>7 DEF Supported
<1> QED
  BY <1>2, <1>4, <1>8 DEF facts

-----------------------------------------------------------------------------
(* Questions.                                                              *)

LEMMA ClarifyAgainIsSound ==
    ASSUME DialogueInv, Clarify(state)
    PROVE  Sound
  BY InvIsConsistent, ReplyIsSound, NoFactsAreSupported DEF Clarify

LEMMA AskSlotIsSound ==
    ASSUME DialogueInv, NEW slots \in Slots, NEW topic \in {"department", "position"},
           topic = "position" => slots["department"] # NoValue,
           AskSlot(topic, slots)
    PROVE  Sound
<1> DEFINE next == [intent |-> "ROLE_DISCOVERY", phase |-> "AWAITING_SLOT",
                    slots |-> slots, pending |-> SlotQuestion(topic)]
<1>1. next \in TurnState
  BY NewQuestions DEF TurnState, Intent, Phase
<1>2. Consistent(next)
  BY NewQuestions DEF Consistent
<1>3. Reply(next, "NEEDS_CLARIFICATION", {})
  BY DEF AskSlot, Clarify
<1> QED
  BY <1>1, <1>2, <1>3, ReplyIsSound, NoFactsAreSupported

LEMMA AskSelectionIsSound ==
    ASSUME DialogueInv, NEW slots \in Slots, NEW topic \in Slot,
           NEW options \in SUBSET OptionsOf(topic), Cardinality(options) \in 1..Limit,
           AskSelection(topic, options, slots)
    PROVE  Sound
<1> DEFINE next == [intent |-> "ROLE_DISCOVERY", phase |-> "AWAITING_SELECTION",
                    slots |-> slots, pending |-> Selection(topic, options)]
<1>1. next \in TurnState
  BY NewQuestions DEF TurnState, Intent, Phase
<1>2. Consistent(next)
  BY NewQuestions DEF Consistent
<1>3. Reply(next, "NEEDS_CLARIFICATION", {})
  BY DEF AskSelection, Clarify
<1> QED
  BY <1>1, <1>2, <1>3, ReplyIsSound, NoFactsAreSupported

LEMMA AnswerSystemIsSound ==
    ASSUME DialogueInv, NEW intent \in Intent, NEW s \in bundle.systems,
           AnswerSystem(intent, s)
    PROVE  Sound
<1> DEFINE next == [intent |-> intent, phase |-> "ANSWERED",
                    slots |-> [state.slots EXCEPT !["system"] = s], pending |-> NoPending]
<1>1. s \in OptionsOf("system") \cup {NoValue} /\ "system" \in Slot /\ state.slots \in Slots
  BY SystemsAreSupported, KindsAreApart, InvIsConsistent, StateIsTyped DEF Slot
<1>2. next \in TurnState
  BY <1>1, SlotIsFilled, NewQuestions DEF TurnState, Intent, Phase
<1>3. Consistent(next)
  BY NewQuestions DEF Consistent
<1>4. Reply(next, "HANDLED", {s})
  BY DEF AnswerSystem
<1> QED
  BY <1>2, <1>3, <1>4, ReplyIsSound, SystemsAreSupported, InvIsConsistent

-----------------------------------------------------------------------------
(* _finish_profile_access.                                                 *)

\* As many options as profiles at most, and one at least.
LEMMA ProfileOptionsAreFew ==
    ASSUME NEW S, IsFiniteSet(S), S # {}, Cardinality(S) <= Limit
    PROVE  Cardinality({p.id : p \in S}) \in 1..Limit
<1> DEFINE T  == {p.id : p \in S}
           id == [p \in S |-> p.id]
<1>1. id \in Surjection(S, T)
  BY DEF Surjection
<1>2. IsFiniteSet(T) /\ Cardinality(T) <= Cardinality(S)
  BY <1>1, FS_Surjection
<1>3. T # {}
  OBVIOUS
<1>4. Cardinality(T) \in Nat /\ Cardinality(T) # 0
  BY <1>2, <1>3, FS_CardinalityType, FS_EmptySet
<1>5. Cardinality(S) \in Nat
  BY FS_CardinalityType
<1> QED
  BY <1>2, <1>4, <1>5 DEF Limit

LEMMA FinishIsSound ==
    ASSUME DialogueInv, NEW slots \in Slots, FinishProfileAccess(slots)
    PROVE  Sound
<1> DEFINE d == slots["department"]
           p == slots["position"]
<1>1. CASE d = NoValue /\ AskSlot("department", slots)
  BY <1>1, AskSlotIsSound
<1>2. CASE d # NoValue /\ AskSlot("position", slots)
  BY <1>2, AskSlotIsSound
<1>3. ASSUME d # NoValue, NEW S \in Results(ProfilesFor(d, p)),
             Cardinality(S) > 1, AskSelection("profile", {q.id : q \in S}, slots)
      PROVE  Sound
  <2>1. IsFiniteSet(ProfilesFor(d, p)) /\ \A q \in ProfilesFor(d, p) : q.id \in Profile
    <3>1. ProfilesFor(d, p) \subseteq bundle.profiles
      BY DEF ProfilesFor
    <3> QED
      BY <3>1, PinnedRelease, InvIsConsistent, FS_Subset
  <2>2. S \subseteq ProfilesFor(d, p) /\ IsFiniteSet(S) /\ Cardinality(S) \in 0..Limit
    BY <1>3, <2>1, ResultsAreFew
  <2>3. S # {}
    BY <1>3, FS_EmptySet
  <2>4. Cardinality({q.id : q \in S}) \in 1..Limit
    BY <2>2, <2>3, ProfileOptionsAreFew DEF Limit
  <2>5. {q.id : q \in S} \in SUBSET OptionsOf("profile") /\ "profile" \in Slot
    BY <2>1, <2>2, KindsAreApart DEF Slot
  <2> QED
    BY <1>3, <2>4, <2>5, AskSelectionIsSound
<1>4. ASSUME NEW profile \in ProfilesFor(d, p),
             NEW systems \in First(AccessLimit, profile.systems),
             Reply([intent |-> "ROLE_DISCOVERY", phase |-> "ANSWERED",
                    slots |-> [slots EXCEPT !["profile"] = profile.id], pending |-> NoPending],
                   "HANDLED", {d, p, profile.id} \cup systems)
      PROVE  Sound
  <2> DEFINE next == [intent |-> "ROLE_DISCOVERY", phase |-> "ANSWERED",
                      slots |-> [slots EXCEPT !["profile"] = profile.id], pending |-> NoPending]
             facts == {d, p, profile.id} \cup systems
  <2>1. TypeOK
    BY InvIsConsistent
  <2>2. profile.id \in Profile /\ facts \in SUBSET Id /\ Supported(facts)
    BY <1>4, <2>1, ProfilesAreSupported
  <2>3. profile.id \in OptionsOf("profile") \cup {NoValue} /\ "profile" \in Slot
    BY <2>2, KindsAreApart DEF Slot
  <2>4. next \in TurnState
    BY <2>3, SlotIsFilled, NewQuestions DEF TurnState, Intent, Phase
  <2>5. Consistent(next)
    BY NewQuestions DEF Consistent
  <2>6. Reply(next, "HANDLED", facts)
    BY <1>4
  <2> HIDE DEF next, facts
  <2> QED
    BY <2>2, <2>4, <2>5, <2>6, ReplyIsSound
<1>5. CASE \E S \in Results(ProfilesFor(d, p)) : \E profile \in S :
              \E systems \in First(AccessLimit, profile.systems) :
              /\ S = {profile}
              /\ Reply([intent  |-> "ROLE_DISCOVERY", phase |-> "ANSWERED",
                        slots   |-> [slots EXCEPT !["profile"] = profile.id],
                        pending |-> NoPending],
                       "HANDLED", {d, p, profile.id} \cup systems)
  BY <1>4, <1>5 DEF Results
<1> QED
  BY <1>1, <1>2, <1>3, <1>5 DEF FinishProfileAccess

-----------------------------------------------------------------------------
(* The rules of _deterministic, one lemma each.                            *)

LEMMA ResetIsSound ==
    ASSUME DialogueInv, ResetContext
    PROVE  Sound
<1>1. NoSlots \in Slots
  BY DEF NoSlots, Slots
<1>2. EmptyState \in TurnState
  BY <1>1, NewQuestions DEF EmptyState, TurnState, Phase
<1>3. Consistent(EmptyState)
  BY DEF Consistent, EmptyState, NoPending
<1> QED
  BY <1>2, <1>3, ReplyIsSound, NoFactsAreSupported DEF ResetContext

LEMMA AnswerIntentIsSound ==
    ASSUME DialogueInv, AnswerIntent
    PROVE  Sound
<1>1. CASE Clarify(state)
  BY <1>1, ClarifyAgainIsSound
<1>2. ASSUME NEW intent \in {"ROLE_DISCOVERY", "INSTRUCTION_LOOKUP"},
             FocusedSystemExists, AnswerSystem(intent, state.slots["system"])
      PROVE  Sound
  BY <1>2, AnswerSystemIsSound DEF FocusedSystemExists, Intent
<1> QED
  BY <1>1, <1>2 DEF AnswerIntent

LEMMA PositionsAreTyped ==
    ASSUME TypeOK, NEW d
    PROVE  PositionsFor(d) \subseteq Position /\ IsFiniteSet(PositionsFor(d))
<1>1. PositionsFor(d) \subseteq bundle.positions
  BY PinnedRelease DEF PositionsFor
<1> QED
  BY <1>1, PinnedRelease, FS_Subset

LEMMA FillOrganizationSlotIsSound ==
    ASSUME DialogueInv, NEW topic \in {"department", "position"},
           NEW candidates \in SUBSET OptionsOf(topic), IsFiniteSet(candidates),
           FillOrganizationSlot(topic, candidates)
    PROVE  Sound
<1>1. PICK S \in Results(candidates) :
          \/ S = {} /\ Clarify(state)
          \/ \E id \in S : S = {id} /\ FinishProfileAccess([state.slots EXCEPT ![topic] = id])
          \/ Cardinality(S) > 1 /\ AskSelection(topic, S, state.slots)
  BY DEF FillOrganizationSlot
<1>2. S \subseteq candidates /\ IsFiniteSet(S) /\ Cardinality(S) \in 0..Limit
  BY ResultsAreFew
<1>3. state.slots \in Slots /\ topic \in Slot
  BY StateIsTyped, InvIsConsistent DEF Slot
<1>4. CASE S = {} /\ Clarify(state)
  BY <1>4, ClarifyAgainIsSound
<1>5. ASSUME NEW id \in S, FinishProfileAccess([state.slots EXCEPT ![topic] = id])
      PROVE  Sound
  <2>1. [state.slots EXCEPT ![topic] = id] \in Slots
    BY <1>2, <1>3, SlotIsFilled
  <2> QED
    BY <1>5, <2>1, FinishIsSound
<1>6. CASE Cardinality(S) > 1 /\ AskSelection(topic, S, state.slots)
  <2>1. Cardinality(S) \in 1..Limit
    BY <1>2, <1>6 DEF Limit
  <2> QED
    BY <1>2, <1>3, <1>6, <2>1, AskSelectionIsSound
<1> QED
  BY <1>1, <1>4, <1>5, <1>6

LEMMA FillDepartmentIsSound ==
    ASSUME DialogueInv, FillDepartment
    PROVE  Sound
<1>1. bundle.departments \in SUBSET OptionsOf("department") /\ IsFiniteSet(bundle.departments)
  BY PinnedRelease, InvIsConsistent, KindsAreApart
<1> QED
  BY <1>1, FillOrganizationSlotIsSound DEF FillDepartment

LEMMA FillPositionIsSound ==
    ASSUME DialogueInv, FillPosition
    PROVE  Sound
<1> DEFINE candidates == PositionsFor(state.slots["department"])
<1>1. candidates \in SUBSET OptionsOf("position") /\ IsFiniteSet(candidates)
  BY PositionsAreTyped, InvIsConsistent, KindsAreApart
<1> QED
  BY <1>1, FillOrganizationSlotIsSound DEF FillPosition

\* What the first five of the systems a text resembles are good for.
LEMMA FirstFiveOfSystems ==
    ASSUME TypeOK, NEW S \in FirstFive(WeakMatches) \ {{}}
    PROVE  S \in SUBSET OptionsOf("system") /\ Cardinality(S) \in 1..Limit
<1>1. WeakMatches \subseteq bundle.systems /\ S \in Results(WeakMatches)
  BY DEF WeakMatches, FirstFive, First, Results
<1>2. IsFiniteSet(WeakMatches)
  BY <1>1, PinnedRelease, FS_Subset
<1>3. S \subseteq WeakMatches /\ Cardinality(S) \in 1..Limit
  BY <1>1, <1>2, ResultsAreFew
<1> QED
  BY <1>1, <1>3, PinnedRelease, KindsAreApart

LEMMA FillSystemIsSound ==
    ASSUME DialogueInv, FillSystem
    PROVE  Sound
<1>1. /\ state.pending.kind = "slot" /\ state.pending.topic = "system"
      /\ TypeOK /\ state \in TurnState /\ Consistent(state)
      /\ state.slots \in Slots /\ state.pending \in Question
  BY InvIsConsistent, StateIsTyped DEF FillSystem, SlotReply
<1>2. ASSUME NEW s \in SafeMatches,
             Reply([state EXCEPT !.phase = "READY", !.slots["system"] = s,
                                 !.pending = NoPending], "HANDLED", {})
      PROVE  Sound
  <2> DEFINE next == WithSystem("READY", s, NoPending)
  <2>1. s \in OptionsOf("system") \cup {NoValue} /\ "system" \in Slot
    BY <1>1, PinnedRelease, KindsAreApart DEF SafeMatches, Slot
  <2>2. next = [intent |-> state.intent, phase |-> "READY",
                slots |-> [state.slots EXCEPT !["system"] = s], pending |-> NoPending]
    BY <1>1, SystemIsRemembered
  <2>3. next \in TurnState
    BY <1>1, <2>1, <2>2, SlotIsFilled, NewQuestions, StateIsTyped DEF TurnState, Phase
  <2>4. Consistent(next)
    <3> HIDE DEF next
    <3>1. next.phase = "READY" /\ next.pending = NoPending
      BY <2>2
    <3> QED
      BY <3>1 DEF Consistent, NoPending
  <2>5. Reply(next, "HANDLED", {})
    BY <1>2 DEF WithSystem
  <2> HIDE DEF next
  <2> QED
    BY <2>3, <2>4, <2>5, ReplyIsSound, NoFactsAreSupported
<1>3. ASSUME NEW S \in FirstFive(WeakMatches) \ {{}},
             Clarify([state EXCEPT !.pending = Selection("system", S)])
      PROVE  Sound
  <2> DEFINE next == [state EXCEPT !.pending = Selection("system", S)]
  <2>1. S \in SUBSET OptionsOf("system") /\ Cardinality(S) \in 1..Limit /\ "system" \in Slot
    BY <1>1, FirstFiveOfSystems DEF Slot
  <2>2. next = [intent |-> state.intent, phase |-> state.phase,
                slots |-> state.slots, pending |-> Selection("system", S)]
    BY <1>1 DEF TurnState
  <2>3. state.pending # NoPending
    BY <1>1, QuestionShapes
  <2>4. next \in TurnState
    BY <1>1, <2>1, <2>2, NewQuestions, StateIsTyped DEF TurnState
  <2>5. Consistent(next)
    BY <1>1, <2>1, <2>2, <2>3, NewQuestions DEF Consistent
  <2> QED
    BY <1>3, <2>4, <2>5, ReplyIsSound, NoFactsAreSupported DEF Clarify
<1>4. CASE Clarify(state)
  BY <1>4, ClarifyAgainIsSound
<1> QED
  BY <1>2, <1>3, <1>4 DEF FillSystem

LEMMA SelectIsSound ==
    ASSUME DialogueInv, Select
    PROVE  Sound
<1> DEFINE topic == state.pending.topic
<1>1. /\ TypeOK /\ state.slots \in Slots /\ state.pending \in Question
      /\ state.pending.kind = "candidate_selection"
  BY InvIsConsistent, StateIsTyped DEF Select, SelectionReply
<1>2. topic \in Slot /\ state.pending.options \subseteq OptionsOf(topic)
  BY <1>1, QuestionShapes
<1>3. PICK id \in state.pending.options :
        LET slots == [state.slots EXCEPT ![topic] = id] IN
          IF topic \in {"department", "position"}
          THEN FinishProfileAccess(slots)
          ELSE Reply([state EXCEPT !.phase = "ANSWERED", !.slots = slots,
                                   !.pending = NoPending], "HANDLED", {})
  BY DEF Select
<1> DEFINE slots == [state.slots EXCEPT ![topic] = id]
           next  == WithSlots("ANSWERED", slots, NoPending)
<1>4. slots \in Slots
  BY <1>1, <1>2, SlotIsFilled
<1> HIDE DEF slots
<1>5. CASE FinishProfileAccess(slots)
  BY <1>4, <1>5, FinishIsSound
<1>6. CASE Reply(next, "HANDLED", {})
  <2>1. next = [intent |-> state.intent, phase |-> "ANSWERED",
                slots |-> slots, pending |-> NoPending]
    BY <1>1, SlotsAreReplaced
  <2>2. next \in TurnState
    BY <1>1, <1>4, <2>1, NewQuestions, StateIsTyped DEF TurnState, Phase
  <2>3. Consistent(next)
    BY <2>1, NewQuestions DEF Consistent
  <2> QED
    BY <1>6, <2>2, <2>3, ReplyIsSound, NoFactsAreSupported
<1>7. FinishProfileAccess(slots) \/ Reply(next, "HANDLED", {})
  BY <1>3 DEF slots, WithSlots
<1> HIDE DEF next
<1> QED
  BY <1>5, <1>6, <1>7

LEMMA OrganizationIsSound ==
    ASSUME DialogueInv, Organization
    PROVE  Sound
<1> DEFINE SlotsAfter(P) == IF Cardinality(P) = 1
                            THEN [state.slots EXCEPT !["position"] = CHOOSE id \in P : TRUE]
                            ELSE state.slots
<1>1. PICK P \in Results(PositionsFor(state.slots["department"])),
           D \in Results(bundle.departments) :
         \/ /\ Cardinality(P) > 1
            /\ AskSelection("position", P, SlotsAfter(P))
         \/ /\ Cardinality(P) <= 1 /\ Cardinality(D) > 1
            /\ AskSelection("department", D, SlotsAfter(P))
         \/ /\ Cardinality(P) <= 1
            /\ \E id \in D : /\ D = {id}
                             /\ FinishProfileAccess([SlotsAfter(P) EXCEPT !["department"] = id])
         \/ /\ Cardinality(P) <= 1 /\ D = {}
            /\ FinishProfileAccess(SlotsAfter(P))
  BY DEF Organization
<1> DEFINE slots == SlotsAfter(P)
<1>2. TypeOK /\ state.slots \in Slots /\ "position" \in Slot /\ "department" \in Slot
  BY InvIsConsistent, StateIsTyped DEF Slot
<1>3. P \in SUBSET OptionsOf("position") /\ IsFiniteSet(P) /\ Cardinality(P) \in 0..Limit
  BY <1>2, PositionsAreTyped, ResultsAreFew, KindsAreApart
<1>4. D \in SUBSET OptionsOf("department") /\ Cardinality(D) \in 0..Limit
  BY <1>2, PinnedRelease, ResultsAreFew, KindsAreApart
<1>5. slots \in Slots
  <2>1. CASE Cardinality(P) = 1
    <3>1. P # {}
      BY <1>3, <2>1, FS_EmptySet
    <3>2. (CHOOSE id \in P : TRUE) \in OptionsOf("position") \cup {NoValue}
      BY <1>3, <3>1
    <3>3. [state.slots EXCEPT !["position"] = CHOOSE id \in P : TRUE] \in Slots
      BY <1>2, <3>2, SlotIsFilled
    <3> QED
      BY <2>1, <3>3
  <2> QED
    BY <1>2, <2>1
<1> HIDE DEF slots, SlotsAfter
<1>6. CASE Cardinality(P) > 1 /\ AskSelection("position", P, slots)
  <2>1. Cardinality(P) \in 1..Limit
    BY <1>3, <1>6 DEF Limit
  <2> QED
    BY <1>2, <1>3, <1>5, <1>6, <2>1, AskSelectionIsSound
<1>7. CASE Cardinality(D) > 1 /\ AskSelection("department", D, slots)
  <2>1. Cardinality(D) \in 1..Limit
    BY <1>4, <1>7 DEF Limit
  <2> QED
    BY <1>2, <1>4, <1>5, <1>7, <2>1, AskSelectionIsSound
<1>8. ASSUME NEW id \in D, FinishProfileAccess([slots EXCEPT !["department"] = id])
      PROVE  Sound
  <2>1. [slots EXCEPT !["department"] = id] \in Slots
    BY <1>2, <1>4, <1>5, SlotIsFilled
  <2> QED
    BY <1>8, <2>1, FinishIsSound
<1>9. CASE FinishProfileAccess(slots)
  BY <1>5, <1>9, FinishIsSound
<1> QED
  BY <1>1, <1>6, <1>7, <1>8, <1>9 DEF slots

LEMMA NameSystemIsSound ==
    ASSUME DialogueInv, NameSystem
    PROVE  Sound
<1>1. TypeOK /\ state \in TurnState /\ state.slots \in Slots
  BY InvIsConsistent, StateIsTyped
<1>2. PICK s \in SafeMatches :
         \/ AnswerSystem("INSTRUCTION_LOOKUP", s)
         \/ AnswerSystem("ROLE_DISCOVERY", s)
         \/ Reply([state EXCEPT !.phase = "AWAITING_INTENT", !.slots["system"] = s,
                                !.pending = SlotQuestion("intent")],
                  IF Says("change") THEN "HANDLED" ELSE "NEEDS_CLARIFICATION", {})
  BY DEF NameSystem
<1>3. s \in bundle.systems
  BY <1>2 DEF SafeMatches
<1>4. CASE AnswerSystem("INSTRUCTION_LOOKUP", s) \/ AnswerSystem("ROLE_DISCOVERY", s)
  BY <1>3, <1>4, AnswerSystemIsSound DEF Intent
<1> DEFINE next == WithSystem("AWAITING_INTENT", s, SlotQuestion("intent"))
           outcome == IF Says("change") THEN "HANDLED" ELSE "NEEDS_CLARIFICATION"
<1>5. CASE Reply(next, outcome, {})
  <2>1. s # NoValue /\ s \in OptionsOf("system") \cup {NoValue} /\ "system" \in Slot
    BY <1>1, <1>3, SystemsAreSupported, KindsAreApart DEF Slot
  <2>2. next = [intent |-> state.intent, phase |-> "AWAITING_INTENT",
                slots |-> [state.slots EXCEPT !["system"] = s],
                pending |-> SlotQuestion("intent")]
    BY <1>1, SystemIsRemembered
  <2>3. /\ [state.slots EXCEPT !["system"] = s] \in Slots
        /\ [state.slots EXCEPT !["system"] = s]["system"] = s
    BY <1>1, <2>1, SlotIsFilled
  <2>4. next \in TurnState
    BY <1>1, <2>2, <2>3, NewQuestions, StateIsTyped DEF TurnState, Phase
  <2>5. Consistent(next)
    <3> HIDE DEF next
    <3>1. /\ next.phase = "AWAITING_INTENT" /\ next.pending = SlotQuestion("intent")
          /\ next.slots["system"] = s
      BY <2>2, <2>3
    <3> QED
      BY <2>1, <3>1, NewQuestions DEF Consistent, SlotQuestion
  <2>6. outcome \in {"HANDLED", "NEEDS_CLARIFICATION"}
    OBVIOUS
  <2> HIDE DEF next, outcome
  <2> QED
    BY <1>5, <2>4, <2>5, <2>6, ReplyIsSound, NoFactsAreSupported
<1>6. \/ AnswerSystem("INSTRUCTION_LOOKUP", s)
      \/ AnswerSystem("ROLE_DISCOVERY", s)
      \/ Reply(next, outcome, {})
  BY <1>2 DEF WithSystem
<1> HIDE DEF next, outcome
<1> QED
  BY <1>4, <1>5, <1>6

LEMMA ResembleSystemIsSound ==
    ASSUME DialogueInv, ResembleSystem
    PROVE  Sound
<1>1. PICK S \in FirstFive(WeakMatches) \ {{}} : AskSelection("system", S, state.slots)
  BY DEF ResembleSystem
<1>2. /\ S \in SUBSET OptionsOf("system") /\ Cardinality(S) \in 1..Limit
      /\ "system" \in Slot /\ state.slots \in Slots
  BY <1>1, FirstFiveOfSystems, InvIsConsistent, StateIsTyped DEF Slot
<1> QED
  BY <1>1, <1>2, AskSelectionIsSound

\* Whatever the model says, the checks let only known systems through.
LEMMA ModelPlansIsSound ==
    ASSUME DialogueInv, ModelPlans
    PROVE  Sound
<1>1. TypeOK /\ state.slots \in Slots /\ "system" \in Slot
  BY InvIsConsistent, StateIsTyped DEF Slot
<1>2. PICK plan \in Plan :
         \/ ~ Usable(plan) /\ Reject("NEEDS_CLARIFICATION")
         \/ /\ Usable(plan) /\ plan.system # NoValue
            /\ AnswerSystem(plan.intent, plan.system)
         \/ /\ Usable(plan) /\ plan.system = NoValue
            /\ \E s \in {state.slots["system"], NoValue} :
                 Clarify([intent |-> plan.intent, phase |-> "AWAITING_SLOT",
                          slots |-> [state.slots EXCEPT !["system"] = s],
                          pending |-> SlotQuestion("system")])
  BY DEF ModelPlans
<1>3. plan.intent \in Intent
  BY <1>2 DEF Plan
<1>4. CASE Reject("NEEDS_CLARIFICATION")
  BY <1>4, RejectIsSound
<1>5. CASE Usable(plan) /\ plan.system # NoValue /\ AnswerSystem(plan.intent, plan.system)
  <2>1. plan.system \in bundle.systems
    BY <1>5 DEF Usable
  <2> QED
    BY <1>3, <1>5, <2>1, AnswerSystemIsSound
<1>6. ASSUME NEW s \in {state.slots["system"], NoValue},
             Clarify([intent |-> plan.intent, phase |-> "AWAITING_SLOT",
                      slots |-> [state.slots EXCEPT !["system"] = s],
                      pending |-> SlotQuestion("system")])
      PROVE  Sound
  <2> DEFINE slots == [state.slots EXCEPT !["system"] = s]
             next  == [intent |-> plan.intent, phase |-> "AWAITING_SLOT",
                       slots |-> slots, pending |-> SlotQuestion("system")]
  <2>1. s \in OptionsOf("system") \cup {NoValue}
    BY <1>1 DEF Slots
  <2>2. slots \in Slots
    BY <1>1, <2>1, SlotIsFilled
  <2>3. next \in TurnState
    BY <1>3, <2>2, NewQuestions DEF TurnState, Phase
  <2>4. Consistent(next)
    BY NewQuestions DEF Consistent
  <2>5. Clarify(next)
    BY <1>6
  <2> QED
    BY <2>3, <2>4, <2>5, ReplyIsSound, NoFactsAreSupported DEF Clarify
<1> QED
  BY <1>2, <1>4, <1>5, <1>6

-----------------------------------------------------------------------------
(* The other steps of a turn.                                              *)

\* A turn starts without facts, a release is activated behind its back, and
\* the model is asked: the dialogue stays what it was.
LEMMA QuietStepIsSound ==
    ASSUME DialogueInv, state' = state, TypeOK',
           \/ answer' = answer /\ pinned' = pinned
           \/ answer' = NoAnswer
    PROVE  Sound
<1>1. PhaseMatchesQuestion'
  BY DEF DialogueInv, PhaseMatchesQuestion, PendingIs
<1>2. FactsComeFromThePinnedCatalog' /\ AccessFollowsAProfile'
  <2>1. CASE answer' = answer /\ pinned' = pinned
    BY <2>1 DEF DialogueInv, FactsComeFromThePinnedCatalog, AccessFollowsAProfile,
                Entities, bundle
  <2>2. CASE answer' = NoAnswer
    BY <2>2 DEF NoAnswer, FactsComeFromThePinnedCatalog, AccessFollowsAProfile
  <2> QED
    BY <2>1, <2>2
<1> QED
  BY <1>1, <1>2 DEF Sound, DialogueInv, ChangesAreRevised

LEMMA ReceiveIsSound ==
    ASSUME DialogueInv, NEW u \in Utterance, Receive(u)
    PROVE  Sound
<1>1. /\ state' = state /\ answer' = NoAnswer /\ request' = u /\ u # NoValue
      /\ pinned' = catalog /\ catalog' = catalog /\ stage' = "deterministic"
  BY DialogueAssumption DEF Receive
<1>2. TypeOK'
  BY <1>1 DEF DialogueInv, TypeOK, NoAnswer
<1> QED
  BY <1>1, <1>2, QuietStepIsSound

LEMMA OthersAreSound ==
    ASSUME DialogueInv,
           \/ UNCHANGED vars
           \/ \E v \in Version : ActivateRelease(v)
           \/ Deterministic /\ AskModel
    PROVE  Sound
<1>1. /\ UNCHANGED <<state, answer, pinned, request>> /\ catalog' \in Version
      /\ stage' \in {stage, "planning"} /\ (stage = "idle" => stage' = "idle")
  BY DEF vars, ActivateRelease, Deterministic, AskModel, DialogueInv, TypeOK
<1>2. TypeOK'
  BY <1>1 DEF DialogueInv, TypeOK
<1> QED
  BY <1>1, <1>2, QuietStepIsSound

-----------------------------------------------------------------------------
(* The theorems.                                                           *)

LEMMA InitialInv == Init => DialogueInv
<1> SUFFICES ASSUME Init PROVE DialogueInv
  OBVIOUS
<1>1. NoSlots \in Slots
  BY DEF NoSlots, Slots
<1>2. EmptyState \in TurnState
  BY <1>1, NewQuestions DEF EmptyState, TurnState, Phase
<1>3. TypeOK
  BY <1>2 DEF Init, TypeOK, NoAnswer
<1>4. PhaseMatchesQuestion
  BY DEF Init, PhaseMatchesQuestion, PendingIs, EmptyState, NoPending
<1>5. FactsComeFromThePinnedCatalog /\ AccessFollowsAProfile
  BY DEF Init, NoAnswer, FactsComeFromThePinnedCatalog, AccessFollowsAProfile
<1> QED
  BY <1>3, <1>4, <1>5 DEF DialogueInv

LEMMA EveryStepIsSound == DialogueInv /\ [Next]_vars => Sound
<1> SUFFICES ASSUME DialogueInv, [Next]_vars PROVE Sound
  OBVIOUS
<1>1. CASE UNCHANGED vars \/ \E v \in Version : ActivateRelease(v)
  BY <1>1, OthersAreSound
<1>2. ASSUME NEW u \in Utterance, Receive(u) PROVE Sound
  BY <1>2, ReceiveIsSound
<1>3. CASE Deterministic
  <2>1. CASE AskModel
    BY <1>3, <2>1, OthersAreSound
  <2>2. CASE ResetContext \/ AnswerIntent \/ ShowMore
    BY <2>2, ResetIsSound, AnswerIntentIsSound, ClarifyAgainIsSound DEF ShowMore
  <2>3. CASE FillDepartment \/ FillPosition \/ FillSystem
    BY <2>3, FillDepartmentIsSound, FillPositionIsSound, FillSystemIsSound
  <2>4. CASE Select \/ Organization \/ NameSystem \/ ResembleSystem
    BY <2>4, SelectIsSound, OrganizationIsSound, NameSystemIsSound, ResembleSystemIsSound
  <2> QED
    BY <1>3, <2>1, <2>2, <2>3, <2>4 DEF Deterministic
<1>4. CASE ModelFails
  BY <1>4, RejectIsSound DEF ModelFails
<1>5. CASE ModelPlans
  BY <1>5, ModelPlansIsSound
<1> QED
  BY <1>1, <1>2, <1>3, <1>4, <1>5 DEF Next

(***************************************************************************)
(* The dialogue's state is always one the engine's rules expect, and the   *)
(* answer one the pinned release supports, whatever users write, the cache *)
(* activates and the model plans.                                          *)
(***************************************************************************)
THEOREM DialogueInvariant == Spec => []DialogueInv
<1>1. DialogueInv /\ [Next]_vars => DialogueInv'
  BY EveryStepIsSound DEF Sound
<1> QED
  BY <1>1, InitialInv, PTL DEF Spec

(***************************************************************************)
(* A dialogue waits exactly while a question is pending, a selection has   *)
(* one to five options, and a question finds the slot it builds on filled. *)
(***************************************************************************)
THEOREM PhasesMatchQuestions == Spec => []PhaseMatchesQuestion
<1>1. DialogueInv => PhaseMatchesQuestion
  BY DEF DialogueInv
<1> QED
  BY <1>1, DialogueInvariant, PTL

(***************************************************************************)
(* Whatever a dialogue remembers and the model invents, an answer states   *)
(* only what exists in the release that was pinned for its turn.           *)
(***************************************************************************)
THEOREM FactsExist == Spec => []FactsComeFromThePinnedCatalog
<1>1. DialogueInv => FactsComeFromThePinnedCatalog
  BY DEF DialogueInv
<1> QED
  BY <1>1, DialogueInvariant, PTL

(***************************************************************************)
(* Access is stated for a department and a position only as one profile of *)
(* the pinned release gives it, with all of the profile's systems if they  *)
(* fit into an answer.                                                     *)
(***************************************************************************)
THEOREM AccessIsAProfile == Spec => []AccessFollowsAProfile
<1>1. DialogueInv => AccessFollowsAProfile
  BY DEF DialogueInv
<1> QED
  BY <1>1, DialogueInvariant, PTL

(***************************************************************************)
(* A turn that changes the dialogue raises its revision, and a provider    *)
(* failure changes nothing.                                                *)
(***************************************************************************)
THEOREM ChangesRaiseTheRevision == Spec => ContextChangesOnlyWithRevision
<1>1. DialogueInv /\ [Next]_vars => [ChangesAreRevised]_vars
  BY EveryStepIsSound DEF Sound
<1> QED
  BY <1>1, DialogueInvariant, PTL
     DEF Spec, ContextChangesOnlyWithRevision, ChangesAreRevised
===============================================================================
