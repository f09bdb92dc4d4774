------------------------------ MODULE Dialogue ------------------------------
(***************************************************************************)
(* The agent engine (app/agent/service.py): one dialogue, turn after turn. *)
(*                                                                         *)
(* handle() pins the catalog in use, tries its deterministic rules in a    *)
(* fixed order and asks the language model only if none applies.  The      *)
(* catalog may change between turns and while the model is thinking, so a  *)
(* dialogue carries ids of releases that are no longer in use.             *)
(*                                                                         *)
(* A text is what the rules see of it: the markers it contains, the        *)
(* systems it names by a safe alias and those it merely resembles.  A      *)
(* search returns any few of the candidates its filters admit; the city    *)
(* only narrows a search, so it is not kept.  Revisions are those of       *)
(* TurnRuntime: an answer says whether the engine has raised it.           *)
(***************************************************************************)
EXTENDS Naturals, FiniteSets

CONSTANTS
    System, Department, Position, Profile,  \* ids a catalog may contain
    Version,    \* releases
    Content,    \* what each release contains
    Utterance,  \* texts a user may send
    AccessLimit,  \* systems an access answer lists: ten
    NoValue     \* an empty slot, no request, no topic

Marker == {"reset", "more", "number",      \* "number": the text is a number
           "roles", "instruction", "obtain", "procedure", "organization",
           "change", "long"}               \* "long": not a simple slot value

ProfileOf ==
    [id : Profile, departments : SUBSET Department, positions : SUBSET Position,
     systems : SUBSET System]

\* A slot, a fact and a table carry their kind, so ids of two kinds differ;
\* the rest is what _validate_catalog guarantees of a release, a finite document.
ASSUME DialogueAssumption ==
    /\ AccessLimit \in Nat \ {0}
    /\ NoValue \notin System \cup Department \cup Position \cup Profile \cup Utterance
    /\ System \cap (Department \cup Position \cup Profile) = {}
    /\ Department \cap (Position \cup Profile) = {}
    /\ Position \cap Profile = {}
    /\ Utterance \subseteq [markers : SUBSET Marker, names : SUBSET System,
                            resembles : SUBSET System]
    /\ Content \in [Version -> [systems     : SUBSET System,
                                departments : SUBSET Department,
                                positions   : SUBSET Position,
                                profiles    : SUBSET ProfileOf]]
    /\ \A v \in Version :
          /\ IsFiniteSet(Content[v].systems) /\ IsFiniteSet(Content[v].departments)
          /\ IsFiniteSet(Content[v].positions) /\ IsFiniteSet(Content[v].profiles)
    /\ \A v \in Version : \A p \in Content[v].profiles :
          /\ p.departments \subseteq Content[v].departments
          /\ p.positions \subseteq Content[v].positions
          /\ p.systems \subseteq Content[v].systems
          /\ \A q \in Content[v].profiles : p.id = q.id => p = q

VARIABLES
    catalog,  \* the release in CatalogCache
    stage,    \* of the turn: idle, deterministic, planning
    request,  \* the text of the turn
    pinned,   \* the release handle() has pinned
    state,    \* TurnState of the dialogue
    answer    \* what the last turn returned

vars == <<catalog, stage, request, pinned, state, answer>>

-----------------------------------------------------------------------------
Slot      == {"system", "department", "position", "profile"}
Intent    == {"SYSTEM_DISCOVERY", "ROLE_DISCOVERY", "ROLE_ACQUISITION",
              "INSTRUCTION_LOOKUP"}
Phase     == {"READY", "ANSWERED", "AWAITING_SLOT", "AWAITING_SELECTION",
              "AWAITING_INTENT"}
NoPending == [kind |-> "none", topic |-> NoValue, options |-> {}]
NoSlots   == [s \in Slot |-> NoValue]
EmptyState == [intent |-> NoValue, phase |-> "READY", slots |-> NoSlots,
               pending |-> NoPending]
NoAnswer  == [outcome |-> NoValue, facts |-> {}, revised |-> FALSE]

SlotQuestion(topic) == [kind |-> "slot", topic |-> topic, options |-> {}]

Selection(topic, options) ==
    [kind |-> "candidate_selection", topic |-> topic, options |-> options]

Init ==
    /\ catalog \in Version
    /\ stage = "idle"
    /\ request = NoValue
    /\ pinned = catalog
    /\ state = EmptyState
    /\ answer = NoAnswer

-----------------------------------------------------------------------------
bundle == Content[pinned]

Says(marker) == marker \in request.markers

PendingIs(kind, topic) == state.pending.kind = kind /\ state.pending.topic = topic

(* The rules in the order of _deterministic: each set of texts excludes    *)
(* the ones before it.                                                     *)
Reset         == Says("reset")
IntentReply   == ~ Reset /\ PendingIs("slot", "intent")
SlotReply     == /\ ~ Reset /\ ~ IntentReply
                 /\ state.pending.kind = "slot"
                 /\ ~ Says("long")
SelectionReply == /\ ~ Reset
                  /\ state.pending.kind = "candidate_selection"
                  /\ Says("more") \/ Says("number")
\* An index beyond the options falls through to the other rules.
MayFallThrough == /\ ~ Reset /\ ~ IntentReply /\ ~ SlotReply
                  /\ SelectionReply => ~ Says("more")

-----------------------------------------------------------------------------
(* The end of a turn.                                                      *)
Return(next, result) ==
    /\ state' = next
    /\ answer' = result
    /\ stage' = "idle"
    /\ request' = NoValue
    /\ UNCHANGED <<catalog, pinned>>

Reply(next, outcome, facts) ==
    Return(next, [outcome |-> outcome, facts |-> facts, revised |-> TRUE])

\* Mutation: a rejected plan closes the pending question.
RejectAndClose(outcome) ==
    Return([state EXCEPT !.phase = "READY", !.pending = NoPending],
           [outcome |-> outcome, facts |-> {}, revised |-> FALSE])

\* _provider_rejection: the state goes back as it came.
Reject(outcome) ==
    Return(state, [outcome |-> outcome, facts |-> {}, revised |-> FALSE])

Clarify(next) == Reply(next, "NEEDS_CLARIFICATION", {})

AskSlot(topic, slots) ==
    Clarify([intent |-> "ROLE_DISCOVERY", phase |-> "AWAITING_SLOT",
             slots |-> slots, pending |-> SlotQuestion(topic)])

\* _candidate_clarification.
AskSelection(topic, options, slots) ==
    Clarify([intent |-> "ROLE_DISCOVERY", phase |-> "AWAITING_SELECTION",
             slots |-> slots, pending |-> Selection(topic, options)])

\* Mutation: the answered question stays pending.
AnswerAndKeepAsking(intent, system) ==
    Reply([state EXCEPT !.intent = intent, !.phase = "ANSWERED", !.slots["system"] = system],
          "HANDLED", {system})

\* _roles_answer and _instruction_answer close the question.
AnswerSystem(intent, system) ==
    Reply([intent |-> intent, phase |-> "ANSWERED",
           slots |-> [state.slots EXCEPT !["system"] = system],
           pending |-> NoPending],
          "HANDLED", {system})

-----------------------------------------------------------------------------
(* CatalogSearchTools: the candidates of a search, at most five of them.   *)
Limit == 5

Results(candidates) == {S \in SUBSET candidates : Cardinality(S) <= Limit}

\* The first n of a list that is not filtered further, whichever they are.
First(n, candidates) ==
    {S \in SUBSET candidates : Cardinality(S) <= n /\ (Cardinality(S) = n \/ S = candidates)}

FirstFive(candidates) == First(Limit, candidates)

\* _position_ids_for_context.
PositionsFor(department) ==
    IF department = NoValue THEN bundle.positions
    ELSE UNION {p.positions : p \in {q \in bundle.profiles : department \in q.departments}}

\* resolve_profiles: exact relations only.
ProfilesFor(department, position) ==
    {p \in bundle.profiles : department \in p.departments /\ position \in p.positions}

-----------------------------------------------------------------------------
\* Mutation: the resolved ids are reported whether a profile relates them or not.
FinishWithoutProfile(slots) ==
    \/ /\ slots["department"] = NoValue
       /\ AskSlot("department", slots)
    \/ /\ slots["department"] # NoValue
       /\ slots["position"] = NoValue
       /\ AskSlot("position", slots)
    \/ /\ NoValue \notin {slots["department"], slots["position"]}
       /\ Reply([intent |-> "ROLE_DISCOVERY", phase |-> "ANSWERED", slots |-> slots,
                 pending |-> NoPending],
                "HANDLED", {slots["department"], slots["position"]})

(* _finish_profile_access.                                                 *)
FinishProfileAccess(slots) ==
    \/ /\ slots["department"] = NoValue
       /\ AskSlot("department", slots)
    \/ /\ slots["department"] # NoValue
       /\ slots["position"] = NoValue
       /\ AskSlot("position", slots)
    \/ /\ NoValue \notin {slots["department"], slots["position"]}
       /\ \E S \in Results(ProfilesFor(slots["department"], slots["position"])) :
            \/ S = {} /\ AskSlot("position", slots)
            \/ /\ Cardinality(S) > 1
               /\ AskSelection("profile", {p.id : p \in S}, slots)
            \/ \E p \in S : \E systems \in First(AccessLimit, p.systems) :
                 /\ S = {p}
                 /\ Reply([intent  |-> "ROLE_DISCOVERY", phase |-> "ANSWERED",
                           slots   |-> [slots EXCEPT !["profile"] = p.id],
                           pending |-> NoPending],
                          "HANDLED",
                          {slots["department"], slots["position"], p.id} \cup systems)

-----------------------------------------------------------------------------
(* A turn begins: the engine pins the release in use.                      *)
Receive(u) ==
    /\ stage = "idle"
    /\ stage' = "deterministic"
    /\ request' = u
    /\ pinned' = catalog
    /\ answer' = NoAnswer
    /\ UNCHANGED <<catalog, state>>

\* The cache switches to another release, at any time.
ActivateRelease(v) ==
    /\ v # catalog
    /\ catalog' = v
    /\ UNCHANGED <<stage, request, pinned, state, answer>>

ResetContext ==
    /\ Reset
    /\ Reply(EmptyState, "HANDLED", {})

\* Mutation: the remembered system is not looked up in the pinned release.
RememberedSystem == state.slots["system"] # NoValue

FocusedSystemExists == state.slots["system"] \in bundle.systems

\* "Roles or instruction?" is pending; every other text repeats the question.
AnswerIntent ==
    /\ IntentReply
    /\ \/ /\ FocusedSystemExists
          /\ Says("roles")
          /\ AnswerSystem("ROLE_DISCOVERY", state.slots["system"])
       \/ /\ FocusedSystemExists
          /\ ~ Says("roles")
          /\ Says("instruction") \/ Says("obtain")
          /\ AnswerSystem("INSTRUCTION_LOOKUP", state.slots["system"])
       \/ /\ ~ FocusedSystemExists \/ ~ (Says("roles") \/ Says("instruction") \/ Says("obtain"))
          /\ Clarify(state)

-----------------------------------------------------------------------------
(* _system_matches: a safe name wins at once, otherwise what resembles.    *)
SafeMatches == request.names \cap bundle.systems
WeakMatches == request.resembles \cap bundle.systems

(* _handle_pending_slot.  Nothing ever asks for a city.                    *)
FillOrganizationSlot(topic, candidates) ==
    /\ SlotReply
    /\ state.pending.topic = topic
    /\ \E S \in Results(candidates) :
         \/ S = {} /\ Clarify(state)
         \/ \E id \in S : S = {id} /\ FinishProfileAccess([state.slots EXCEPT ![topic] = id])
         \/ Cardinality(S) > 1 /\ AskSelection(topic, S, state.slots)

FillDepartment == FillOrganizationSlot("department", bundle.departments)

FillPosition == FillOrganizationSlot("position", PositionsFor(state.slots["department"]))

FillSystem ==
    /\ SlotReply
    /\ state.pending.topic = "system"
    /\ \/ \E s \in SafeMatches :
            Reply([state EXCEPT !.phase = "READY", !.slots["system"] = s,
                                !.pending = NoPending], "HANDLED", {})
       \/ /\ SafeMatches = {}
          /\ \E S \in FirstFive(WeakMatches) \ {{}} :
               Clarify([state EXCEPT !.pending = Selection("system", S)])
       \/ /\ SafeMatches = {} /\ WeakMatches = {}
          /\ Clarify(state)

-----------------------------------------------------------------------------
(* A candidate selection is pending.                                       *)
ShowMore ==
    /\ SelectionReply
    /\ Says("more")
    /\ Clarify(state)

Select ==
    /\ SelectionReply
    /\ ~ Says("more")
    /\ \E id \in state.pending.options :
         LET slots == [state.slots EXCEPT ![state.pending.topic] = id] IN
           IF state.pending.topic \in {"department", "position"}
           THEN FinishProfileAccess(slots)
           ELSE Reply([state EXCEPT !.phase = "ANSWERED", !.slots = slots,
                                    !.pending = NoPending], "HANDLED", {})

-----------------------------------------------------------------------------
(* _organization_request: position first, then department.                 *)
Organization ==
    /\ MayFallThrough
    /\ Says("organization")
    /\ \E P \in Results(PositionsFor(state.slots["department"])),
         D \in Results(bundle.departments) :
         LET slots == IF Cardinality(P) = 1
                      THEN [state.slots EXCEPT !["position"] = CHOOSE id \in P : TRUE]
                      ELSE state.slots IN
           \/ /\ Cardinality(P) > 1
              /\ AskSelection("position", P, slots)
           \/ /\ Cardinality(P) <= 1 /\ Cardinality(D) > 1
              /\ AskSelection("department", D, slots)
           \/ /\ Cardinality(P) <= 1
              /\ \E id \in D : D = {id} /\ FinishProfileAccess([slots EXCEPT !["department"] = id])
           \/ /\ Cardinality(P) <= 1 /\ D = {}
              /\ FinishProfileAccess(slots)

\* The text names a system by a safe alias.
NameSystem ==
    /\ MayFallThrough
    /\ ~ Says("organization")
    /\ \E s \in SafeMatches :
         \/ /\ Says("instruction") \/ Says("procedure")
            /\ AnswerSystem("INSTRUCTION_LOOKUP", s)
         \/ /\ ~ (Says("instruction") \/ Says("procedure"))
            /\ Says("roles")
            /\ AnswerSystem("ROLE_DISCOVERY", s)
         \/ /\ ~ (Says("instruction") \/ Says("procedure") \/ Says("roles"))
            /\ Reply([state EXCEPT !.phase = "AWAITING_INTENT", !.slots["system"] = s,
                                   !.pending = SlotQuestion("intent")],
                     IF Says("change") THEN "HANDLED" ELSE "NEEDS_CLARIFICATION", {})

\* It only resembles systems: the user chooses.
ResembleSystem ==
    /\ MayFallThrough
    /\ ~ Says("organization")
    /\ SafeMatches = {}
    /\ \E S \in FirstFive(WeakMatches) \ {{}} : AskSelection("system", S, state.slots)

-----------------------------------------------------------------------------
(* The language model: one call, and no lock or transaction meanwhile.     *)
AskModel ==
    /\ MayFallThrough
    /\ ~ Says("organization")
    /\ SafeMatches = {} /\ WeakMatches = {}
    /\ stage' = "planning"
    /\ UNCHANGED <<catalog, request, pinned, state, answer>>

\* A plan as the checks see it: known says that its city and department exist.
Plan == [wellFormed : BOOLEAN, confident : BOOLEAN, version : Version, intent : Intent,
         system : System \cup {NoValue}, known : BOOLEAN]

Usable(plan) ==
    /\ plan.wellFormed /\ plan.confident
    /\ plan.version = pinned
    /\ plan.system \in bundle.systems \cup {NoValue}
    /\ plan.known

ModelFails ==
    /\ stage = "planning"
    /\ Reject("PROVIDER_FAILURE")

\* An empty system_id in the plan overwrites the slot, a missing one does not.
ModelPlans ==
    /\ stage = "planning"
    /\ \E plan \in Plan :
         \/ ~ Usable(plan) /\ Reject("NEEDS_CLARIFICATION")
         \/ /\ Usable(plan) /\ plan.system # NoValue
            /\ AnswerSystem(plan.intent, plan.system)
         \/ /\ Usable(plan) /\ plan.system = NoValue
            /\ \E s \in {state.slots["system"], NoValue} :
                 Clarify([intent |-> plan.intent, phase |-> "AWAITING_SLOT",
                          slots |-> [state.slots EXCEPT !["system"] = s],
                          pending |-> SlotQuestion("system")])

Deterministic ==
    /\ stage = "deterministic"
    /\ \/ ResetContext \/ AnswerIntent
       \/ FillDepartment \/ FillPosition \/ FillSystem
       \/ ShowMore \/ Select
       \/ Organization \/ NameSystem \/ ResembleSystem \/ AskModel

Next ==
    \/ \E u \in Utterance : Receive(u)
    \/ \E v \in Version : ActivateRelease(v)
    \/ Deterministic
    \/ ModelFails
    \/ ModelPlans

Spec == Init /\ [][Next]_vars

-----------------------------------------------------------------------------
OptionsOf(topic) ==
    CASE topic = "system"     -> System
      [] topic = "department" -> Department
      [] topic = "position"   -> Position
      [] topic = "profile"    -> Profile

Id == System \cup Department \cup Position \cup Profile

Slots == {slots \in [Slot -> Id \cup {NoValue}] :
            \A s \in Slot : slots[s] \in OptionsOf(s) \cup {NoValue}}

Question ==
    {NoPending}
      \cup {SlotQuestion(t) : t \in {"intent", "system", "department", "position"}}
      \cup UNION {{Selection(t, options) : options \in SUBSET OptionsOf(t)} : t \in Slot}

TurnState == [intent : Intent \cup {NoValue}, phase : Phase, slots : Slots, pending : Question]

TypeOK ==
    /\ {catalog, pinned} \subseteq Version
    /\ stage \in {"idle", "deterministic", "planning"}
    /\ request \in Utterance \cup {NoValue}
    /\ stage # "idle" => request # NoValue
    /\ state \in TurnState
    /\ answer.facts \subseteq Id

(***************************************************************************)
(* Phase and question agree: a dialogue waits exactly while a question is  *)
(* pending, a selection always offers one to five options, and a question  *)
(* that builds on a slot finds it filled - although fifteen branches write *)
(* phase, slots and question by hand.                                      *)
(***************************************************************************)
PhaseMatchesQuestion ==
    /\ state.pending = NoPending <=> state.phase \in {"READY", "ANSWERED"}
    /\ state.pending.kind = "candidate_selection" =>
          Cardinality(state.pending.options) \in 1..Limit
    /\ PendingIs("slot", "intent") => state.slots["system"] # NoValue
    /\ PendingIs("slot", "position") => state.slots["department"] # NoValue

Entities(v) ==
    Content[v].systems \cup Content[v].departments \cup Content[v].positions
       \cup {p.id : p \in Content[v].profiles}

(***************************************************************************)
(* What an answer states exists in the release pinned for its turn, also   *)
(* when the dialogue remembers ids of older releases, offers them as       *)
(* options, or the model invents one.                                      *)
(***************************************************************************)
FactsComeFromThePinnedCatalog == answer.facts \subseteq Entities(pinned)

(***************************************************************************)
(* An access answer names a department and a position only if a profile of *)
(* the pinned release relates the two.  The systems it gives are that      *)
(* profile's, and all of them unless there are more than fit into it.      *)
(***************************************************************************)
AccessFollowsAProfile ==
    answer.facts \cap (Department \cup Position) # {} =>
        \E p \in bundle.profiles :
            /\ p.id \in answer.facts
            /\ answer.facts \cap Department \subseteq p.departments
            /\ answer.facts \cap Position \subseteq p.positions
            /\ answer.facts \cap System \subseteq p.systems
            /\ Cardinality(p.systems) <= AccessLimit => p.systems \subseteq answer.facts

(***************************************************************************)
(* The engine changes a dialogue only in a turn that raises its revision;  *)
(* a provider failure, and a malformed, unsure, stale or invented plan,    *)
(* leave it exactly as it was.  TurnRuntime relies on this.                *)
(***************************************************************************)
ContextChangesOnlyWithRevision ==
    [][/\ state' # state => answer'.revised
       /\ answer'.outcome = "PROVIDER_FAILURE" => state' = state]_vars

-----------------------------------------------------------------------------
\* docs/specs/2026-07-30-fast-hybrid-agent.md:77: "Unknown/stale systems are
\* not silently accepted."
StaleSystemsAreNotAccepted ==
    [][state'.slots["system"] # state.slots["system"] =>
          state'.slots["system"] \in bundle.systems \cup {NoValue}]_vars
=============================================================================
