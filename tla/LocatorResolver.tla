-------------------------- MODULE LocatorResolver --------------------------
(***************************************************************************)
(* LocatorResolver.resolve: turning a TargetSpec into one element.         *)
(*                                                                         *)
(* A pass goes through the candidates (the spec, then its fallbacks) and,  *)
(* in each of them, through the strategies in priority order. Every match  *)
(* is an await: the page may change between any two of them. Passes are    *)
(* repeated until one resolves, two in a row are ambiguous, or the         *)
(* deadline has expired.                                                   *)
(*                                                                         *)
(* A target was written by hand, or recorded: verify_target_spec keeps the *)
(* strategies of a control that find it, and no more, on the page of the   *)
(* recording.                                                              *)
(***************************************************************************)
EXTENDS Integers, Sequences, FiniteSets, SequencesExt

CONSTANTS
    Elements,         \* elements of the page, containers among them
    Visible, Enabled, \* those that are visible, and enabled
    Inside,           \* the container of each element, or NoElement
    NoElement,
    Selectors,        \* what a strategy of some candidate or container looks for
    Semantic,         \* the selectors of semantic strategies; the others are structural
    Targets,          \* TargetSpecs: a sequence of candidates, and whether it has coordinates
    Controls,         \* descriptors of controls: element, strategies, those of its container
    Pages,            \* the pages that may be shown: what each selector matches
    Turns,            \* those that a page may turn into
    RequireEnabled,
    AllowCoordinates,
    DeadlinePasses,   \* the deadline has expired after this many passes at the latest
    MaxMoves          \* bound: how often the page changes

\* What available_strategies() may return: STRATEGY_PRIORITY has the semantic
\* strategies before the structural ones.
Strategies ==
    {strategies \in Seq(Selectors) :
        \A i, j \in DOMAIN strategies :
            i < j /\ strategies[j] \in Semantic => strategies[i] \in Semantic}

CandidateSpec == [frame : BOOLEAN, within : Strategies, strategies : Strategies]
TargetSpec == [candidates : Seq(CandidateSpec), coordinates : BOOLEAN]
ControlDescriptor == [element : Elements, within : Strategies, strategies : Strategies]

ASSUME ElementsAssumption ==
    /\ IsFiniteSet(Elements) /\ NoElement \notin Elements
    /\ Visible \subseteq Elements /\ Enabled \subseteq Elements
    /\ Inside \in [Elements -> Elements \cup {NoElement}]
ASSUME PagesAssumption ==
    Pages \subseteq [Selectors -> SUBSET Elements] /\ Turns \subseteq Pages
ASSUME SemanticAssumption == Semantic \subseteq Selectors
ASSUME TargetsAssumption == Targets \subseteq TargetSpec
ASSUME ControlsAssumption == Controls \subseteq ControlDescriptor
ASSUME BoundsAssumption == DeadlinePasses \in Nat \ {0} /\ MaxMoves \in Nat

VARIABLES
    target,
    control,     \* the descriptor that target was recorded from, or NoControl
    page,
    pc,
    cand, pos,   \* the candidate and the strategy that is next
    scope,       \* the container found for the candidate, or NoElement
    tie,         \* semantic_tie of the candidate
    ambiguous,   \* of the pass
    streak,      \* ambiguous passes in a row
    outcome,     \* how resolve ended, or "waiting"
    chosen,      \* the candidate, selector and element it resolved to
    passes, moves,
    \* history
    still,       \* the page has not changed since the pass began
    ties,        \* whether the passes so far were ambiguous
    expired      \* the deadline ended it

vars == <<target, control, page, pc, cand, pos, scope, tie, ambiguous, streak, outcome, chosen, passes,
          moves, still, ties, expired>>
pageVars == <<target, control, page, moves, still>>
resultVars == <<outcome, chosen, expired>>
pollVars == <<streak, passes, ties>>

Chain == target.candidates
Candidate == Chain[cand]

NoControl == [element |-> NoElement, within |-> <<>>, strategies |-> <<>>]

TypeOK ==
    /\ page \in Pages /\ control \in Controls \cup {NoControl}
    /\ control = NoControl => target \in Targets
    /\ pc \in {"candidate", "scope", "match", "end", "sleep", "done"}
    /\ cand \in 1 .. Len(Chain) + 1
    /\ pos \in Nat \ {0}
    /\ scope \in Elements \cup {NoElement}
    /\ tie \in BOOLEAN /\ ambiguous \in BOOLEAN /\ still \in BOOLEAN /\ expired \in BOOLEAN
    /\ streak \in 0 .. 2 /\ streak <= passes
    /\ outcome \in {"waiting", "resolved", "coordinates", "ambiguous", "not_found", "unsupported"}
    /\ (outcome = "waiting") <=> (pc # "done")
    /\ passes \in 0 .. DeadlinePasses /\ moves \in 0 .. MaxMoves
    /\ ties \in Seq(BOOLEAN) /\ Len(ties) = passes
    /\ streak > 0 => ties[passes]

NotChosen == [cand |-> 0, selector |-> "", element |-> NoElement]

\* What a selector matches on page p, within a container if there is one.
Match(p, selector, container) ==
    {e \in p[selector] : container # NoElement => Inside[e] = container}

Usable(elements) == {e \in elements \cap Visible : RequireEnabled => e \in Enabled}

Unique(elements) == Cardinality(elements) = 1
Several(elements) == Cardinality(elements) > 1

\* The element of a set that has just one.
Only(elements) == CHOOSE e \in elements : TRUE

-----------------------------------------------------------------------------
(* Recording a target: verify_target_spec.                                 *)

Seen(p, selector, container) == Match(p, selector, container) \cap Visible

Containers(p, within) == {i \in DOMAIN within : Unique(Seen(p, within[i], NoElement))}

\* _unique_visible: the container that the first of these strategies to find just
\* one element finds.
Container(p, within) ==
    IF Containers(p, within) = {} THEN NoElement
    ELSE Only(Seen(p, within[Min(Containers(p, within))], NoElement))

KeptUnscoped(p, c) == {s \in ToSet(c.strategies) : Unique(Seen(p, s, NoElement))}

\* Semantic strategies that find several elements, and one in the container.
KeptScoped(p, c) ==
    LET container == Container(p, c.within)
    IN  {s \in ToSet(c.strategies) \cap Semantic :
            /\ container # NoElement
            /\ Several(Seen(p, s, NoElement)) /\ Unique(Seen(p, s, container))}

Kept(p, c) == KeptUnscoped(p, c) \cup KeptScoped(p, c)

\* What is left of some strategies when the fields of the others are cleared.
Remaining(strategies, kept) ==
    LET ofFirst[n \in 0 .. Len(strategies)] ==
            IF n = 0 THEN <<>>
            ELSE IF strategies[n] \in kept THEN Append(ofFirst[n - 1], strategies[n])
            ELSE ofFirst[n - 1]
    IN  ofFirst[Len(strategies)]

\* Faulty: the container is not recorded.
verify_target_spec_unscoped(p, c) ==
    [frame |-> FALSE, within |-> <<>>,
     strategies |-> IF Kept(p, c) = {} THEN c.strategies
                    ELSE Remaining(c.strategies, Kept(p, c))]

\* The control's own spec if nothing would be left of it.
verify_target_spec(p, c) ==
    [frame |-> FALSE,
     within |-> IF KeptScoped(p, c) = {} THEN <<>> ELSE c.within,
     strategies |-> IF Kept(p, c) = {} THEN c.strategies
                    ELSE Remaining(c.strategies, Kept(p, c))]

\* A descriptor is of the control it was made from: what it describes, it finds,
\* and so with its container.
Describes(c, p) ==
    /\ \A s \in ToSet(c.strategies) : p[s] = {} \/ c.element \in p[s]
    /\ \A s \in ToSet(c.within) : p[s] = {} \/ Inside[c.element] \in p[s]

-----------------------------------------------------------------------------

\* A resolution of some target, or of one that was just recorded on this page.
Init ==
    /\ page \in Pages
    /\ \/ target \in Targets /\ control = NoControl
       \/ /\ control \in {c \in Controls : Describes(c, page)}
          /\ target = [candidates |-> <<verify_target_spec(page, control)>>,
                       coordinates |-> FALSE]
    /\ pc = "candidate" /\ cand = 1 /\ pos = 1 /\ scope = NoElement
    /\ tie = FALSE /\ ambiguous = FALSE /\ streak = 0
    /\ outcome = "waiting" /\ chosen = NotChosen /\ passes = 0 /\ moves = 0
    /\ still = TRUE /\ ties = <<>> /\ expired = FALSE

\* The next candidate of the pass, or its end. A framed one ends the resolution.
EnterCandidate ==
    /\ pc = "candidate"
    /\ IF cand > Len(Chain) THEN pc' = "end" /\ UNCHANGED outcome
       ELSE IF Candidate.frame THEN outcome' = "unsupported" /\ pc' = "done"
       ELSE pc' = "scope" /\ UNCHANGED outcome
    /\ pos' = 1 /\ scope' = NoElement /\ tie' = FALSE
    /\ UNCHANGED <<pageVars, pollVars, cand, ambiguous, chosen, expired>>

\* _resolve_scope: the first strategy with exactly one visible match wins.
ResolveScope ==
    /\ pc = "scope"
    /\ IF pos > Len(Candidate.within) THEN pc' = "match" /\ pos' = 1 /\ UNCHANGED scope
       ELSE LET visible == Match(page, Candidate.within[pos], NoElement) \cap Visible
            IN  IF Unique(visible)
                THEN scope' = Only(visible) /\ pc' = "match" /\ pos' = 1
                ELSE pos' = pos + 1 /\ UNCHANGED <<scope, pc>>
    /\ UNCHANGED <<pageVars, pollVars, resultVars, cand, tie, ambiguous>>

\* Faulty: a structural strategy is tried after a tie, too.
Skipped_eager(selector, container, aTie) ==
    selector \in Semantic /\ Candidate.within # <<>> /\ container = NoElement

\* Semantic strategies are skipped if their container was not found, structural
\* ones after a semantic tie.
Skipped(selector, container, aTie) ==
    IF selector \in Semantic THEN Candidate.within # <<>> /\ container = NoElement ELSE aTie

TryStrategy ==
    /\ pc = "match" /\ pos <= Len(Candidate.strategies)
    /\ LET selector == Candidate.strategies[pos]
           container == IF selector \in Semantic THEN scope ELSE NoElement
           usable == Usable(Match(page, selector, container))
       IN  \/ /\ Skipped(selector, scope, tie)
              /\ pos' = pos + 1
              /\ UNCHANGED <<pc, tie, outcome, chosen>>
           \/ /\ ~Skipped(selector, scope, tie) /\ Unique(usable)
              /\ \E e \in usable :
                    chosen' = [cand |-> cand, selector |-> selector, element |-> e]
              /\ outcome' = "resolved" /\ pc' = "done"
              /\ UNCHANGED <<pos, tie>>
           \/ /\ ~Skipped(selector, scope, tie) /\ ~Unique(usable)
              /\ tie' = (tie \/ (Several(usable) /\ selector \in Semantic))
              /\ pos' = pos + 1
              /\ UNCHANGED <<pc, outcome, chosen>>
    /\ UNCHANGED <<pageVars, pollVars, cand, scope, ambiguous, expired>>

LeaveCandidate ==
    /\ pc = "match" /\ pos > Len(Candidate.strategies)
    /\ ambiguous' = (ambiguous \/ tie)
    /\ cand' = cand + 1 /\ pc' = "candidate"
    /\ UNCHANGED <<pageVars, pollVars, resultVars, pos, scope, tie>>

\* Faulty: ambiguous passes are counted, not ambiguous passes in a row.
NextStreak_total(anAmbiguity) == IF anAmbiguity THEN streak + 1 ELSE streak

NextStreak(anAmbiguity) == IF anAmbiguity THEN streak + 1 ELSE 0

\* The deadline is looked at after every pass.
MayExpire == TRUE

Failure ==
    IF ambiguous THEN "ambiguous"
    ELSE IF AllowCoordinates /\ target.coordinates THEN "coordinates"
    ELSE "not_found"

\* The end of a pass; the deadline may have expired at any of them.
EndPass ==
    /\ pc = "end"
    /\ streak' = NextStreak(ambiguous)
    /\ passes' = IF passes < DeadlinePasses THEN passes + 1 ELSE passes
    /\ ties' = IF passes < DeadlinePasses THEN Append(ties, ambiguous) ELSE ties
    /\ \/ /\ streak' >= 2
          /\ outcome' = Failure /\ pc' = "done" /\ UNCHANGED expired
       \/ /\ streak' < 2 /\ MayExpire
          /\ outcome' = Failure /\ pc' = "done" /\ expired' = TRUE
       \/ /\ streak' < 2 /\ (passes + 1 < DeadlinePasses \/ ~MayExpire)
          /\ pc' = "sleep"
          /\ UNCHANGED <<outcome, expired>>
    /\ UNCHANGED <<pageVars, cand, pos, scope, tie, ambiguous, chosen>>

NewPass ==
    /\ pc = "sleep"
    /\ pc' = "candidate" /\ cand' = 1 /\ ambiguous' = FALSE
    /\ still' = TRUE
    /\ UNCHANGED <<target, control, page, moves, pollVars, resultVars, pos, scope, tie>>

Resolve ==
    EnterCandidate \/ ResolveScope \/ TryStrategy \/ LeaveCandidate \/ EndPass \/ NewPass

Move ==
    /\ pc # "done" /\ moves < MaxMoves
    /\ page' \in Turns \ {page}
    /\ moves' = moves + 1 /\ still' = FALSE
    /\ UNCHANGED <<target, control, pc, cand, pos, scope, tie, ambiguous, pollVars, resultVars>>

Next == Resolve \/ Move

\* Every match is bounded in time, and so is the sleep.
Spec == Init /\ [][Next]_vars /\ WF_vars(Resolve)

-----------------------------------------------------------------------------
(* What resolve promises for a page that holds still, without its loops.    *)

SemanticApplies(p, c) ==
    Chain[c].within = <<>> \/ Container(p, Chain[c].within) # NoElement

\* The usable elements that a strategy finds.
Finds(p, c, i) ==
    LET selector == Chain[c].strategies[i]
    IN  IF selector \notin Semantic THEN Usable(Match(p, selector, NoElement))
        ELSE IF SemanticApplies(p, c) THEN Usable(Match(p, selector, Container(p, Chain[c].within)))
        ELSE {}

IsTied(p, c) ==
    \E i \in DOMAIN Chain[c].strategies :
        Chain[c].strategies[i] \in Semantic /\ Several(Finds(p, c, i))

\* The strategies that identify one element, where those may be trusted.
Identifies(p, c) ==
    {i \in DOMAIN Chain[c].strategies :
        /\ Unique(Finds(p, c, i))
        /\ Chain[c].strategies[i] \notin Semantic => ~IsTied(p, c)}

\* The first candidate that is framed or can be identified.
Decisive(p) == {c \in DOMAIN Chain : Chain[c].frame \/ Identifies(p, c) # {}}

Promised(p) ==
    IF Decisive(p) = {}
    THEN [outcome |-> IF \E c \in DOMAIN Chain : IsTied(p, c) THEN "ambiguous"
                      ELSE IF AllowCoordinates /\ target.coordinates THEN "coordinates"
                      ELSE "not_found",
          element |-> NoElement]
    ELSE LET c == Min(Decisive(p))
         IN  IF Chain[c].frame THEN [outcome |-> "unsupported", element |-> NoElement]
             ELSE [outcome |-> "resolved", element |-> Only(Finds(p, c, Min(Identifies(p, c))))]

-----------------------------------------------------------------------------

\* A resolution whose last pass saw one page gives the answer promised for it,
\* whatever the pages before it were.
AgreesWithPromise ==
    outcome # "waiting" /\ still =>
        [outcome |-> outcome, element |-> chosen.element] = Promised(page)

\* What recording verified, a replay resolves: on the page it was recorded on the
\* target of a usable control is found in the first pass, unless no strategy found
\* just that control; and on any page that the descriptor describes the target
\* never resolves to another element, its container lost or not.
RecordedTargetResolves ==
    control # NoControl /\ control.element \in Usable(Elements) /\ outcome # "waiting" =>
        /\ moves = 0 /\ Kept(page, control) # {} => outcome = "resolved" /\ passes = 0
        /\ still /\ Describes(control, page) /\ outcome = "resolved" =>
               chosen.element = control.element

\* Before the deadline, only a tie in two passes in a row ends it in a failure: a
\* page that renders late gets its time.
FailsEarlyOnlyOnTies ==
    outcome \in {"ambiguous", "not_found", "coordinates"} /\ ~expired =>
        /\ passes >= 2
        /\ ties[passes] /\ ties[passes - 1]

-----------------------------------------------------------------------------
(* What the documents say, for the runs that refute it.                     *)

\* locators.py: "Ties resolve to AMBIGUOUS_TARGET".
TiesAreAmbiguous ==
    outcome = "resolved" /\ still =>
        ~\E c \in DOMAIN Chain : c < chosen.cand /\ IsTied(page, c)

\* locators.py: structural strategies "recover from drift (every semantic strategy
\* matched nothing)".
StructuralMeansDrift ==
    outcome = "resolved" /\ still /\ chosen.selector \notin Semantic =>
        \A i \in DOMAIN Chain[chosen.cand].strategies :
            Chain[chosen.cand].strategies[i] \in Semantic =>
                Usable(Match(page, Chain[chosen.cand].strategies[i], NoElement)) = {}

\* locators.py: coordinates "are offered only when every element strategy found
\* nothing".
CoordinatesAreLast ==
    outcome = "coordinates" /\ still =>
        \A c \in DOMAIN Chain : \A i \in DOMAIN Chain[c].strategies : Finds(page, c, i) = {}
=============================================================================
