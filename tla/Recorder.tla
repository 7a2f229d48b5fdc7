------------------------------- MODULE Recorder -------------------------------
(***************************************************************************)
(* The recorder of a discovery run: what one executed action becomes in    *)
(* the artifact, which inputs and outputs the artifact declares, and when  *)
(* the artifact's own validation accepts it.                               *)
(*                                                                         *)
(* A text is abstracted to what canonicalize and the placeholders find in  *)
(* it: the inputs whose value occurs in it, and the names that it writes   *)
(* out as ${name}.  A screen is what fingerprint() tells apart, which      *)
(* includes its URL and its headings.                                      *)
(***************************************************************************)
EXTENDS Integers, Sequences

CONSTANTS
    Inputs,         \* the declared inputs
    Short,          \* those no placeholder can stand for: a value shorter than
                    \* MIN_CANONICALIZED_LENGTH, or a name PLACEHOLDER_RE does not find
    Names,          \* the names that PLACEHOLDER_RE may find in a text
    Identifiers,    \* the names that IDENTIFIER_RE accepts
    Screens,
    Shown,          \* the text of the URL path of each screen
    Headings,       \* headings
    Heads,          \* those each screen shows
    Mentions,       \* the text of each heading
    Outputs,        \* names a decision may give an output; a Decision wants identifiers
    CapabilityName  \* the artifact's name

NoOutput == "none"
NoScreen == "none"
NoHeading == "none"

RESERVED_PARAMETERS == {"base_url"}

\* The text "${name}".
Ref(name) == <<"ref", name>>

Text == Inputs \cup {Ref(n) : n \in Names}

ASSUME ShownAssumption == Shown \in [Screens -> SUBSET Text]
ASSUME HeadingsAssumption ==
    Heads \in [Screens -> SUBSET Headings] /\ Mentions \in [Headings -> SUBSET Text]
ASSUME ShortAssumption == Short \subseteq Inputs
ASSUME OutputsAssumption == Outputs \subseteq Identifiers
ASSUME NamesAssumption ==
    NoOutput \notin Outputs /\ NoScreen \notin Screens /\ NoHeading \notin Headings

MovesPage == {"navigate", "click", "press"}

ActionType == MovesPage \cup {"type", "extract"}

\* A Step: args are the placeholders in its arguments, expected those of the
\* heading it expects; pre and post are the screens whose identity it keeps, or
\* NoScreen; text says that a value was read.
StepType ==
    [index : Nat, action : ActionType, args : SUBSET (Inputs \cup Names),
     pre : Screens \cup {NoScreen}, post : Screens \cup {NoScreen},
     expected : SUBSET (Inputs \cup Names),
     output : Outputs \cup {NoOutput}, text : BOOLEAN]

\* substitute, on a value whose names are all known: the inputs' values take
\* the place of their names.
Substituted(value) == {i \in Inputs : i \in value \/ Ref(i) \in value}

\* canonicalize, as the placeholders of the result: those that take the place of
\* values, and those the text had already.
Canonical(text) == {i \in Inputs \ Short : i \in text} \cup {n \in Names : Ref(n) \in text}

\* page_identity, as the placeholders of its URL pattern; its heading has none.
IdentityInputs(screen) == IF screen = NoScreen THEN {} ELSE Canonical(Shown[screen])

\* A faulty record: the screen before is taken from the observation after.
PreOf_after(action, before, after) == IF action = "navigate" THEN NoScreen ELSE after

\* A navigation has no preconditions.
PreOf(action, before, after) == IF action = "navigate" THEN NoScreen ELSE before

\* The heading that the model expected is kept if the screen after shows it.
ExpectedOf(heading, after) == IF heading \in Heads[after] THEN Canonical(Mentions[heading]) ELSE {}

\* record: only an action that moves the page takes the identity of the screen
\* it leads to, and the expected heading, as its postconditions.
Recorded(index, proposal, before, after, text) ==
    LET moves == proposal.action \in MovesPage
    IN  [index |-> index, action |-> proposal.action,
         args |-> Canonical(Substituted(proposal.value)) \cup Canonical(proposal.url),
         pre |-> PreOf(proposal.action, before, after),
         post |-> IF moves THEN after ELSE NoScreen,
         expected |-> IF moves THEN ExpectedOf(proposal.heading, after) ELSE {},
         output |-> proposal.output, text |-> text]

-----------------------------------------------------------------------------
(* build_artifact.                                                         *)

\* Faulty: only the last step is looked at.
UsedInputs_last(steps) == IF steps = <<>> THEN {} ELSE steps[Len(steps)].args

\* _used_inputs looks at the arguments of the steps, not at their conditions.
UsedInputs(steps) == UNION {steps[k].args : k \in DOMAIN steps}

\* An input is kept if it is used, or if its name is among the echoed references.
KeptInputs(steps, echo) ==
    {i \in Inputs : i \in UsedInputs(steps) \/ i \in {echo[o] : o \in DOMAIN echo}}

\* The outputs that echo an input.
Echoes(steps, echo) ==
    {o \in DOMAIN echo : \E i \in KeptInputs(steps, echo) : echo[o] = Ref(i)}

Extracting(steps, o) == {k \in DOMAIN steps : steps[k].action = "extract" /\ steps[k].output = o}

\* _output_types: the last step that read a value for the output.
Reading(steps, o) == {k \in Extracting(steps, o) : steps[k].text}

Last(S) == CHOOSE k \in S : \A j \in S : j <= k

\* outputs: the status, the message, and what is echoed or read.
DeclaredOutputs(steps, echo) ==
    {"status", "message"} \cup Echoes(steps, echo) \cup {o \in Outputs : Reading(steps, o) # {}}

\* iter_placeholders, over the steps' arguments and conditions and the checkpoint.
Placeholders(steps, final) ==
    IdentityInputs(final) \cup
    UNION {steps[k].args \cup IdentityInputs(steps[k].pre) \cup IdentityInputs(steps[k].post)
               \cup steps[k].expected : k \in DOMAIN steps}

\* CapabilityArtifact, where a recording can fail its validation: the names, the
\* step ids, the placeholders, and the outputs of extract steps, of which the
\* message is overwritten.
Valid(steps, echo, final) ==
    /\ CapabilityName \in Identifiers
    /\ KeptInputs(steps, echo) \subseteq Identifiers \ RESERVED_PARAMETERS
    /\ DeclaredOutputs(steps, echo) \subseteq Identifiers \cup {"status", "message"}
    /\ \A j, k \in DOMAIN steps : steps[j].index = steps[k].index => j = k
    /\ Placeholders(steps, final) \subseteq KeptInputs(steps, echo) \cup RESERVED_PARAMETERS
    /\ \A o \in Outputs \ {"message"} :
           Reading(steps, o) # {} => Last(Reading(steps, o)) = Last(Extracting(steps, o))
    /\ \A o \in Outputs : Extracting(steps, o) # {} => o \in DeclaredOutputs(steps, echo)
==============================================================================
