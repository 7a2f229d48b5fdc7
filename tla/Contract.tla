------------------------------ MODULE Contract ------------------------------
(***************************************************************************)
(* The life of an input value: the operator of a discovery supplies it,    *)
(* the model refers to it, the loop types it, the recorder finds it again  *)
(* in what was typed and shown, the artifact declares it, and a replay     *)
(* with other values puts them in its place.                               *)
(*                                                                         *)
(* recorded is what the artifact keeps of typed values, of URLs and of the *)
(* conditions that page_identity derives; each item remembers the text it  *)
(* was made from.                                                          *)
(***************************************************************************)
EXTENDS Parameters

CONSTANTS
    Names,          \* the names of the inputs, each a text
    Values,         \* values the caller of the discovery may supply
    Others,         \* values the caller of a replay may supply instead
    BaseUrls,       \* base URLs
    Decisions,      \* texts the model may propose to type
    Paths,          \* paths of pages, apart from those that show a value
    MaxItems        \* bound: typed values, URLs and conditions

BASE_URL == <<"b", "a", "s", "e">>

\* The inputs come from a dictionary, and base_url is reserved.
ASSUME NamesAssumption ==
    /\ Names \in Seq(Seq(Letters) \ {<<>>}) /\ IsInjective(Names)
    /\ BASE_URL \in Seq(Letters) /\ BASE_URL \notin ToSet(Names)
ASSUME TextsAssumption == Values \cup Others \cup BaseUrls \cup Decisions \cup Paths \subseteq Text
ASSUME ItemsAssumption == MaxItems \in Nat

VARIABLES
    phase,
    inputs,     \* the inputs of the discovery: name, value, sensitive
    base,       \* its base URL
    recorded,   \* items of the artifact
    declared,   \* the inputs of the artifact: sensitive, digits
    given,      \* the inputs of the replay
    tenant,     \* its base URL
    sent,       \* what the replay makes of each item
    logged      \* texts of its events

vars == <<phase, inputs, base, recorded, declared, given, tenant, sent, logged>>

NoInputs == [name \in {} |-> <<>>]

Kind == {"value", "url", "condition"}

Phase == {"recording", "invalid", "saved", "refused", "unbound", "replayed"}

TypeOK ==
    /\ phase \in Phase
    /\ inputs \in Seq([name : Text, value : Text, sensitive : BOOLEAN])
    /\ base \in Text /\ tenant \in Text
    /\ recorded \in Seq([kind : Kind, source : Text, seen : Text, text : Text])
    /\ \A name \in DOMAIN declared :
           declared[name] \in [sensitive : BOOLEAN, digits : BOOLEAN]
    /\ \A name \in DOMAIN given : given[name] \in Text
    /\ sent \in Seq([text : Text, secret : BOOLEAN])
    /\ logged \in Seq(Text)

Init ==
    /\ phase = "recording"
    /\ \E supplied \in [DOMAIN Names -> Values], secret \in SUBSET DOMAIN Names :
           inputs = [i \in DOMAIN Names |-> [name |-> Names[i], value |-> supplied[i],
                                             sensitive |-> i \in secret]]
    /\ base \in BaseUrls
    /\ recorded = <<>> /\ declared = NoInputs
    /\ given = NoInputs /\ tenant = base /\ sent = <<>> /\ logged = <<>>

-----------------------------------------------------------------------------
(* Discovery.                                                              *)

values == [name \in {i.name : i \in ToSet(inputs)} |->
               (CHOOSE i \in ToSet(inputs) : i.name = name).value]

Base(url) == [name |-> BASE_URL, value |-> url]

Record(kind, source, seen) ==
    /\ Len(recorded) < MaxItems
    /\ recorded' = Append(recorded,
           [kind |-> kind, source |-> source, seen |-> seen,
            text |-> canonicalize(seen, inputs, Base(base))])
    /\ UNCHANGED <<phase, inputs, base, declared, given, tenant, sent, logged>>

\* _prepare_request rejects names that are not inputs, and secrets in clear.
Acceptable(decision) ==
    /\ Bound(decision, values)
    /\ \A i \in ToSet(inputs) : i.sensitive => ~Occurs(i.value, decision)

\* A value is typed or selected.
TypeValue ==
    /\ phase = "recording"
    /\ \E decision \in Decisions :
           Acceptable(decision) /\ Record("value", decision, substitute(decision, values))

\* A page is opened: its URL is used as it is.
OpenUrl ==
    /\ phase = "recording"
    /\ \E path \in Paths : Record("url", base \o path, base \o path)

\* page_identity: the path of a page, which may show a value.
SeePage ==
    /\ phase = "recording"
    /\ \E path \in Paths \cup {i.value : i \in ToSet(inputs)} : Record("condition", path, path)

-----------------------------------------------------------------------------
(* build_artifact, with _used_inputs and _semantic_integrity.               *)

Mentioned(kinds) ==
    UNION {find_placeholders(item.text) : item \in {r \in ToSet(recorded) : r.kind \in kinds}}

\* Faulty: only what is typed counts, and is declared.
Placeholders_values == Mentioned({"value"})

\* iter_placeholders: every item, the conditions included.
Placeholders == Mentioned(Kind)

\* An input is declared if an argument of a step refers to it.
Used == {i \in ToSet(inputs) : i.name \in Mentioned({"value", "url"})}

\* The artifact is built and validated; where it is not valid, the run ends in
\* an exception and nothing is saved.
Build ==
    /\ phase = "recording"
    /\ recorded # <<>>
    /\ declared' = [name \in {i.name : i \in Used} |->
           LET input == CHOOSE i \in Used : i.name = name
           IN  [sensitive |-> input.sensitive, digits |-> IsDigits(input.value)]]
    /\ phase' = IF Placeholders \subseteq DOMAIN declared' \cup {BASE_URL}
                THEN "saved" ELSE "invalid"
    /\ UNCHANGED <<inputs, base, recorded, given, tenant, sent, logged>>

-----------------------------------------------------------------------------
(* Replay.                                                                 *)

\* validate_inputs, for the inputs a recording declares, all of them required:
\* nothing unknown, nothing missing, digits where the recorded value had them.
Valid(supplied) ==
    /\ DOMAIN supplied = DOMAIN declared
    /\ \A name \in DOMAIN declared : declared[name].digits => IsDigits(supplied[name])

Params(supplied, url) ==
    [name \in DOMAIN supplied \cup {BASE_URL} |->
        IF name = BASE_URL THEN url ELSE supplied[name]]

\* _value_is_secret: only a typed value is ever asked for.
value_is_secret(item) ==
    /\ item.kind = "value"
    /\ \E name \in find_placeholders(item.text) \cap DOMAIN declared : declared[name].sensitive

\* The secrets of the redactor.
Secrets(supplied) ==
    {supplied[name] : name \in {n \in DOMAIN supplied : declared[n].sensitive}}

\* replay: the inputs are validated, or the run ends before it touches the page;
\* then _build_request and evaluate_condition substitute in every item, and the
\* events report the texts.
Replay ==
    /\ phase = "saved"
    /\ \E names \in SUBSET {i.name : i \in ToSet(inputs)} :
           given' \in {supplied \in [names -> Others \cup {i.value : i \in ToSet(inputs)}] :
                          \A name \in names : supplied[name] \in Others \cup {values[name]}}
    /\ tenant' \in BaseUrls
    /\ LET params == Params(given', tenant')
           open == \E item \in ToSet(recorded) : ~Bound(item.text, params)
       IN  \/ ~Valid(given') /\ phase' = "refused" /\ UNCHANGED <<sent, logged>>
           \/ Valid(given') /\ open /\ phase' = "unbound" /\ UNCHANGED <<sent, logged>>
           \/ /\ Valid(given') /\ ~open
              /\ phase' = "replayed"
              /\ sent' = [k \in DOMAIN recorded |->
                     [text |-> substitute(recorded[k].text, params),
                      secret |-> value_is_secret(recorded[k])]]
              /\ \E order \in Orders(Secrets(given')) :
                     logged' = [k \in DOMAIN recorded |-> redact(sent'[k].text, order)]
    /\ UNCHANGED <<inputs, base, recorded, declared>>

Next == TypeValue \/ OpenUrl \/ SeePage \/ Build \/ Replay

Spec == Init /\ [][Next]_vars

-----------------------------------------------------------------------------
(* Safety.                                                                 *)

Sought == {i \in ToSet(inputs) : Len(i.value) >= MIN_CANONICALIZED_LENGTH}

\* No value that canonicalize looks for occurs in the placeholder of a parameter.
\* Without this a value may be replaced inside a placeholder put in before it.
NamesApart ==
    \A name \in {i.name : i \in ToSet(inputs)} \cup {BASE_URL} :
        \A value \in {i.value : i \in Sought} \cup {base} : ~Occurs(value, Placeholder(name))

\* Parameterization never changes what a run does: replayed with the values of
\* its discovery, an artifact types, opens and expects exactly the texts that
\* were typed, opened and seen, however values overlap, repeat or contain each
\* other or the base URL.
RoundTrip ==
    phase = "replayed" /\ NamesApart /\ tenant = base
        /\ (\A name \in DOMAIN given : given[name] = values[name]) =>
            \A k \in DOMAIN recorded : sent[k].text = recorded[k].seen

\* What the model typed as one input follows that input: the replay types the
\* value it was given for it, and knows it for a secret where it is one.  Other
\* values that contain it, or are contained in it, do not get in the way; only
\* an input of the same value can.
FollowsItsInput ==
    phase = "replayed" /\ NamesApart =>
        \A k \in DOMAIN recorded : \A i \in Sought :
            recorded[k].kind = "value" /\ recorded[k].source = Placeholder(i.name)
              /\ (\A j \in ToSet(inputs) : j.value = i.value => j = i) =>
                /\ i.name \in DOMAIN given
                /\ sent[k].text = given[i.name]
                /\ i.sensitive => sent[k].secret

\* A replay whose inputs were accepted has a value for every placeholder in the
\* arguments, the pre- and postconditions and the checkpoint of the artifact:
\* what the schema admitted and what the validation of inputs admitted leave
\* nothing open.  The conditions of rules are not among them; the schema does not
\* look at those.
SubstitutionIsTotal == phase # "unbound"

\* A secret long enough to be looked for is in no text of the artifact, and one
\* long enough to be redacted is in no event, in whatever text it is typed.
SecretsStayInside ==
    /\ NamesApart =>
           \A item \in ToSet(recorded), i \in Sought :
               i.sensitive => ~Occurs(i.value, item.text)
    /\ \A text \in ToSet(logged) : \A secret \in Secrets(given) :
           Len(secret) >= MIN_SECRET_LENGTH => ~Occurs(secret, text)

-----------------------------------------------------------------------------
(* What the documents say, for runs that refute it.                        *)

\* schema.py on a sensitive input: "Never logged, never stored".
NeverLoggedNeverStored ==
    /\ \A item \in ToSet(recorded), i \in ToSet(inputs) :
           i.sensitive => ~Occurs(i.value, item.text)
    /\ \A text \in ToSet(logged) : \A secret \in Secrets(given) : ~Occurs(secret, text)

\* schema.py on target.base_url: "overridable per tenant at replay".
BaseIsOverridable ==
    phase = "replayed" =>
        \A k \in DOMAIN recorded : recorded[k].kind = "url" => At(sent[k].text, tenant, 1)

\* recorder.py: "Every occurrence of an input value in a typed value, URL or
\* condition is replaced by ${input_name}": what was typed as two inputs side by
\* side follows them both.
EveryOccurrenceFollows ==
    phase = "replayed" /\ NamesApart =>
        \A k \in DOMAIN recorded : \A i, j \in Sought :
            i.value # j.value /\ recorded[k].source = Placeholder(i.name) \o Placeholder(j.name)
                => /\ {i.name, j.name} \subseteq DOMAIN given
                   /\ sent[k].text = given[i.name] \o given[j.name]
=============================================================================
