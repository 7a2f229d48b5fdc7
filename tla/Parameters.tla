----------------------------- MODULE Parameters -----------------------------
(***************************************************************************)
(* Text with ${name} placeholders: app/artifacts/params.py, the recorder's *)
(* canonicalize, and the redactor's treatment of known secrets.            *)
(*                                                                         *)
(* A text is a sequence of characters.  "${" and "}" count as one          *)
(* character each; PLACEHOLDER_RE is an identifier between the two.        *)
(***************************************************************************)
EXTENDS Integers, Sequences, FiniteSets, SequencesExt

CONSTANTS
    Letters, Digits,            \* the characters, apart from the marks
    MIN_CANONICALIZED_LENGTH,   \* shorter values are not looked for in texts
    MIN_SECRET_LENGTH           \* shorter values are not redacted

\* What opens and closes a placeholder, and [REDACTED].
Marks == {"${", "}", "#"}

Character == Letters \cup Digits \cup Marks

Text == Seq(Character)

ASSUME CharactersAssumption == Marks \cap (Letters \cup Digits) = {}
ASSUME LengthsAssumption ==
    MIN_CANONICALIZED_LENGTH \in Nat \ {0} /\ MIN_SECRET_LENGTH \in Nat \ {0}

Placeholder(name) == <<"${">> \o name \o <<"}">>

\* s occurs in t at position i.
At(t, s, i) == i + Len(s) - 1 <= Len(t) /\ SubSeq(t, i, i + Len(s) - 1) = s

Occurs(s, t) == \E i \in 1 .. Len(t) : At(t, s, i)

IsDigits(t) == t # <<>> /\ ToSet(t) \subseteq Digits

\* One pass over a text: at each position what is put out there, and where the
\* pass goes on.
Pass(output, next) ==
    LET from[i \in 1 .. Len(output) + 1] ==
            IF i > Len(output) THEN <<>> ELSE output[i] \o from[next[i]]
    IN  from[1]

\* str.replace: the occurrences from left to right that do not overlap.
Replace(t, old, new) ==
    Pass([i \in 1 .. Len(t) |-> IF At(t, old, i) THEN new ELSE <<t[i]>>],
         [i \in 1 .. Len(t) |-> IF At(t, old, i) THEN i + Len(old) ELSE i + 1])

\* Several replacements one after the other, of texts of some length at least.
ReplaceEach(t, replacements, least) ==
    LET after[n \in 0 .. Len(replacements)] ==
            IF n = 0 THEN t
            ELSE IF Len(replacements[n].old) < least THEN after[n - 1]
            ELSE Replace(after[n - 1], replacements[n].old, replacements[n].new)
    IN  after[Len(replacements)]

-----------------------------------------------------------------------------
(* params.py.  values is a function from names to texts.                   *)

\* The matches of PLACEHOLDER_RE in t, by their first and last position.
Matches(t) ==
    {m \in (1 .. Len(t)) \X (1 .. Len(t)) :
        /\ m[1] + 1 < m[2]
        /\ t[m[1]] = "${" /\ t[m[2]] = "}"
        /\ t[m[1] + 1] \in Letters
        /\ \A k \in m[1] + 1 .. m[2] - 1 : t[k] \in Letters \cup Digits}

NameOf(t, m) == SubSeq(t, m[1] + 1, m[2] - 1)

find_placeholders(t) == {NameOf(t, m) : m \in Matches(t)}

\* A faulty substitution: what it puts in is substituted once more, where it can be.
substitute_twice(t, values) ==
    LET Once(u) ==
            LET known == {m \in Matches(u) : NameOf(u, m) \in DOMAIN values}
            IN  Pass([i \in 1 .. Len(u) |->
                         IF \E m \in known : m[1] = i
                         THEN values[NameOf(u, CHOOSE m \in known : m[1] = i)] ELSE <<u[i]>>],
                     [i \in 1 .. Len(u) |->
                         IF \E m \in known : m[1] = i
                         THEN (CHOOSE m \in known : m[1] = i)[2] + 1 ELSE i + 1])
    IN  Once(Once(t))

\* substitute, where every placeholder of t has a value: one pass, so that what
\* it puts in is not looked at again.
substitute(t, values) ==
    LET matches == Matches(t)
        MatchAt(i) == CHOOSE m \in matches : m[1] = i
        starts == {m[1] : m \in matches}
    IN  Pass([i \in 1 .. Len(t) |->
                 IF i \in starts THEN values[NameOf(t, MatchAt(i))] ELSE <<t[i]>>],
             [i \in 1 .. Len(t) |-> IF i \in starts THEN MatchAt(i)[2] + 1 ELSE i + 1])

\* substitute raises ParameterError otherwise.
Bound(t, values) == find_placeholders(t) \subseteq DOMAIN values

-----------------------------------------------------------------------------
(* Values and secrets in texts.  inputs is a sequence of records.          *)

\* Stable, longest values first: each input comes after those it has to.
LongestFirst(inputs) ==
    LET First(i, j) ==
            \/ Len(inputs[i].value) > Len(inputs[j].value)
            \/ Len(inputs[i].value) = Len(inputs[j].value) /\ i < j
        place == [i \in DOMAIN inputs |-> 1 + Cardinality({j \in DOMAIN inputs : First(j, i)})]
    IN  [k \in DOMAIN inputs |-> inputs[CHOOSE i \in DOMAIN inputs : place[i] = k]]

\* What canonicalize replaces by a placeholder.
Parameterized(inputs) ==
    [k \in DOMAIN inputs |-> [old |-> inputs[k].value, new |-> Placeholder(inputs[k].name)]]

\* Faulty: the inputs in the order in which they were declared.
canonicalize_asDeclared(t, inputs, base) ==
    ReplaceEach(ReplaceEach(t, Parameterized(inputs), MIN_CANONICALIZED_LENGTH),
                Parameterized(<<base>>), 1)

\* Faulty: only values longer than the least length.
canonicalize_offByOne(t, inputs, base) ==
    ReplaceEach(
        ReplaceEach(t, Parameterized(LongestFirst(inputs)), MIN_CANONICALIZED_LENGTH + 1),
        Parameterized(<<base>>), 1)

\* Recorder.canonicalize: the base URL comes last.
canonicalize(t, inputs, base) ==
    ReplaceEach(
        ReplaceEach(t, Parameterized(LongestFirst(inputs)), MIN_CANONICALIZED_LENGTH),
        Parameterized(<<base>>), 1)

\* The orders in which the redactor may take its secrets: the longest first, those
\* of one length in any order, as they come out of a set.
Orders(secrets) ==
    LET known == {s \in secrets : Len(s) >= MIN_SECRET_LENGTH}
    IN  {order \in [1 .. Cardinality(known) -> known] :
            /\ ToSet(order) = known
            /\ \A j, k \in DOMAIN order : j < k => Len(order[j]) >= Len(order[k])}

\* Redactor.redact_text for the known secrets, "#" being [REDACTED].
redact(t, order) ==
    ReplaceEach(t, [k \in DOMAIN order |-> [old |-> order[k], new |-> <<"#">>]], MIN_SECRET_LENGTH)
=============================================================================
