----------------------------- MODULE MCContract -----------------------------
(* Contract on short texts.  MIN_CANONICALIZED_LENGTH is 2 and              *)
(* MIN_SECRET_LENGTH 3, instead of 3 and 4: values of one, two and three    *)
(* characters are below, at and above both limits.                          *)
EXTENDS Contract

A == <<"a">>

B == <<"b", "a">>

MCNames == <<A, B>>

\* Too short to be looked for; one that contains another and overlaps it;
\* one that contains a placeholder, and one that is the name of an input.
MCValues == {<<"1">>, <<"1", "2">>, <<"1", "2", "1">>, <<"1">> \o Placeholder(A), B}

MCOthers == {<<"2", "2">>, <<"2", "1", "1">>}

\* The second contains one of the values, as a port may.
MCBaseUrls == {<<"h", "x">>, <<"h", "1", "2">>}

\* An input, the other, both side by side, a value next to a literal character,
\* and what happens to be a value.
MCDecisions ==
    {Placeholder(A), Placeholder(B), Placeholder(A) \o Placeholder(B),
     <<"2">> \o Placeholder(A), <<"1", "2">>}

MCPaths == {<<"p", "1", "2">>}
=============================================================================
