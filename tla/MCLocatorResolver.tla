------------------------- MODULE MCLocatorResolver -------------------------
(* LocatorResolver on a page with two forms: a and b are alike, one in each   *)
(* form, c is hidden and d is disabled.                                       *)
EXTENDS LocatorResolver

CONSTANTS a, b, c_, d, form1, form2

MCElements == {a, b, c_, d, form1, form2}
MCVisible == MCElements \ {c_}
MCEnabled == MCElements \ {d}
MCInside == [e \in MCElements |-> IF e \in {a, c_} THEN form1 ELSE IF e \in {b, d} THEN form2
                                  ELSE NoElement]

MCSelectors == {"form", "role", "label", "css", "role2", "css2"}
MCSemantic == {"form", "role", "label", "role2"}

candidate(frame, within, strategies) ==
    [frame |-> frame, within |-> within, strategies |-> strategies]
spec(candidates, coordinates) == [candidates |-> candidates, coordinates |-> coordinates]

Plain == candidate(FALSE, <<>>, <<"role", "label", "css">>)
Scoped == candidate(FALSE, <<"form">>, <<"role", "css">>)
Fallback == candidate(FALSE, <<>>, <<"role2", "css2">>)
Framed == candidate(TRUE, <<>>, <<"role2">>)

MCTargets ==
    {spec(<<Plain>>, TRUE), spec(<<Plain, Fallback>>, FALSE), spec(<<Scoped, Fallback>>, TRUE),
     spec(<<Scoped, Framed>>, FALSE)}

\* Controls of either form, and one that is in none.
MCControls ==
    {[element |-> e, within |-> <<"form">>, strategies |-> <<"role", "label", "css">>] :
        e \in {a, b}}
    \cup {[element |-> a, within |-> <<>>, strategies |-> <<"role2", "css2">>]}

\* Every page on which the selectors of controls match nothing, one control, two
\* that are alike, or one next to a hidden and a disabled one.
Found == {{}, {a}, {a, b}, {b, c_, d}}
StillPages ==
    {[s \in MCSelectors |-> IF s = "form" THEN forms ELSE found[s]] :
        forms \in {{}, {form1}, {form1, form2}}, found \in [MCSelectors \ {"form"} -> Found]}

\* A few pages that a page may turn into.
shown(form, role, label, css, role2, css2) ==
    [s \in MCSelectors |->
        CASE s = "form" -> form [] s = "role" -> role [] s = "label" -> label
          [] s = "css" -> css [] s = "role2" -> role2 [] s = "css2" -> css2]
Changing ==
    {shown({}, {}, {}, {}, {}, {}), shown({form1}, {a, b}, {}, {a}, {}, {}),
     shown({form1, form2}, {a, b}, {a}, {b}, {}, {b}), shown({}, {}, {}, {b, c_}, {a, b}, {a}),
     shown({form2}, {d}, {a, b}, {a}, {}, {a}), shown({}, {}, {}, {a, b}, {}, {})}
MCPages == StillPages \cup Changing
=============================================================================
