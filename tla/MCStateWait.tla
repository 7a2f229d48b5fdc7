---------------------------- MODULE MCStateWait ----------------------------
(* StateWait after a search: the form, its "not found" message under the same *)
(* URL, a busy page, the expected detail page, and an error page in its place.*)
EXTENDS StateWait

page_(url, text, heading, element) ==
    [url |-> url, text |-> text, heading |-> heading, element |-> element]

Form == page_("search", "plain", "Search", "button")
NotFound == page_("search", "not found", "Search", "button")
Busy == page_("busy", "wait", "Busy", "none")
Detail == page_("detail", "plain", "Member", "button")

Missing == page_("detail", "not found", "Error", "button")

MCPages == {Form, NotFound, Busy, Detail, Missing}

is(field, value) == [field |-> field, value |-> value, present |-> TRUE]
isNot(field, value) == [field |-> field, value |-> value, present |-> FALSE]

MCExpected == {is("url", "detail"), is("heading", "Member")}

MCRules ==
    <<{is("url", "search"), is("text", "not found"), is("element", "button")},
      {is("text", "wait"), isNot("heading", "Search")}>>
=============================================================================
