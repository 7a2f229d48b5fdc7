---------------------------- MODULE MCDiscovery ----------------------------
(* Discovery on a small application: a search screen, a detail screen that   *)
(* shows a member in its URL, and an administration screen that is denied.   *)
EXTENDS Discovery

CONSTANTS search, detail, admin,      \* screens
          member,                     \* an input
          balance, memberId,          \* outputs
          memberHeading,              \* a heading that shows the member
          notFound, dialog, transient, fatal   \* rules

propose(action, value, output, heading) ==
    [action |-> action, object |-> "none", value |-> value, url |-> {}, output |-> output,
     heading |-> heading]

Click == propose("click", {}, NoOutput, memberHeading)
Enter_member == propose("type", {Ref(member)}, NoOutput, NoHeading)
Read == propose("extract", {}, balance, NoHeading)
Pause == propose("wait", {}, NoOutput, NoHeading)
Finishing == propose("finish", {}, NoOutput, NoHeading)
Escalating == propose("escalate", {}, NoOutput, NoHeading)

MCProposals == {Click, Enter_member, Read, Pause, Escalating, Finishing}

MCShown == [s \in Screens |-> IF s = detail THEN {member} ELSE {}]
MCHeads == [s \in Screens |-> IF s = detail THEN {memberHeading} ELSE {}]
MCMentions == [h \in Headings |-> {member}]

MCCategory ==
    [r \in Rules |-> CASE r = notFound -> "business_outcome"
                       [] r = fatal -> "hard_failure"
                       [] OTHER -> "recoverable"]
MCRecovery == [r \in Rules |-> IF r = transient THEN "retry_step" ELSE "click"]

MCEcho == [o \in {memberId} |-> Ref(member)]
=============================================================================
