-------------------------- MODULE MCPolicyEngine --------------------------
(* PolicyEngine with the rules of policies/demobank.json, in the modes that a *)
(* policy file may choose.                                                    *)
EXTENDS PolicyEngine

MCUrls == {"search", "entry", "review", "admin", "elsewhere"}
Names == {"confirm", "back", "field"}
Types == {"none", "text", "password"}
Actions == {"navigate", "click", "type", "press"}

rule(risk, actions, names, types, urls) ==
    [risk_class |-> risk, actions |-> actions, names |-> names, types |-> types, urls |-> urls]

DemoRules ==
    <<rule(SENSITIVE, {"type"}, Names, Types, {"entry"}),
      rule(SENSITIVE, {"type"}, Names, {"password"}, MCUrls),
      rule(IRREVERSIBLE, {"click", "press"}, {"confirm"}, Types, MCUrls),
      rule(IRREVERSIBLE, {"click", "press"}, Names \ {"back"}, Types, {"review"}),
      rule(SENSITIVE, {"click"}, {"confirm"}, Types, MCUrls)>>
\* The file as another bank may write it: confirming is merely sensitive.
LenientRules == <<rule(SENSITIVE, {"click", "type"}, {"confirm", "field"}, Types, MCUrls)>>

MCPolicies ==
    [allowed_actions : {Actions, Actions \ {"press"}},
     allowed_urls : {MCUrls \ {"elsewhere"}}, denied_urls : {{"admin"}},
     sensitive_actions : {"allow", "block"},
     irreversible_actions : {"require_confirmation", "block"},
     secrets_only_into_masked_fields : BOOLEAN,
     rules : {DemoRules, LenientRules}]

MCRequests ==
    [action : {"click"}, url : {"search"}, name : Names, type : {"none"}]
    \cup [action : {"type"}, url : {"search"}, name : {"field"}, type : {"text", "password"}]
    \cup [action : {"press"}, url : {"search"}, name : {"field"}, type : {"none"}]
    \cup [action : {"navigate"}, url : {"search", "admin", "elsewhere"}, name : {"field"},
          type : {"none"}]
===========================================================================
