----------------------------- MODULE MCGateway -----------------------------
(* Gateway with two tenants, tokens of each kind, a small policy, a plugin   *)
(* that takes a built-in name and one whose scope is not a "tool:" scope.    *)
EXTENDS Gateway

Token(subject, tenant, scopes) ==
    [found |-> "valid", principal |-> [subject |-> <<subject>>, tenant |-> tenant, scopes |-> scopes]]
NoToken(found) == [found |-> found, principal |-> Nobody]

Agent == Token("role:support_copilot", "acme", {"tool:postgres:read", "tool:s3:write"})
Admin == Token("role:internal_admin", "globex", {AdminScope})
Impersonator == Token("role:internal_admin", "globex", {ImpersonateScope, "tool:s3:write"})

MCBearers == {Agent, Admin, Impersonator, NoToken("unknown_key")}

Rule(subjects, actions, resources, effect, condition) ==
    [subjects |-> subjects, actions |-> actions, resources |-> resources,
     effect |-> effect, condition |-> condition]
Anyone == {Glob(<<>>)}

MCRules == {
    Rule(Anyone, {Pattern(<<"server.ping">>)}, Anyone, "allow", NoCondition),
    Rule({Glob(<<"role:internal_admin">>)}, Anyone, Anyone, "allow", NoCondition),
    Rule({Pattern(<<"role:support_copilot">>)}, Anyone, {Glob(<<"tenant:", "acme", "/">>)},
         "allow", NoCondition),
    Rule(Anyone, {Pattern(<<"postgres.query">>)}, Anyone, "deny",
         [key |-> "sql_contains_any", values |-> {"TRUNCATE"}]) }

MCAllowlist == [owner \in {"acme", "*"} |->
    IF owner = "acme" THEN {Glob(<<"acme", "com">>)} ELSE {Pattern(<<"status", "io">>)}]

Plain == [bytes |-> 100, depth |-> 1, keys |-> 2, items |-> 0, fits |-> {}, sql |-> {}, host |-> <<>>]
Call(tool, arguments) == [kind |-> "call", tool |-> tool, arguments |-> [arguments EXCEPT !.fits = {tool}]]

Put == Call("s3.put_object", Plain)
MCMessages == {
    ToolsList, Put,
    Call("server.ping", [Plain EXCEPT !.depth = 9]),
    Call("semantic_search", Plain),
    Call("billing.lookup", Plain),
    Call("postgres.query", [Plain EXCEPT !.sql = {"SELECT", "TRUNCATE"}]),
    Call("http.fetch", [Plain EXCEPT !.host = <<"docs", "acme", "com">>]) }

MCKeys == {<<tenant, Put.tool, Put.arguments>> : tenant \in {"acme", "globex"}}

MCPlugins == {Tool("billing.lookup", "atomic", {"billing:read"}, FALSE, FALSE),
              Tool("s3.get_object", "atomic", {"tool:s3:read"}, FALSE, TRUE)}
=============================================================================
