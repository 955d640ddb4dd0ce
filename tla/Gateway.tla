------------------------------ MODULE Gateway ------------------------------
(***************************************************************************)
(* The way of one request through the server, up to the backend and back:  *)
(* the middlewares that make its context (auth/middleware.py, governance/  *)
(* tenant.py, transport/middleware.py), the handlers and the gates of      *)
(* dispatch (server.py), over the registry of tools (tools/registry.py)    *)
(* and the human approvals (Approvals), both of which change meanwhile.    *)
(*                                                                         *)
(* Dispatch has concurrent calls, the cache, the retry loop and the        *)
(* breaker; here they are the errors they may answer with.                 *)
(***************************************************************************)
EXTENDS Policy, Tools, Approvals

CONSTANTS
    Bearers,        \* Authorization headers that may arrive, with what validation finds
    Headers,        \* X-Tenant-Id headers; NoHeader where there is none
    StdioTenant,    \* ATLAS_TENANT of a server on stdio
    Rules,          \* the policy's rules
    Allowlist,      \* the HTTP allowlist: owner to patterns
    Plugins,        \* tools an embedder registers besides the built-in ones
    Removable,      \* bound of the model: tools an embedder unregisters
    Messages        \* tools/list and the tools/call that clients send

NoHeader == "none"

\* The tenants a call can be made for, and the tools that need an approval.
Tenants ==
    {StdioTenant} \cup (Headers \ {NoHeader})
        \cup {bearer.principal.tenant : bearer \in {b \in Bearers : b.found = "valid"}}
DestructiveTools == {t.name : t \in {u \in ToSet(Builtin) \cup Plugins : u.destructive}}

ASSUME GatewayAssumption ==
    \A tenant \in Tenants, message \in Messages :
        message.tool \in DestructiveTools => <<tenant, message.tool, message.arguments>> \in Keys

VARIABLES
    registered,  \* the registry's tools
    discovered,  \* _discovered
    removed,     \* history: names unregistered since the start
    request,     \* the request under way and the await it stands at
    context,     \* its RequestContext
    reply,       \* what it was answered
    charged,     \* history: whether it took tokens of the quota
    listed       \* history: the last list answered, and for which scopes

registryVars == <<registered, discovered, removed>>
requestVars == <<request, context, reply, charged, listed>>
vars == <<registryVars, requestVars, approvalVars>>

Nobody == [subject |-> <<>>, tenant |-> NoHeader, scopes |-> {}]
NoReply == [status |-> "none", code |-> "none", retryable |-> FALSE]
NoBearer == [found |-> "nothing", principal |-> Nobody]
ToolsList == [kind |-> "list", tool |-> "none", arguments |-> "none"]
NoRequest == [at |-> "idle", bearer |-> NoBearer, header |-> NoHeader, message |-> ToolsList]

\* The scopes that start with "tool:"; the built-in tools declare no other kind.
ToolScopes == UNION {Builtin[i].scopes : i \in 1..Len(Builtin)}

Names(tools) == {t.name : t \in tools}
Lookup(name) == CHOOSE t \in registered : t.name = name

Init ==
    /\ registered = {}
    /\ discovered = FALSE
    /\ removed = {}
    /\ request = NoRequest
    /\ context = Nobody
    /\ reply = NoReply
    /\ charged = FALSE
    /\ listed = [scopes |-> {}, visible |-> {}, hidden |-> {}]
    /\ ApprovalInit

-----------------------------------------------------------------------------
(* Registry *)

\* register() of a taken name raises and changes nothing.
Register(t) ==
    /\ t.name \notin Names(registered)
    /\ registered' = registered \cup {t}
    /\ UNCHANGED <<discovered, removed, requestVars, approvalVars>>

Unregister(name) ==
    /\ name \in Names(registered)
    /\ registered' = {t \in registered : t.name # name}
    /\ removed' = removed \cup {name}
    /\ UNCHANGED <<discovered, requestVars, approvalVars>>

Clashes == {i \in 1..Len(Builtin) : Builtin[i].name \in Names(registered)}

\* Mutant: the flag is set first.
MutantDiscover ==
    /\ ~discovered
    /\ discovered' = TRUE
    /\ registered' = registered \cup
          {Builtin[i] : i \in {j \in 1..Len(Builtin) : \A k \in Clashes : j < k}}
    /\ UNCHANGED <<removed, requestVars, approvalVars>>

\* It registers one tool after the other until a name is taken, which raises.
Discover ==
    /\ ~discovered
    /\ registered' = registered \cup
          {Builtin[i] : i \in {j \in 1..Len(Builtin) : \A k \in Clashes : j < k}}
    /\ discovered' = (Clashes = {})
    /\ UNCHANGED <<removed, requestVars, approvalVars>>

\* The process restarts: registry, approvals and requests are in memory.
RestartServer ==
    /\ registered' = {}
    /\ discovered' = FALSE
    /\ removed' = {}
    /\ request' = NoRequest
    /\ context' = Nobody
    /\ reply' = NoReply
    /\ charged' = FALSE
    /\ listed' = [scopes |-> {}, visible |-> {}, hidden |-> {}]
    /\ Restart

-----------------------------------------------------------------------------
(* The request's context *)

Goto(where) == request' = [request EXCEPT !.at = where]

Answer(status, error) ==
    /\ Goto("answered")
    /\ reply' = [status |-> status, code |-> error.code, retryable |-> error.retryable]

Refuse(code) == Answer("http", Refusal(code))

\* The transports serve once startup() has returned.
Arrive ==
    /\ discovered
    /\ request.at = "idle"
    /\ \E bearer \in Bearers, header \in Headers, message \in Messages :
          request' = [at |-> "received", bearer |-> bearer, header |-> header, message |-> message]
    /\ UNCHANGED <<context, reply, charged, listed, registryVars, approvalVars>>

\* On stdio there is one context, without scopes, for all requests.
ArriveOnStdio ==
    /\ discovered
    /\ request.at = "idle"
    /\ \E message \in Messages : request' = [NoRequest EXCEPT !.at = "bound", !.message = message]
    /\ context' = [subject |-> <<"dev:local">>, tenant |-> StdioTenant, scopes |-> {}]
    /\ UNCHANGED <<reply, charged, listed, registryVars, approvalVars>>

\* The answer is sent, and reset_context() leaves nothing of the request.
Leave ==
    /\ request.at = "answered"
    /\ request' = NoRequest
    /\ context' = Nobody
    /\ reply' = NoReply
    /\ charged' = FALSE
    /\ UNCHANGED <<listed, registryVars, approvalVars>>

\* AuthMiddleware over TokenValidator.validate.  A token whose key the JWKS does
\* not give raises past the handlers of both: no 401, an internal error.
Authenticate ==
    /\ request.at = "received"
    /\ CASE request.bearer.found = "valid" -> Goto("authenticated") /\ UNCHANGED reply
         [] request.bearer.found = "nothing" -> Refuse("missing_token")
         [] request.bearer.found = "expired" -> Answer("http", ToolError("token_expired", TRUE))
         [] request.bearer.found = "invalid" -> Refuse("invalid_token")
         [] OTHER -> Refuse("internal_server_error")
    /\ UNCHANGED <<context, charged, listed, registryVars, approvalVars>>

Principal == request.bearer.principal

Impersonates == HasScope(Principal.scopes, ImpersonateScope, ToolScopes)

\* Mutant: the header is taken as it comes.
MutantBindTenant ==
    /\ request.at = "authenticated"
    /\ context' = [context EXCEPT !.tenant =
                      IF request.header = NoHeader THEN Principal.tenant ELSE request.header]
    /\ Goto("tenanted")
    /\ UNCHANGED <<reply, charged, listed, registryVars, approvalVars>>

\* TenantMiddleware: the token's tenant, or the header's for who may impersonate.
BindTenant ==
    /\ request.at = "authenticated"
    /\ IF request.header \in {NoHeader, Principal.tenant}
       THEN context' = [context EXCEPT !.tenant = Principal.tenant] /\ Goto("tenanted") /\ UNCHANGED reply
       ELSE IF Impersonates
       THEN context' = [context EXCEPT !.tenant = request.header] /\ Goto("tenanted") /\ UNCHANGED reply
       ELSE UNCHANGED context /\ Refuse("tenant_mismatch")
    /\ UNCHANGED <<charged, listed, registryVars, approvalVars>>

\* ContextMiddleware: the principal is there, since nothing passes without one.
\* The handlers see this context because every request runs in a session of its
\* own: stateless_mode is true.
BindContext ==
    /\ request.at = "tenanted"
    /\ context' = [subject |-> Principal.subject, tenant |-> context.tenant,
                   scopes |-> Principal.scopes]
    /\ Goto("bound")
    /\ UNCHANGED <<reply, charged, listed, registryVars, approvalVars>>

-----------------------------------------------------------------------------
(* tools/list *)

Visible == {t \in registered : ScopesSatisfied(t.scopes, context.scopes)}

ListTools ==
    /\ request.at = "bound" /\ request.message.kind = "list"
    /\ listed' = [scopes |-> context.scopes, visible |-> Names(Visible),
                  hidden |-> Names(registered \ Visible)]
    /\ Answer("result", ToolError("none", FALSE))
    /\ UNCHANGED <<context, charged, registryVars, approvalVars>>

-----------------------------------------------------------------------------
(* tools/call *)

Missing(t) == {scope \in t.scopes : ~HasScope(context.scopes, scope, ToolScopes)}

\* The action and the resource of a call are both the tool's name.
RulesFor(effect) ==
    Matching(Rules, effect, context.subject, context.tenant,
             <<request.message.tool>>, <<request.message.tool>>,
             [sql |-> request.message.arguments.sql, columns |-> {}])

\* The gates before the quota, in their order, as the code each refuses with.
Gates == <<"tool_not_found", "invalid_arguments", "insufficient_scope", "denied_by_policy",
           "not_authorized", "host_not_allowlisted">>

Refuses(code) ==
    CASE code = "tool_not_found" -> request.message.tool \notin Names(registered)
      [] code = "invalid_arguments" ->
            \/ ~Bounded(request.message.arguments)
            \/ request.message.tool \notin request.message.arguments.fits
      [] code = "insufficient_scope" -> Missing(Lookup(request.message.tool)) # {}
      [] code = "denied_by_policy" -> RulesFor("deny") # {}
      [] code = "not_authorized" -> RulesFor("allow") = {}
      [] code = "host_not_allowlisted" ->
            /\ request.message.arguments.host # <<>>
            /\ ~HostAllowed(Allowlist, context.tenant, request.message.arguments.host)

\* A call is answered by the first gate that refuses it.
RefusedBy(i) == (\A j \in 1..(i - 1) : ~Refuses(Gates[j])) /\ Refuses(Gates[i])

AtGates == request.at = "bound" /\ request.message.kind = "call"

CallRefused ==
    /\ AtGates
    /\ \E i \in 1..Len(Gates) : RefusedBy(i) /\ Answer("error", Refusal(Gates[i]))
    /\ UNCHANGED <<context, charged, listed, registryVars, approvalVars>>

CallPasses ==
    /\ AtGates
    /\ \A i \in 1..Len(Gates) : ~Refuses(Gates[i])
    /\ Goto("quota")
    /\ UNCHANGED <<context, reply, charged, listed, registryVars, approvalVars>>

\* The quota is spent, or Redis fails and raises what is no ToolError.
RateLimited ==
    /\ request.at = "quota"
    /\ \E error \in {RateLimitError, InternalError} : Answer("error", error)
    /\ UNCHANGED <<context, charged, listed, registryVars, approvalVars>>

\* The tool the call found; it runs even if it is unregistered meanwhile.
Destructive == request.message.tool \in DestructiveTools

\* Mutant: the key has the token's tenant.
MutantApprovalId == <<Principal.tenant, request.message.tool, request.message.arguments>>

ApprovalId == <<context.tenant, request.message.tool, request.message.arguments>>

\* The quota answers, and in the same step the gate of approval holds the call.
Held ==
    /\ request.at = "quota"
    /\ Destructive
    /\ Hold(ApprovalId)
    /\ charged' = TRUE
    /\ Answer("error", Refusal(IF Found(ApprovalId) = "denied" THEN "approval_denied"
                               ELSE "pending_approval"))
    /\ UNCHANGED <<context, listed, registryVars>>

Admitted ==
    /\ request.at = "quota"
    /\ Destructive => LetsThrough(ApprovalId)
    /\ charged' = TRUE
    /\ Goto("run")
    /\ UNCHANGED <<context, reply, listed, registryVars, approvalVars>>

Returns ==
    /\ request.at = "run"
    /\ Answer("result", ToolError("none", FALSE))
    /\ UNCHANGED <<context, charged, listed, registryVars, approvalVars>>

\* A backend fails and the tool's error reaches the client as a SERF answer.
BackendFails ==
    /\ request.at = "run"
    /\ \E f \in Failure : \E error \in Errors(request.message.tool, f) : Answer("error", error)
    /\ UNCHANGED <<context, charged, listed, registryVars, approvalVars>>

\* The budget is spent, the breaker is open, or something raises what is no
\* ToolError and becomes one on the way out.
PipelineFails ==
    /\ request.at = "run"
    /\ \E error \in {TimeoutError_, CircuitOpenError, InternalError} : Answer("error", error)
    /\ UNCHANGED <<context, charged, listed, registryVars, approvalVars>>

\* A human decides on a record, at any time.
HumanDecides(k) ==
    /\ Decide(k, "approved") \/ Decide(k, "denied")
    /\ UNCHANGED <<registryVars, requestVars>>

Tick == Pass /\ UNCHANGED <<registryVars, requestVars>>

Next ==
    \/ \E t \in Plugins : Register(t)
    \/ \E name \in Removable : Unregister(name)
    \/ Discover \/ RestartServer
    \/ Arrive \/ ArriveOnStdio \/ Leave
    \/ Authenticate \/ BindTenant \/ BindContext
    \/ ListTools \/ CallRefused \/ CallPasses
    \/ RateLimited \/ Held \/ Admitted
    \/ Returns \/ BackendFails \/ PipelineFails
    \/ \E k \in Keys : HumanDecides(k)
    \/ Tick

Spec == Init /\ [][Next]_vars

-----------------------------------------------------------------------------
(* Properties *)

Answered == request.at = "answered" /\ request.message.kind = "call"

\* A tool that the list hid from these scopes never runs for them, and one that
\* it showed is not refused for a scope (but where a plugin's scope is not one
\* of the "tool:" scopes, for which list and call differ on the admin scope) and
\* not unknown unless it was unregistered: two copies of the rule, in two
\* modules, over a registry that changes between list and call.
ListAgreesWithCalls ==
    (Answered /\ context.scopes = listed.scopes) =>
        /\ request.message.tool \in listed.hidden => ~charged
        /\ (request.message.tool \in listed.visible /\ reply.code = "insufficient_scope") =>
              \E t \in Plugins : t.name = request.message.tool /\ ~(t.scopes \subseteq ToolScopes)
        /\ (request.message.tool \in listed.visible /\ reply.code = "tool_not_found") =>
              request.message.tool \in removed

\* Nothing is done for a tenant but the token's, except for a token that may
\* impersonate: the tool admin scope does not.
TenantBound ==
    (request.at \in {"bound", "quota", "run"} /\ request.bearer.found = "valid") =>
        \/ context.tenant = Principal.tenant
        \/ ImpersonateScope \in Principal.scopes

\* A destructive call runs only on a fresh approval of this call for the tenant
\* that it is made for.
WritesAreApproved ==
    [][ (request.at = "quota" /\ request'.at = "run" /\ Destructive) =>
          LET d == decision[<<context.tenant, request.message.tool, request.message.arguments>>]
          IN  d.was = "approved" /\ clock <= d.at + ApprovalTtl ]_vars

\* The server serves only when every built-in tool was registered, by a start
\* that did not fail half way.
DiscoveryComplete ==
    discovered => {Builtin[i].name : i \in 1..Len(Builtin)} \subseteq Names(registered) \cup removed
=============================================================================
