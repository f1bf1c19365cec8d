------------------------------- MODULE Inputs -------------------------------
(***************************************************************************)
(* The names of a tool's inputs: what registration refuses, what the       *)
(* inputSchema offers, and where a call's arguments go.                    *)
(*                                                                         *)
(* A name can be many things at once: a parameter of the callable or of    *)
(* the target lookup, a field of the input_serializer, a URL kwarg, a      *)
(* query parameter, a key the kwargs= provider fills, a value the server   *)
(* binds, a seed.  A declaration says which; registration admits it or     *)
(* not; a client then sends any set of names.  Every pool maps a name to   *)
(* who gave its value.                                                     *)
(***************************************************************************)
EXTENDS Checks

CONSTANTS
  Names,      \* argument and parameter names
  Seeds,      \* the names dispatch fills on every call: user, view, pool_seeds=...
  Reserved,   \* every name dispatch keeps to itself, Seeds included
  Paging,     \* RESERVED_POST_FETCH_KEYS
  Tools       \* the declarations: kind, spread, takesAny, reject, paginate, role

\* role[n]: what the declaration makes of the name n.
\*   param, lookup  "no", "optional", "required": of the callable, of the target lookup
\*   field          "no", "optional", "required", "default", "read only"
\*   as             the name a field is bound to (source=)
\*   route          "no", "optional", "default", "required": the UrlKwarg
\*   query          a QueryParam?
\*   from           "caller", "provider" (the keys kwargs= is typed to fill), "claimed"
\*                  (spec_kwargs_provides), "supplied", "withheld" (server_arguments)

ASSUME InputsAssumption ==
  /\ Seeds \cup {"instance", "data"} \subseteq Reserved
  /\ \A t \in Tools : \* only a service has a target lookup, only a selector's rows have pages
       IF t.kind \in {"list", "retrieve"}
       THEN \A n \in Names : t.role[n].lookup = "no"
       ELSE ~t.paginate

VARIABLES
  tool,      \* the declaration
  standing,  \* "declared", "registered", or the check that refused it
  sent       \* the names the latest call carried

inputVars == <<tool, standing, sent>>

-----------------------------------------------------------------------------
(* Reading a declaration.                                                  *)

Is(t, part, values) == {n \in Names : t.role[n][part] \in values}

IsSelector(t) == t.kind \in {"list", "retrieve"}
Params(t) == Is(t, "param", {"optional", "required"})
Required(t) == Is(t, "param", {"required"})
LookupKeys(t) == Is(t, "lookup", {"optional", "required"})
HasLookup(t) == LookupKeys(t) # {}
FieldNames(t) == Is(t, "field", {"optional", "required", "default", "read only"})
HasInput(t) == FieldNames(t) # {}
CallerFields(t) == Is(t, "field", {"optional", "required", "default"})
Routes(t) == Is(t, "route", {"optional", "default", "required"})
Queries(t) == Is(t, "query", {TRUE})
Filled(t) == Is(t, "from", {"provider"})
Claimed(t) == Is(t, "from", {"claimed"})
ServerNames(t) == Is(t, "from", {"supplied", "withheld"})

\* laid_back_inputs: the names laid back with the caller's value, and the ones the
\* input fills when the caller sends nothing.
LaidBack(t) == {n \in CallerFields(t) : t.role[n].as = n}
Fills(t) == {n \in LaidBack(t) : t.role[n].field = "default"}

-----------------------------------------------------------------------------
(* What is offered.                                                        *)

\* A name this server fills is not the caller's to send.
SuppliedToSelector(t) ==
  Reserved \cup Is(t, "route", {"default"}) \cup Filled(t) \cup Claimed(t) \cup Fills(t)

SuppliedToLookup(t) == Reserved \cup Is(t, "route", {"default"})

\* The parameters a spreading service without a serializer takes from the caller.
OwnOffered(t) ==
  IF t.spread /\ ~HasInput(t) THEN Params(t) \ (Reserved \cup Filled(t)) ELSE {}

\* selector_tool_inputs, or the service's own input and its target lookup's.
Reflected(t) ==
  IF IsSelector(t) THEN Params(t) \ SuppliedToSelector(t)
  ELSE OwnOffered(t) \cup (LookupKeys(t) \ SuppliedToLookup(t))

\* Mutant: a service's lookup answers for itself.
AskedOfSelectors(t) == IF IsSelector(t) THEN Required(t) \ SuppliedToSelector(t) ELSE {}

\* What refuse_missing_arguments asks a call for.
Asked(t) ==
  IF IsSelector(t) THEN Required(t) \ SuppliedToSelector(t)
  ELSE Is(t, "lookup", {"required"}) \ SuppliedToLookup(t)

\* The inputSchema's properties and its required list.
Offered(t) ==
  (Reflected(t) \cup CallerFields(t) \cup Routes(t) \cup Queries(t)
     \cup (IF t.paginate THEN Paging ELSE {})) \ ServerNames(t)

MustSend(t) ==
  (Asked(t) \cup (OwnOffered(t) \cap Required(t)) \cup Is(t, "field", {"required"})
     \cup Is(t, "route", {"required"})) \ ServerNames(t)

-----------------------------------------------------------------------------
(* What registration refuses.                                              *)

\* _validate_required_params_have_sources: where each parameter without a default
\* may come from.  A serializer's field counts under its declared name.
Sources(t) ==
  Seeds \cup Claimed(t)
    \cup (IF HasLookup(t) THEN {"instance"} ELSE {})
    \cup (IF HasInput(t) /\ ~IsSelector(t) THEN {"data"} ELSE {})
    \cup (IF IsSelector(t) THEN Is(t, "route", {"default", "required"}) ELSE {})
    \cup (IF ~t.spread THEN {}
          ELSE IF HasInput(t) THEN FieldNames(t) \ (IF IsSelector(t) THEN {"data"} ELSE {})
          ELSE Required(t) \ Reserved)

\* _validate_merge_or_replace: fields nothing takes.
Unmatched(t) ==
  t.spread /\ HasInput(t) /\ ~t.takesAny
    /\ (IsSelector(t) \/ "data" \notin Params(t))
    /\ ~(FieldNames(t) \subseteq Params(t) \cup Reserved \cup Paging)

\* _validate_data_only: a bundled payload nothing takes.
Unbundled(t) == ~t.spread /\ HasInput(t) /\ ~t.takesAny /\ "data" \notin Params(t)

\* validate_reserved_input_fields.
SeedFields(t) ==
  (IsSelector(t) \/ t.spread) /\ \E n \in CallerFields(t) \cap Reserved : t.role[n].as = n

\* Mutant: only a field collides with a query parameter.
QueriedFields(t) ==
  Queries(t) \cap (IF IsSelector(t) THEN {} ELSE CallerFields(t)) # {}

\* validate_query_param_inputs: the split takes the value from the input of its name.
Queried(t) ==
  Queries(t) \cap
    (IF IsSelector(t) THEN Reflected(t) \ LaidBack(t)
     ELSE CallerFields(t)
            \cup (OwnOffered(t) \ (Filled(t) \cup Claimed(t)))
            \cup (LookupKeys(t) \ Reserved)) # {}

\* validate_url_kwarg_inputs: drf-services hands view.kwargs to the lookup, never to
\* the service.
Routed(t) ==
  ~IsSelector(t)
    /\ Routes(t) \cap (CallerFields(t) \cup (OwnOffered(t) \ (Filled(t) \cup Claimed(t)))) # {}

\* validate_selector_url_kwargs_reach: a catch-all is handed what the selector names.
Unreached(t) ==
  IsSelector(t) /\ t.takesAny /\ ~(Routes(t) \subseteq Params(t) \cup Filled(t) \cup Claimed(t))

\* validate_selector_parameter_names.
PagingParameter(t) == t.kind = "list" /\ (Params(t) \cap Paging) \ LaidBack(t) # {}

\* check_server_arguments, the kernel's: a bound name is an input of the spec, and a
\* withheld one is not one it cannot go without.
Holds(t) ==
  /\ ServerNames(t) \subseteq
       (Reflected(t) \cup CallerFields(t) \cup Routes(t) \cup Queries(t)) \ Reserved
  /\ Is(t, "from", {"withheld"}) \cap
       (Required(t) \cup Is(t, "lookup", {"required"}) \cup Is(t, "field", {"required"})
          \cup Is(t, "route", {"required"})) = {}

\* validate_input_serializer_against_callable.
CallableChecks(t) ==
  << <<Unbundled(t), "bundle without data">>,
     <<Unmatched(t), "field nothing takes">>,
     <<~t.takesAny /\ ~(Required(t) \subseteq Sources(t)), "parameter without source">> >>

UrlKwargChecks(t) ==
  << <<Routes(t) \cap (Reserved \cup Paging) # {}, "reserved url kwarg">> >>

QueryParamChecks(t) ==
  << <<Queries(t) \cap (Reserved \cup Paging) # {}, "reserved query parameter">>,
     <<Queries(t) \cap Routes(t) # {}, "two channels">> >>

\* selector_spec_to_tool, then register_selector_tool's own check of page and limit,
\* which are the read pipeline's, and the kernel's of the server's values.
SelectorChecks(t) ==
  CallableChecks(t)
    \o << <<SeedFields(t), "field named after a seed">> >>
    \o UrlKwargChecks(t) \o QueryParamChecks(t)
    \o << <<t.kind = "retrieve" /\ t.paginate, "retrieve paginated">>,
          <<Queried(t), "input named after a query parameter">>,
          <<Unreached(t), "url kwarg only a catch-all could take">>,
          <<PagingParameter(t), "paging parameter">>,
          <<~Holds(t), "server arguments">> >>

\* service_spec_to_tool.
ServiceChecks(t) ==
  CallableChecks(t)
    \o << <<SeedFields(t), "field named after a seed">> >>
    \o UrlKwargChecks(t) \o QueryParamChecks(t)
    \o << <<Queried(t), "input named after a query parameter">>,
          <<Routed(t), "input named after a url kwarg">>,
          <<CallerFields(t) \cap (LookupKeys(t) \ Reserved) # {},
            "field named after a lookup key">>,
          <<~Holds(t), "server arguments">> >>

RegistrationChecks(t) == IF IsSelector(t) THEN SelectorChecks(t) ELSE ServiceChecks(t)

-----------------------------------------------------------------------------
(* Where the arguments go.  A pool is a function from names to who gave    *)
(* the value: the caller's argument of some name, the server, the author's *)
(* default.                                                                *)

Of(n) == <<"caller", n>>
Server == <<"server">>
Author == <<"author">>

\* Mutant: the caller's value of a bound name is kept.
ArgsKept(t, s) ==
  [n \in s \cup Is(t, "from", {"supplied"}) |-> IF n \in s THEN Of(n) ELSE Server]

\* apply_tool_server_arguments.
Args(t, s) ==
  [n \in (s \ ServerNames(t)) \cup Is(t, "from", {"supplied"}) |->
     IF n \in ServerNames(t) THEN Server ELSE Of(n)]

Only(f, names) == [n \in DOMAIN f \cap names |-> f[n]]
Without(f, names) == [n \in DOMAIN f \ names |-> f[n]]
Under(f, g) == [n \in DOMAIN f \cup DOMAIN g |-> IF n \in DOMAIN g THEN g[n] ELSE f[n]]

\* split_url_kwargs: the values that become view.kwargs.
RouteValues(t, s) ==
  Under([n \in Is(t, "route", {"default"}) |-> Author], Only(Args(t, s), Routes(t)))

\* ... and split_query_params: what is left for the spec.
Rest(t, s) == Without(Args(t, s), Routes(t) \cup Queries(t))

\* What a serializer validates out of data, under the names its fields are bound to;
\* of two fields bound to one name, the one declared last fills it.
Validated(t, data) ==
  LET given == {f \in CallerFields(t) : f \in DOMAIN data \/ t.role[f].field = "default"}
      Into(n) == {f \in given : t.role[f].as = n}
      value(n) == CHOOSE f \in Into(n) : f # n \/ Into(n) = {n}
  IN [n \in {t.role[f].as : f \in given} |->
        IF value(n) \in DOMAIN data THEN data[value(n)] ELSE Author]

\* Mutant: what the input validated fills the route as well.
SelectorParamsOverlaid(t, s) ==
  LET args == IF t.kind = "list" THEN Without(Rest(t, s), Paging) ELSE Rest(t, s)
  IN Under(args, Validated(t, Args(t, s)))

\* _dispatch_kwargs: the arguments under the validated values, less every route name,
\* then the author's defaults for the URL kwargs the call left out.
SelectorParams(t, s) ==
  LET args == IF t.kind = "list" THEN Without(Rest(t, s), Paging) ELSE Rest(t, s)
  IN Under(Without(Under(args, Validated(t, Args(t, s))), Routes(t)),
           [n \in (Fills(t) \cap Routes(t)) \ DOMAIN RouteValues(t, s) |-> Author])

\* drf-services: the seeds over the caller's values, the provider over both.
SeedsOf(t) ==
  [n \in Seeds \cup (IF HasLookup(t) THEN {"instance"} ELSE {})
               \cup (IF HasInput(t) /\ ~IsSelector(t) THEN {"data"} ELSE {})
     |-> Server]

Pooled(t, values) ==
  Only(Under(Under(Without(values, Reserved), SeedsOf(t)),
             [n \in Filled(t) \cup Claimed(t) |-> Server]),
       Params(t))

LookupPool(t, s) ==
  Only(Under(Without(Under(Rest(t, s), RouteValues(t, s)), Reserved), [n \in Seeds |-> Server]),
       LookupKeys(t))

\* What the service's serializer is given: a name the lookup reads is withheld.  A seed
\* is the server's in any case, and no key.
Payload(t, s) == Without(Rest(t, s), LookupKeys(t) \ Reserved)

Pool(t, s) ==
  IF IsSelector(t) THEN Pooled(t, Under(SelectorParams(t, s), RouteValues(t, s)))
  ELSE IF ~t.spread THEN Pooled(t, <<>>)
  ELSE IF HasInput(t) THEN Pooled(t, Validated(t, Payload(t, s)))
  ELSE Pooled(t, Rest(t, s))

\* Mutant: the channels' names are forgotten, as the spec does not know them.
KnownInputs(t) ==
  Reserved \cup FieldNames(t) \cup Params(t) \cup LookupKeys(t)

\* The names a call may carry under REJECT; a selector's are checked beside its own
\* input_serializer, a service's by drf-services.
Known(t) ==
  Reserved \cup
    IF IsSelector(t) THEN FieldNames(t) \cup Params(t) \cup Routes(t) \cup Queries(t) \cup Paging
    ELSE FieldNames(t) \cup LookupKeys(t) \cup Routes(t) \cup Queries(t)
           \cup (IF t.spread /\ ~HasInput(t) THEN Params(t) ELSE {})

Closed(t) ==
  t.reject /\ IF IsSelector(t) THEN HasInput(t) ELSE HasInput(t) \/ ~(t.spread /\ t.takesAny)

\* The order in which a call can fail; "TypeError" is a callable run without a value.
CallChecks(t, s) ==
  LET delivered == IF IsSelector(t) THEN Under(SelectorParams(t, s), RouteValues(t, s))
                   ELSE Under(Rest(t, s), RouteValues(t, s))
      validating == IF IsSelector(t) THEN Args(t, s) ELSE Payload(t, s)
      missing == <<~(Asked(t) \subseteq DOMAIN delivered), "missing">>
      unknown == <<Closed(t) /\ ~(DOMAIN Args(t, s) \subseteq Known(t)), "unknown">>
      lookup == <<~(Is(t, "lookup", {"required"}) \subseteq DOMAIN LookupPool(t, s)),
                  "TypeError in the lookup">>
      invalid == <<~(Is(t, "field", {"required"}) \subseteq DOMAIN validating), "invalid">>
  IN << <<~(Is(t, "route", {"required"}) \subseteq DOMAIN Args(t, s)), "missing">> >>
       \o (IF IsSelector(t) THEN <<unknown, invalid, missing>>
           ELSE <<missing, unknown, lookup, invalid>>)
       \o << <<~(Required(t) \subseteq DOMAIN Pool(t, s)), "TypeError">> >>

Answer(t, s) == Verdict(CallChecks(t, s), "served")

-----------------------------------------------------------------------------
(* A declaration is registered or refused; a registered tool is called.    *)

InputsInit == tool \in Tools /\ standing = "declared" /\ sent = {}

Declare ==
  /\ standing = "declared"
  /\ standing' = Verdict(RegistrationChecks(tool), "registered")
  /\ UNCHANGED <<tool, sent>>

Call ==
  /\ standing = "registered"
  /\ sent' \in SUBSET Names
  /\ UNCHANGED <<tool, standing>>

InputsNext == Declare \/ Call

InputsSpec == InputsInit /\ [][InputsNext]_inputVars

-----------------------------------------------------------------------------
(* What the checks are for.                                                *)

Registered == standing = "registered"

\* Parameters a registered tool may still leave without a value: what registration
\* lets a catch-all require without a source, what a lookup requires under a name that
\* dispatch keeps to itself and fills for no lookup, and a parameter counted as filled
\* for a field that need not fill it, where nothing else asks the call for it.
Excused(t) ==
  (Required(t) \ Sources(t))
    \cup (Is(t, "lookup", {"required"}) \cap (Reserved \ Seeds))
    \cup {n \in Required(t) \cap FieldNames(t) :
            /\ ~IsSelector(t) \/ n \in Reserved
            /\ t.role[n].field \in {"optional", "read only"} \/ t.role[n].as # n}

\* No call runs a selector, or a service tool's target lookup, without a value for a
\* parameter it requires: such a call is refused for what it left out.
NeverCalledShort ==
  Registered /\ Excused(tool) = {} =>
    /\ IsSelector(tool) => Answer(tool, sent) # "TypeError"
    /\ Answer(tool, sent) # "TypeError in the lookup"

\* An argument the schema offers reaches everything declared under its name: the
\* callable's parameter, unless another field is bound to it, the lookup's key, the
\* payload's field.
OfferedArrives ==
  Registered /\ Answer(tool, sent) = "served" =>
    \A n \in sent \cap Offered(tool) :
      /\ /\ n \in (IF IsSelector(tool) THEN Reflected(tool) ELSE OwnOffered(tool)) \ Claimed(tool)
         /\ \A f \in CallerFields(tool) : tool.role[f].as = n => f = n
         => n \in DOMAIN Pool(tool, sent) /\ Pool(tool, sent)[n] = Of(n)
      /\ n \in LookupKeys(tool) \ Reserved =>
           n \in DOMAIN LookupPool(tool, sent) /\ LookupPool(tool, sent)[n] = Of(n)
      /\ n \in CallerFields(tool) /\ ~IsSelector(tool) => n \in DOMAIN Payload(tool, sent)

\* A seed or a provider's key is never the caller's, under any argument's name; a
\* server-bound name is never the caller's argument of that name.
SeedsAreTheServers ==
  Registered =>
    LET pool == Pool(tool, sent)
    IN \A n \in DOMAIN pool :
         /\ n \in Reserved \cup Filled(tool) => pool[n] = Server
         /\ n \in ServerNames(tool) => pool[n] # Of(n)

\* A selector, and a service tool's target lookup, read the route the permissions
\* judged: the caller's URL kwarg or what the author declared, never the value of
\* another argument.
RouteAsJudged ==
  Registered =>
    LET pool == IF IsSelector(tool) THEN Pool(tool, sent) ELSE LookupPool(tool, sent)
    IN \A n \in DOMAIN pool \cap Routes(tool) : pool[n] \in {Of(n), Server, Author}

\* Both: what the server and the judged route own, no argument of another name becomes.
AuthorityKept == SeedsAreTheServers /\ RouteAsJudged

\* A call that carries what the schema requires and nothing it does not offer is not
\* refused for its names.
SchemaIsKept ==
  /\ Registered
  /\ Excused(tool) = {}
  /\ MustSend(tool) \subseteq sent
  /\ sent \subseteq Offered(tool)
  =>
    Answer(tool, sent) = "served"

\* Both: the schema is kept in each direction; what it offers is accepted, and arrives.
OfferKept == OfferedArrives /\ SchemaIsKept

=============================================================================
