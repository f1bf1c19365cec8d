------------------------------ MODULE Registry ------------------------------
(***************************************************************************)
(* What a server can be asked for: its tools, resources and prompts, each  *)
(* registered or refused at startup by the checks of its registrar.        *)
(*                                                                         *)
(* A declaration carries as fields what other declarations, the settings   *)
(* or a listing read.  What only its own registrar reads is one member of  *)
(* its set of flaws, named for the check that refuses it; the checks of    *)
(* its inputs are the module Inputs.                                       *)
(***************************************************************************)
EXTENDS Checks, Integers, Selections

CONSTANTS
  ToolDecls,      \* tool declarations: name, kind, perms, described, documented, link,
                  \* media, schema, content, kinded, paginated, steps, always, flaws
  ResourceDecls,  \* resource declarations: uri, kind, mime, matches, perms, always,
                  \* flaws
  PromptDecls,    \* prompt declarations: name, perms, always, flaws
  Bulks,          \* what is registered in one call: the declarations, the defaults
                  \* laid under them, whether an override names none of them
  Settings,       \* the settings a server is built with
  NoLink          \* the link of a tool with no view

VARIABLES
  setting,    \* this server's settings, fixed when it is built
  tools,      \* the registered tools, in registration order
  resources,  \* the registered resources and views, in registration order
  prompts     \* the registered prompts, in registration order

registryVars == <<setting, tools, resources, prompts>>

\* One call registers a list of declarations.
ASSUME BulksAssumption == \A b \in Bulks : b.decls \in Seq(ToolDecls)

RegistryInit ==
  /\ setting \in Settings
  /\ tools = <<>> /\ resources = <<>> /\ prompts = <<>>

-----------------------------------------------------------------------------
(* Resolution and the effective values of a binding.                       *)

Concrete == Selected(resources, {b \in ToSet(resources) : b.uri \in b.matches})
Templates == Selected(resources, {b \in ToSet(resources) : b.uri \notin b.matches})

\* ResourceRegistry.resolve: the concrete resources before the templates, each in
\* registration order.
Resolved(uri) ==
  Selected(Concrete \o Templates, {b \in ToSet(resources) : uri \in b.matches})

\* A tri-state override over the server's setting.
Effective(override, default) == IF override = "unset" THEN default ELSE override = "on"

AdvertisesSchema(t) == Effective(t.schema, setting.schema)
EmitsContent(t) == Effective(t.content, setting.content)

\* resolve_structured_output raises.
Unresolvable(t) == AdvertisesSchema(t) /\ ~EmitsContent(t)

\* What the result of a call carries: media blocks have no structuredContent.
CarriesContent(t) == EmitsContent(t) /\ ~t.media

-----------------------------------------------------------------------------
(* The checks of a tool's registrar, in order.  held: the tools registered *)
(* before this one.                                                        *)

Flaw(d, what) == <<what \in d.flaws, what>>

\* Mutant: a link is checked against everything registered, not the views.
LinkChecksAnyResource(t) ==
  << Flaw(t, "two ui"), <<t.link # NoLink /\ Resolved(t.link) = <<>>, "no view">>,
     <<t.link # NoLink /\ ~EmitsContent(t), "blank view">> >>

\* build_ui_tool_meta.
LinkChecks(t) ==
  << Flaw(t, "two ui"),
     <<t.link # NoLink /\ (Resolved(t.link) = <<>> \/ Head(Resolved(t.link)).mime # "view"),
       "no view">>,
     <<t.link # NoLink /\ ~EmitsContent(t), "blank view">> >>

\* __post_init__ of a service tool's or a selector tool's binding.
OutputChecks(t) ==
  << <<t.schema = "on" /\ t.content = "off", "schema without content">>,
     <<t.kind = "retrieve" /\ t.paginated, "paginated retrieve">>,
     Flaw(t, "media without mime type"),
     <<t.media /\ (t.schema = "on" \/ t.content = "on"), "media with content">> >>

\* check_tool_permissions_declared and check_tool_description_present: an error or a
\* warning, by the settings.
DeclaredChecks(t) ==
  << <<t.perms = {} /\ setting.permissions, "unguarded">>,
     <<~t.described /\ setting.descriptions, "undescribed">> >>

\* ToolRegistry.register.
HeldChecks(t, held) ==
  << <<\E i \in DOMAIN held : held[i].name = t.name, "duplicate">>,
     Flaw(t, "server arguments") >>

ServiceToolChecks(t, held) ==
  << Flaw(t, "caller wins"), Flaw(t, "passthrough") >> \o LinkChecks(t)
    \o << Flaw(t, "output format"), Flaw(t, "permissions shape"), Flaw(t, "inputs") >>
    \o OutputChecks(t) \o << Flaw(t, "unreadable annotation"), Flaw(t, "channels") >>
    \o DeclaredChecks(t) \o << <<Unresolvable(t), "schema without content">>,
                                Flaw(t, "does not compile") >>
    \o HeldChecks(t, held)

\* Mutant: the registrar leaves the pair of overrides to the listing.
SelectorToolChecksLazy(t, held) ==
  << Flaw(t, "caller wins"), Flaw(t, "passthrough") >> \o LinkChecks(t)
    \o << Flaw(t, "output format"), Flaw(t, "permissions shape"),
          Flaw(t, "no selector"), Flaw(t, "inputs") >>
    \o OutputChecks(t) \o << Flaw(t, "channels"), Flaw(t, "parameter names") >>
    \o DeclaredChecks(t)
    \o << <<t.kind = "list" /\ ~t.paginated /\ setting.pagination, "unpaginated">>,
          Flaw(t, "does not compile") >>
    \o HeldChecks(t, held)

SelectorToolChecks(t, held) ==
  << Flaw(t, "caller wins"), Flaw(t, "passthrough") >> \o LinkChecks(t)
    \o << Flaw(t, "output format"), Flaw(t, "permissions shape"),
          Flaw(t, "no selector"), Flaw(t, "inputs") >>
    \o OutputChecks(t) \o << Flaw(t, "channels"), Flaw(t, "parameter names") >>
    \o DeclaredChecks(t)
    \o << <<Unresolvable(t), "schema without content">>,
          <<t.kind = "list" /\ ~t.paginated /\ setting.pagination, "unpaginated">>,
          Flaw(t, "does not compile") >>
    \o HeldChecks(t, held)

\* ChainToolBinding.__post_init__.
ChainShapeChecks(t) ==
  << <<t.steps = <<>>, "no steps">>, Flaw(t, "duplicate alias"), Flaw(t, "not a spec"),
     Flaw(t, "many first"), Flaw(t, "two outputs"), Flaw(t, "unknown output"),
     Flaw(t, "unanswered affordances"), Flaw(t, "misplaced permissions") >>
    \o OutputChecks(t)

ChainToolChecks(t, held) ==
  << Flaw(t, "passthrough") >> \o LinkChecks(t)
    \o << Flaw(t, "output format"), Flaw(t, "permissions shape") >>
    \o ChainShapeChecks(t) \o << Flaw(t, "inputs") >>
    \o DeclaredChecks(t) \o << <<Unresolvable(t), "schema without content">>,
                                Flaw(t, "does not compile") >>
    \o HeldChecks(t, held)

ToolVerdict(t, held) ==
  Verdict(IF t.kind = "service" THEN ServiceToolChecks(t, held)
          ELSE IF t.kind = "chain" THEN ChainToolChecks(t, held)
          ELSE SelectorToolChecks(t, held), "registered")

-----------------------------------------------------------------------------
(* The checks of resources, views and prompts.                             *)

NewUri(b) == \A i \in DOMAIN resources : resources[i].uri # b.uri

\* register_resource, selector_to_resource.
ResourceChecks(b) ==
  << Flaw(b, "permissions shape"), Flaw(b, "not a spec"), Flaw(b, "no selector"),
     Flaw(b, "uncarried field"), Flaw(b, "serializer shape"), Flaw(b, "reserved variable"),
     Flaw(b, "unknown completion"), <<b.perms = {} /\ setting.permissions, "unguarded">>,
     <<~NewUri(b), "duplicate">> >>

\* register_ui_resource, ui_view_to_resource: a view may be left unguarded.
ViewChecks(b) ==
  << Flaw(b, "permissions shape"), Flaw(b, "not one source"), Flaw(b, "sees the caller"),
     Flaw(b, "two ui"), <<~NewUri(b), "duplicate">> >>

PromptChecks(b) ==
  << Flaw(b, "permissions shape"), Flaw(b, "unknown completion"),
     <<b.perms = {} /\ setting.permissions, "unguarded">>,
     <<\E i \in DOMAIN prompts : prompts[i].name = b.name, "duplicate">> >>

-----------------------------------------------------------------------------
(* Registration.  A refusal raises and leaves the registries as they were. *)

RegisterTool(t) ==
  /\ ToolVerdict(t, tools) = "registered"
  /\ tools' = Append(tools, t)
  /\ UNCHANGED <<setting, resources, prompts>>

\* The decorators: the docstring where no description is given; a selector's kind is
\* required where the decorator builds the spec.
Documented(t) == [t EXCEPT !.described = @ \/ t.documented]

DecorateTool(t) ==
  /\ t.kind # "chain"
  /\ t.kind \in {"list", "retrieve"} => t.kinded
  /\ RegisterTool(Documented(t))

\* register_tools: what a declaration leaves unset, the defaults of its kind set.
WithDefaults(t, defaults) ==
  [t EXCEPT !.content = IF @ = "unset" THEN defaults.content ELSE @]

\* How many of the declarations are registered before the first refusal.
Accepted(ts) ==
  LET refused == {i \in 1..Len(ts) :
                    ToolVerdict(ts[i], tools \o SubSeq(ts, 1, i - 1)) # "registered"}
  IN IF refused = {} THEN Len(ts) ELSE Min(refused) - 1

\* What a loop over the declarations leaves: it is not transactional.
RegisterAll(ts) ==
  /\ tools' = tools \o SubSeq(ts, 1, Accepted(ts))
  /\ UNCHANGED <<setting, resources, prompts>>

\* register_tools.
RegisterTools(b) == RegisterAll([i \in DOMAIN b.decls |-> WithDefaults(b.decls[i], b.defaults)])

\* register_specs: overrides that name no spec refuse the whole call; an entry of a kind
\* this server cannot dispatch ends it there.
RegisterSpecs(b) ==
  /\ ~b.unknown
  /\ LET foreign == {i \in DOMAIN b.decls : b.decls[i].kind \notin {"service", "list", "retrieve"}}
     IN RegisterAll(IF foreign = {} THEN b.decls ELSE SubSeq(b.decls, 1, Min(foreign) - 1))

RegisterResource(b) ==
  /\ Verdict(IF b.kind = "view" THEN ViewChecks(b) ELSE ResourceChecks(b), "registered")
       = "registered"
  /\ resources' = Append(resources, b)
  /\ UNCHANGED <<setting, tools, prompts>>

\* The decorator of resources.
DecorateResource(b) == b.kind = "resource" /\ b.kinded /\ RegisterResource(b)

RegisterPrompt(b) ==
  /\ Verdict(PromptChecks(b), "registered") = "registered"
  /\ prompts' = Append(prompts, b)
  /\ UNCHANGED <<setting, tools, resources>>

RegistryNext ==
  \/ \E t \in ToolDecls : RegisterTool(t) \/ DecorateTool(t)
  \/ \E b \in Bulks : RegisterTools(b) \/ RegisterSpecs(b)
  \/ \E b \in ResourceDecls : RegisterResource(b) \/ DecorateResource(b)
  \/ \E b \in PromptDecls : RegisterPrompt(b)

-----------------------------------------------------------------------------
(* What the checks are for.                                                *)

TheTools == {tools[i] : i \in DOMAIN tools}

\* No registered tool makes a listing raise: tools/list resolves every tool's pair of
\* overrides again, and one that cannot be resolved would take the catalogue with it.
ListingNeverRaises == \A t \in TheTools : ~Unresolvable(t)

\* The link of a registered tool is answered with a view, unless a concrete resource
\* was registered over the template the link resolved to.
LinksResolve ==
  \A t \in TheTools : t.link # NoLink =>
    /\ Resolved(t.link) # <<>>
    /\ \/ Head(Resolved(t.link)).mime = "view"
       \/ \E i \in DOMAIN Templates :
            Templates[i].mime = "view" /\ t.link \in Templates[i].matches

\* Both: registration holds at startup what a listing or a host meets later.
RegistrationHolds == ListingNeverRaises /\ LinksResolve

\* A tool that links to a view emits the structuredContent the view renders from: what
\* build_ui_tool_meta says it refuses otherwise.
LinkedToolsFeedTheirView == \A t \in TheTools : t.link # NoLink => CarriesContent(t)

=============================================================================
