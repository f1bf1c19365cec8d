---------------------------- MODULE MCCatalogue ----------------------------
(* Declarations of tools, resources and prompts for TLC.                     *)
EXTENDS Catalogue

T(name, kind, steps) ==
  [name |-> name, kind |-> kind, perms |-> {"staff"}, described |-> TRUE, documented |-> TRUE,
   link |-> NoLink, media |-> FALSE, schema |-> "unset", content |-> "unset", kinded |-> TRUE,
   paginated |-> TRUE, steps |-> steps, always |-> FALSE, flaws |-> {}]

St(cond, opens) == [cond |-> cond, opens |-> opens]

Post == [T("post", "service", <<St("open", {})>>) EXCEPT !.always = TRUE]
Close == T("close", "chain", <<St("none", {"open"}), St("open", {})>>)
Rates == [T("rates", "list", <<>>) EXCEPT !.perms = {}, !.described = FALSE, !.paginated = FALSE,
                                          !.link = "ui://rates/1"]
Chart == [T("chart", "retrieve", <<>>) EXCEPT !.media = TRUE, !.paginated = FALSE,
                                              !.link = "ui://rates/1"]
Mute == [T("mute", "list", <<>>) EXCEPT !.content = "off"]

MCTools == {Post, Close, Rates, Chart, Mute}

R(uri, kind, mime, matches, perms) ==
  [uri |-> uri, kind |-> kind, mime |-> mime, matches |-> matches, perms |-> perms,
   always |-> FALSE, flaws |-> {}, kinded |-> TRUE]

MCResources ==
  {R("ui://rates/{n}", "view", "view", {"ui://rates/1"}, {}),
   R("ui://rates/1", "resource", "json", {"ui://rates/1"}, {"staff"})}

MCPrompts ==
  {[name |-> "ask", perms |-> {"staff"}, always |-> FALSE, flaws |-> {}],
   [name |-> "open", perms |-> {}, always |-> TRUE, flaws |-> {"permissions shape"}]}

MCBulks ==
  {[decls |-> <<Post, Mute, Close>>, defaults |-> [content |-> "on"], unknown |-> FALSE]}

MCSettings ==
  {[filter |-> b, permissions |-> b, descriptions |-> b, pagination |-> b,
    schema |-> TRUE, content |-> TRUE] : b \in BOOLEAN}
=============================================================================
