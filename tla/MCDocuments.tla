---------------------------- MODULE MCDocuments ----------------------------
(***************************************************************************)
(* The instance of Documents that TLC explores: a namespace, the one above *)
(* it and the one below it, hosted, bound to a repository, redirected or   *)
(* retired; documents of both sizes, and of terms of two hosts of which    *)
(* some share a local name, or a host too.                                 *)
(***************************************************************************)
EXTENDS Documents

Namespace(prefix, kind, source, forge) ==
    [prefix |-> prefix, kind |-> kind, source |-> source, forge |-> forge]
Holding(limit, namespaces) == [kind |-> "registry", limit |-> limit, namespaces |-> namespaces]

above == <<"a">>
middle == <<"a", "b">>
below == <<"a", "b", "c">>

Hosts(prefix, source) == Namespace(prefix, "hosted", source, None)

MCRegistries == {
    Broken,
    Holding(1, {Hosts(middle, "s1")}),
    Holding(2, {Hosts(middle, "s1")}),
    Holding(2, {Hosts(above, "s2")}),
    Holding(2, {Hosts(below, "s2")}),
    Holding(1, {Namespace(middle, "redirect", None, None)}),
    Holding(2, {Namespace(middle, "retired", None, None)})}

MCTerm(host, path, local) == [iri |-> <<host, path, local>>, host |-> host, local |-> local]
MCText(size, form, active, rows) ==
    [kind |-> "text", size |-> size, form |-> form, active |-> active, rows |-> rows]

MCTexts == {
    MCText(1, "turtle", FALSE, <<MCTerm("y", "v1", "weapon"), MCTerm("x", "v1", "weapon"),
                             MCTerm("x", "v2", "weapon"), MCTerm("x", "v1", "weapon"),
                             MCTerm("x", "v1", "core")>>),
    MCText(1, "ntriples", FALSE, <<MCTerm("y", "v1", "core")>>),
    MCText(2, "turtle", TRUE, << >>)}

MCPast(held, texts) ==
    {[registry |-> held, documents |-> [source \in Source |-> text]] : text \in texts}

MCPasts ==
    MCPast(Holding(2, {Hosts(middle, "s1")}), MCTexts \cup {Gone})
    \cup MCPast(Holding(2, {Namespace(above, "hosted", "s1", "dated")}), MCTexts \cup {Gone})
    \cup UNION {MCPast(held, {CHOOSE text \in MCTexts : text.size = 1}) : held \in {
        Gone, Broken,
        Holding(1, {Namespace(middle, "hosted", "s1", "undated")}),
        Holding(1, {Namespace(above, "redirect", None, None)})}}

MCConverts == {<<"turtle", "jsonld">>, <<"ntriples", "turtle">>}

MCAsk(face, path, wanted, asOf, tenant, term, view) ==
    [face |-> face, path |-> path, wanted |-> wanted, past |-> asOf, tenant |-> tenant,
     term |-> term, view |-> view]

MCQuestions ==
    {MCAsk("document", middle, wanted, asOf, None, None, None) :
        wanted \in {"turtle", "jsonld", "html"}, asOf \in BOOLEAN}
    \cup {MCAsk("document", below, "html", FALSE, "x", term, None) :
        term \in {None, "weapon", "core"}}
    \cup {MCAsk("document", middle, "html", FALSE, "x", "weapon", "other")}
    \cup {MCAsk("docs", middle, "html", FALSE, "x", "weapon", view) :
        view \in {None, "page", "other"}}
    \cup {MCAsk("docs", above, "html", FALSE, None, None, None)}
=============================================================================
