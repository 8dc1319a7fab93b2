----------------------------- MODULE Documents -----------------------------
(***************************************************************************)
(* A namespace's document in the form asked for: as it is stored,          *)
(* converted, or as a page about its terms, now or as of a date.  A        *)
(* request reads the registry, then the document; a page reads the         *)
(* registry once more before it, and a question about the past reads       *)
(* today's registry for its limits and that date's for the namespace.      *)
(* Registries are edited and documents replaced between any two reads.     *)
(* From src/src/document.rs, src/src/docs.rs and src/src/git.rs.           *)
(*                                                                         *)
(* Abstractions.  One request, as answering changes nothing for another    *)
(* but the names counted.  The past is one date: Resolution shows that     *)
(* what is read of it does not change.  A document is its size, its media  *)
(* type and the rows a query about its terms answers, in their order, each *)
(* a term's IRI with its host and its local name, which other terms may    *)
(* share: a term has a row for every way its optional parts combine.       *)
(* Those parts, how a page looks, and what a converter writes, are left    *)
(* out.                                                                    *)
(***************************************************************************)
EXTENDS Paths, SequencesExt

CONSTANTS
    Source,      \* the resources registries name as sources and origins
    Registries,  \* what a registry may hold
    Texts,       \* what a document may hold
    Converts,    \* the pairs of types a chain of converters leads between
    Questions,   \* what is asked
    Pasts,       \* what registry and documents may have held at the date
    MaxEdits,    \* bound on the edits of the registry and the documents
    None,        \* no value, where the code has an option
    Turtle, Html \* the types the code names

Gone == [kind |-> "gone"]
Broken == [kind |-> "broken"]

\* A registry that loads, of namespaces that know their document.
IsRegistry(held) ==
    /\ held.limit \in Nat
    /\ \A ns \in held.namespaces :
          /\ ns.prefix # None
          /\ ns.kind \in {"hosted", "redirect", "retired"}
          /\ ns.kind = "hosted" => ns.source \in Source

ASSUME DocumentsAssumption ==
    /\ MaxEdits \in Nat
    /\ Turtle # Html
    /\ \A held \in Registries \ {Broken} : IsRegistry(held)
    /\ Gone \notin Texts
    /\ \A text \in Texts :
          /\ text = [kind |-> text.kind, size |-> text.size, form |-> text.form,
                     active |-> text.active, rows |-> text.rows]
          /\ text.size \in Nat /\ text.active \in BOOLEAN
          /\ text.rows \in Seq(ToSet(text.rows))
    /\ \A held \in Pasts :
          /\ held.registry \notin {Gone, Broken} => IsRegistry(held.registry)
          /\ held.documents \in [Source -> Texts \cup {Gone}]
    /\ \A question \in Questions :
          question.face \in {"document", "docs"} /\ question.past \in BOOLEAN

VARIABLES
    registry,   \* the registry as it is
    documents,  \* per source, its document as it is, or Gone
    past,       \* the registry and the documents of the date
    request,    \* the request under way, or the last one answered
    edits       \* how many edits were made

vars == <<registry, documents, past, request, edits>>

-----------------------------------------------------------------------------
(* What a registry says of a path. *)

\* FAULT: a namespace below the path answers for it too.
LookupOverlapping(held, path) == {ns \in held.namespaces : Overlaps(ns.prefix, path)}

\* The namespace claiming a path, if there is one: no two that load overlap.
Lookup(held, path) == {ns \in held.namespaces : Covers(ns.prefix, path)}

Answer(kind) == [kind |-> kind, prefix |-> None, source |-> None, form |-> None,
                 text |-> Gone, own |-> << >>, elsewhere |-> << >>, detail |-> None]

\* "since" and "counted" are for the properties: the registries in force since the request
\* came, and the namespace its name was counted under.
Asked(question) ==
    [pc |-> "load", question |-> question, limits |-> Broken, prefix |-> None,
     source |-> None, forge |-> None, answer |-> Answer("none"),
     since |-> {registry}, counted |-> None]

Finish(answer, counted) ==
    request' = [request EXCEPT !.pc = "answered", !.answer = answer, !.counted = counted]

Refuse(kind) == Finish(Answer(kind), None)

\* A page is about the present alone.  The page's own face takes a namespace.
Ask(question) ==
    /\ request.pc \in {"idle", "answered"}
    /\ request' =
          IF question.past /\ (question.face = "docs" \/ question.wanted = Html)
          THEN [Asked(question) EXCEPT !.pc = "answered", !.answer = Answer("refused")]
          ELSE IF question.face = "docs"
          THEN [Asked(question) EXCEPT !.pc = "page", !.prefix = question.path]
          ELSE Asked(question)
    /\ UNCHANGED <<registry, documents, past, edits>>

-----------------------------------------------------------------------------
(* The document. *)

\* A redirect is an error that says where to, and its name is counted, but for the past.
ResolveIn(held) ==
    LET question == request.question
        found == Lookup(held, question.path)
        ns == CHOOSE ns \in found : TRUE
    IN  IF found = {} THEN Refuse("not found")
        ELSE IF ns.kind = "retired" THEN Refuse("not found")
        ELSE IF ns.kind = "redirect"
        THEN Finish([Answer("redirect") EXCEPT !.prefix = ns.prefix],
                    IF question.past THEN None ELSE ns.prefix)
        ELSE request' = [request EXCEPT
                !.pc = IF question.wanted = Html THEN "page" ELSE "read",
                !.prefix = ns.prefix, !.source = ns.source, !.forge = ns.forge,
                !.limits = IF question.past THEN @ ELSE held]

\* Today's registry, whatever is asked: its limits hold for the past too.
Load ==
    /\ request.pc = "load"
    /\ IF registry = Broken THEN Refuse("error")
       ELSE IF request.question.past
       THEN request' = [request EXCEPT !.pc = "load past", !.limits = registry]
       ELSE ResolveIn(registry)
    /\ UNCHANGED <<registry, documents, past, edits>>

\* FAULT: a past path is looked up in today's registry.
LoadPastToday ==
    /\ request.pc = "load past"
    /\ CASE past.registry = Gone -> Refuse("not found")
         [] past.registry = Broken -> Refuse("error")
         [] OTHER -> ResolveIn(request.limits)
    /\ UNCHANGED <<registry, documents, past, edits>>

\* The namespace of a past question, in the registry as it stood.
LoadPast ==
    /\ request.pc = "load past"
    /\ CASE past.registry = Gone -> Refuse("not found")
         [] past.registry = Broken -> Refuse("error")
         [] OTHER -> ResolveIn(past.registry)
    /\ UNCHANGED <<registry, documents, past, edits>>

\* FAULT: a past document is held to the limits of its date.
CeilingThen == IF request.question.past THEN past.registry.limit ELSE request.limits.limit

Ceiling == request.limits.limit

\* The bytes of a past document come from its own repository's history, if it has one
\* that can be listed by date, and then are Turtle and never of a type a browser would run.
Stored ==
    IF ~request.question.past THEN documents[request.source]
    ELSE IF request.forge = None THEN past.documents[request.source]
    ELSE LET text == past.documents[request.source]
         IN  IF text = Gone THEN Gone
             ELSE IF request.forge = "undated" \/ text.active THEN Broken
             ELSE [text EXCEPT !.form = Turtle]

\* FAULT: a name is counted before its document is converted.
CountedEarly(ok) == IF request.question.past THEN None ELSE request.prefix

\* A name is counted when it was answered for, and not in the past.
Counted(ok) == IF ok /\ ~request.question.past THEN request.prefix ELSE None

\* The document, below the ceiling, as it is or through a chain of converters.
Read ==
    /\ request.pc = "read"
    /\ LET text == Stored
           wanted == request.question.wanted
           served == /\ text \notin {Gone, Broken}
                     /\ text.size <= Ceiling
                     /\ text.form = wanted \/ <<text.form, wanted>> \in Converts
       IN  Finish(IF text = Gone THEN Answer("not found")
                  ELSE IF ~served THEN Answer("error")
                  ELSE [Answer("document") EXCEPT !.prefix = request.prefix,
                          !.source = request.source, !.form = wanted, !.text = text],
                  Counted(served))
    /\ UNCHANGED <<registry, documents, past, edits>>

-----------------------------------------------------------------------------
(* The page. *)

\* FAULT: the page takes the source the document's face found, which its own has not.
LoadPageOnce ==
    /\ request.pc = "page"
    /\ request' = [request EXCEPT !.pc = "terms"]
    /\ UNCHANGED <<registry, documents, past, edits>>

\* The page reads the registry as it is by then, and so may find another namespace than
\* the document's face did.
LoadPage ==
    LET found == Lookup(registry, request.prefix)
        ns == CHOOSE ns \in found : TRUE
    IN  /\ request.pc = "page"
        /\ IF registry = Broken THEN Refuse("error")
           ELSE IF found = {} \/ ns.kind = "retired" THEN Refuse("not found")
           ELSE IF ns.kind = "redirect" THEN Refuse("error")
           ELSE request' = [request EXCEPT !.pc = "terms", !.source = ns.source]
        /\ UNCHANGED <<registry, documents, past, edits>>

\* What a sequence holds at some of its places, in its order.
At(places, seq) ==
    FlattenSeq([i \in DOMAIN seq |-> IF i \in places THEN <<seq[i]>> ELSE << >>])

\* The terms of a document, each once, where its first row stands.
TermsOf(text) ==
    LET rows == text.rows
    IN  At({i \in DOMAIN rows : \A j \in 1..(i - 1) : rows[j] # rows[i]}, rows)

\* Whose a term is: the tenant's when it is on its host, and everyone's without tenants.
BelongsTo(term, tenant) == tenant = None \/ term.host = tenant

\* FAULT: a term is looked for among all the document names.
SelectableAll(terms, tenant) == terms

\* The terms a link may ask for, and those that live elsewhere.
Selectable(terms, tenant) == At({i \in DOMAIN terms : BelongsTo(terms[i], tenant)}, terms)
Referenced(terms, tenant) == At({i \in DOMAIN terms : ~BelongsTo(terms[i], tenant)}, terms)

\* The first of a name, or none.
TermNamed(terms, local) ==
    LET at == SelectInSeq(terms, LAMBDA term : term.local = local)
    IN  IF at = 0 THEN None ELSE terms[at]

\* The view the page is asked for.  The document's face asks for a term's whole page, and
\* passes no view of its question on.
View(question) ==
    IF question.face = "docs" THEN question.view
    ELSE IF question.term = None THEN None ELSE "page"

\* The page lists the terms of the host, and apart from them those that live elsewhere.
\* A page that answers a document's path is counted as that path.
Terms ==
    LET question == request.question
        text == documents[request.source]
        tenant == question.tenant
        terms == TermsOf(text)
        detail == TermNamed(Selectable(terms, tenant), question.term)
        whole == View(question) = "page" \/ question.term = None
        page == [Answer(IF whole THEN "page" ELSE "fragment") EXCEPT
                    !.prefix = request.prefix, !.source = request.source, !.text = text,
                    !.own = IF whole THEN Selectable(terms, tenant) ELSE << >>,
                    !.elsewhere = IF whole THEN Referenced(terms, tenant) ELSE << >>,
                    !.detail = IF question.term = None THEN None ELSE detail]
    IN  /\ request.pc = "terms"
        /\ IF text = Gone \/ View(question) = "other" THEN Refuse("error")
           ELSE IF question.term # None /\ detail = None THEN Refuse("not found")
           ELSE Finish(page, IF question.face = "document" THEN request.prefix ELSE None)
        /\ UNCHANGED <<registry, documents, past, edits>>

-----------------------------------------------------------------------------
(* What goes on meanwhile. *)

EditRegistry(held) ==
    /\ edits < MaxEdits /\ held # registry
    /\ edits' = edits + 1
    /\ registry' = held
    /\ request' = IF request.pc \in {"idle", "answered"} THEN request
                  ELSE [request EXCEPT !.since = @ \cup {held}]
    /\ UNCHANGED <<documents, past>>

Replace(source, text) ==
    /\ edits < MaxEdits /\ text # documents[source]
    /\ edits' = edits + 1
    /\ documents' = [documents EXCEPT ![source] = text]
    /\ UNCHANGED <<registry, past, request>>

Init ==
    /\ past \in Pasts
    /\ registry \in Registries
    /\ documents \in [Source -> Texts]
    /\ request = [pc |-> "idle"]
    /\ edits = 0

Next ==
    \/ \E question \in Questions : Ask(question)
    \/ Load
    \/ LoadPast
    \/ Read
    \/ LoadPage
    \/ Terms
    \/ \E held \in Registries : EditRegistry(held)
    \/ \E source \in Source, text \in Texts \cup {Gone} : Replace(source, text)

Spec == Init /\ [][Next]_vars

-----------------------------------------------------------------------------
(* Properties. *)

\* A request carries a question, and once answered an answer to it.
TypeOK ==
    /\ registry \in Registries
    /\ documents \in [Source -> Texts \cup {Gone}]
    /\ past \in Pasts
    /\ request.pc \in {"idle", "load", "load past", "read", "page", "terms", "answered"}
    /\ request.pc # "idle" =>
          /\ request.question \in Questions
          /\ request.since \subseteq Registries /\ request.since # {}
          /\ request.answer.kind = "none" <=> request.pc # "answered"
          /\ request.pc \in {"read", "terms"} => request.source \in Source
    /\ edits \in 0..MaxEdits

Answered(kinds) == request.pc = "answered" /\ request.answer.kind \in kinds

\* Nothing larger than this deployment's own ceiling leaves as a document, of the present
\* or of a past whose registry allowed it.
TodaysCeiling ==
    Answered({"document"}) =>
        \E held \in request.since \ {Broken} : request.answer.text.size <= held.limit

\* What the registry and the documents held at the date is what a question about it is
\* answered from, whatever is claimed, edited or removed since or while it is answered.
PastStaysPut ==
    (Answered({"document", "redirect", "page", "fragment"}) /\ request.question.past) =>
        \E ns \in past.registry.namespaces :
            /\ Covers(ns.prefix, request.question.path)
            /\ request.answer.prefix = ns.prefix
            /\ IF request.answer.kind = "redirect" THEN ns.kind = "redirect"
               ELSE /\ request.answer.kind = "document" /\ ns.kind = "hosted"
                    /\ request.answer.text.rows = past.documents[ns.source].rows

\* A document or page served now is the source's of a namespace that held the path asked
\* for in one registry in force since it was asked, although the registry is read twice.
ServedByItsNamespace ==
    (Answered({"document", "page", "fragment"}) /\ ~request.question.past) =>
        \E held \in request.since \ {Broken} : \E ns \in held.namespaces :
            /\ ns.kind = "hosted" /\ ns.source = request.answer.source
            /\ Covers(ns.prefix, request.question.path)

\* A tenant's page defines no term of another host, in its list or in a term's detail, and
\* names every term of its document exactly once, however many rows tell of it.
OwnTermsOnly ==
    Answered({"page", "fragment"}) =>
        LET tenant == request.question.tenant
            listed == request.answer.own \o request.answer.elsewhere
        IN  /\ tenant # None =>
                  \A term \in ToSet(request.answer.own) \cup ({request.answer.detail} \ {None}) :
                      term.host = tenant
            /\ request.answer.kind = "page" =>
                  /\ ToSet(listed) = ToSet(request.answer.text.rows)
                  /\ IsInjective(listed)

\* A name is counted exactly when its document or page was answered, or it was sent on to
\* where it is served, and under a namespace that holds it: not in the past, nor when the
\* answer was refused, nor for the page's own face.
CountedWhenAnswered ==
    request.pc = "answered" =>
        /\ request.counted # None <=>
              /\ request.answer.kind \in {"document", "page", "redirect"}
              /\ request.question.face = "document" /\ ~request.question.past
        /\ request.counted # None =>
              \E held \in request.since \ {Broken} : \E ns \in held.namespaces :
                  ns.prefix = request.counted /\ Covers(ns.prefix, request.question.path)
=============================================================================
