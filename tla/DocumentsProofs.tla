-------------------------- MODULE DocumentsProofs --------------------------
(***************************************************************************)
(* Theorems about Documents, for every registry, document, question and    *)
(* converter and every number of edits.  The inductive invariant says what *)
(* a request may still rely on at each of its steps, when the registry it  *)
(* read a step ago may have been replaced since.                           *)
(***************************************************************************)
EXTENDS Documents, Recursion

Pc == {"idle", "load", "load past", "read", "page", "terms", "answered"}

\* The registries in force since a request came, that it may have read.
Held(r) == r.since \ {Broken}

\* A namespace of one of them covers the path asked for.
Holds(r, ns) ==
    Covers(ns.prefix, r.question.path) /\ \E held \in Held(r) : ns \in held.namespaces

\* A page's terms are of its tenant, or elsewhere, and each of its document's is there once.
TermsSound(answer, tenant) ==
    LET listed == answer.own \o answer.elsewhere
    IN  /\ tenant # None =>
              \A term \in ToSet(answer.own) \cup ({answer.detail} \ {None}) : term.host = tenant
        /\ answer.kind = "page" =>
              ToSet(listed) = ToSet(answer.text.rows) /\ IsInjective(listed)

\* What the answer of a request relies on.
AnswerSound(r, then) ==
    LET answer == r.answer
        question == r.question
    IN  /\ answer.kind # "none"
        /\ answer.kind = "document" =>
              \E held \in Held(r) : answer.text.size <= held.limit
        /\ (answer.kind \in {"document", "redirect", "page", "fragment"} /\ question.past) =>
              \E ns \in then.registry.namespaces :
                  /\ Covers(ns.prefix, question.path) /\ answer.prefix = ns.prefix
                  /\ IF answer.kind = "redirect" THEN ns.kind = "redirect"
                     ELSE /\ answer.kind = "document" /\ ns.kind = "hosted"
                          /\ answer.text.rows = then.documents[ns.source].rows
        /\ (answer.kind \in {"document", "page", "fragment"} /\ ~question.past) =>
              \E ns \in UNION {held.namespaces : held \in Held(r)} :
                  Holds(r, ns) /\ ns.kind = "hosted" /\ ns.source = answer.source
        /\ answer.kind \in {"page", "fragment"} => TermsSound(answer, question.tenant)
        /\ r.counted # None <=>
              /\ answer.kind \in {"document", "page", "redirect"}
              /\ question.face = "document" /\ ~question.past
        /\ r.counted # None =>
              \E ns \in UNION {held.namespaces : held \in Held(r)} :
                  Holds(r, ns) /\ ns.prefix = r.counted

\* What a request relies on before it is answered, of the registry and documents of then.
UnderWay(r, then) ==
    LET question == r.question
    IN  /\ r.answer = Answer("none") /\ r.counted = None
        /\ r.pc \in {"load", "load past", "read"} =>
              /\ question.face = "document"
              /\ question.past => question.wanted # Html
        /\ r.pc = "load past" => question.past
        /\ r.pc \in {"load past", "read"} => r.limits \in Held(r)
        /\ r.pc = "read" =>
              \E ns \in IF question.past THEN then.registry.namespaces ELSE r.limits.namespaces :
                  /\ Covers(ns.prefix, question.path) /\ ns.prefix = r.prefix
                  /\ ns.kind = "hosted" /\ ns.source = r.source /\ r.source \in Source
        /\ r.pc \in {"page", "terms"} =>
              /\ ~question.past
              /\ Covers(r.prefix, question.path)
              /\ question.face = "document" =>
                    \E ns \in UNION {held.namespaces : held \in Held(r)} :
                        Holds(r, ns) /\ ns.prefix = r.prefix
        /\ r.pc = "terms" =>
              /\ r.source \in Source
              /\ \E ns \in UNION {held.namespaces : held \in Held(r)} :
                     Holds(r, ns) /\ ns.kind = "hosted" /\ ns.source = r.source

RequestSound(r, then) ==
    /\ r = [pc |-> r.pc, question |-> r.question, limits |-> r.limits, prefix |-> r.prefix,
            source |-> r.source, forge |-> r.forge, answer |-> r.answer,
            since |-> r.since, counted |-> r.counted]
    /\ r.pc \in Pc \ {"idle"}
    /\ r.question \in Questions
    /\ r.since \subseteq Registries /\ r.since # {}
    /\ IF r.pc = "answered" THEN AnswerSound(r, then) ELSE UnderWay(r, then)

WorldOK ==
    /\ registry \in Registries
    /\ documents \in [Source -> Texts \cup {Gone}]
    /\ past \in Pasts
    /\ edits \in 0..MaxEdits

RequestOK ==
    \/ request = [pc |-> "idle"]
    \/ /\ RequestSound(request, past)
       /\ request.pc # "answered" => registry \in request.since

IInv == WorldOK /\ RequestOK

-----------------------------------------------------------------------------
(* Namespaces and answers. *)

LEMMA CoversOver ==
    ASSUME NEW above, NEW prefix, NEW path, Covers(above, prefix), Covers(prefix, path)
    PROVE  Covers(above, path)
  BY DEF Covers

\* A namespace found in a registry covers the path and is of the registry.
LEMMA Found ==
    ASSUME NEW held, IsRegistry(held), NEW path, Lookup(held, path) # {},
           NEW ns, ns = CHOOSE n \in Lookup(held, path) : TRUE
    PROVE  /\ ns \in held.namespaces /\ Covers(ns.prefix, path)
           /\ ns.prefix # None /\ ns.kind \in {"hosted", "redirect", "retired"}
           /\ ns.kind = "hosted" => ns.source \in Source
  <1>1. ns \in Lookup(held, path)
    OBVIOUS
  <1> QED BY <1>1 DEF Lookup, IsRegistry

\* A request that is not answered yet is one of the shape and has one to come.
LEMMA Waiting ==
    ASSUME IInv, request.pc \notin {"idle", "answered"}
    PROVE  /\ RequestSound(request, past) /\ UnderWay(request, past)
           /\ registry \in request.since
  BY DEF IInv, RequestOK, RequestSound

\* A refusal promises nothing and counts nothing.
LEMMA RefuseSound ==
    ASSUME IInv, request.pc \notin {"idle", "answered"},
           NEW kind \in {"refused", "not found", "error"}, Refuse(kind)
    PROVE  RequestSound(request', past)
  <1>1. RequestSound(request, past)
    BY Waiting
  <1>2. /\ request' = [request EXCEPT !.pc = "answered", !.answer = Answer(kind),
                                      !.counted = None]
        /\ Answer(kind).kind = kind
    BY DEF Refuse, Finish, Answer
  <1> QED BY <1>1, <1>2 DEF RequestSound, AnswerSound, Pc

\* What a step of a request does is sound when the request is, and nothing else moves.
LEMMA RequestOnly ==
    ASSUME IInv, UNCHANGED <<registry, documents, past, edits>>,
           RequestSound(request', past),
           request'.pc # "answered" => registry \in request'.since
    PROVE  IInv'
  BY DEF IInv, WorldOK, RequestOK

-----------------------------------------------------------------------------
(* The terms of a page. *)

LEMMA AtPlaces ==
    ASSUME NEW X, NEW seq \in Seq(X), NEW places, places \subseteq DOMAIN seq,
           NEW kept, kept = At(places, seq)
    PROVE  /\ kept \in Seq(X)
           /\ ToSet(kept) = {seq[k] : k \in places}
           /\ DOMAIN kept = 1..Len(kept)
           /\ \E at : Keeps(at, kept, seq, places)
  <1>1. DOMAIN seq = 1..Len(seq)
    OBVIOUS
  <1> DEFINE parts == [i \in DOMAIN seq |-> IF i \in places THEN <<seq[i]>> ELSE << >>]
  <1>2. Chosen(parts, X, seq, places)
    BY <1>1 DEF Chosen
  <1>3. kept = FlattenSeq(parts)
    BY DEF At
  <1> HIDE DEF parts
  <1>4. kept \in Seq(X) /\ \E at : Keeps(at, kept, seq, places)
    BY <1>2, <1>3, FlattenPlaces
  <1>5. DOMAIN kept = 1..Len(kept)
    BY <1>4
  <1>6. PICK at : Keeps(at, kept, seq, places)
    BY <1>4
  <1>7. ToSet(kept) = {seq[k] : k \in places}
    <2>1. ASSUME NEW x \in ToSet(kept) PROVE x \in {seq[k] : k \in places}
      BY <1>5, <1>6 DEF ToSet, Keeps
    <2>2. ASSUME NEW k \in places PROVE seq[k] \in ToSet(kept)
      BY <1>5, <1>6 DEF ToSet, Keeps
    <2> QED BY <2>1, <2>2
  <1> QED BY <1>4, <1>5, <1>7

\* Each row's term is listed at its first row, and at no other.
LEMMA OneEach ==
    ASSUME NEW text, text.rows \in Seq(ToSet(text.rows)), NEW terms, terms = TermsOf(text)
    PROVE  /\ terms \in Seq(ToSet(text.rows))
           /\ ToSet(terms) = ToSet(text.rows)
           /\ IsInjective(terms)
  <1> DEFINE rows == text.rows
             X == ToSet(rows)
             firsts == {i \in DOMAIN rows : \A j \in 1..(i - 1) : rows[j] # rows[i]}
  <1>1. rows \in Seq(X) /\ DOMAIN rows = 1..Len(rows) /\ Len(rows) \in Nat
    OBVIOUS
  <1>2. terms = At(firsts, rows) /\ firsts \subseteq DOMAIN rows
    BY DEF TermsOf
  <1>3. ASSUME NEW i \in DOMAIN rows PROVE \E k \in firsts : rows[k] = rows[i]
    <2> DEFINE same == {k \in DOMAIN rows : rows[k] = rows[i]}
    <2>1. same \subseteq Nat /\ same # {}
      BY <1>1
    <2>2. \E least \in same : \A k \in same : least <= k
      <3> HIDE DEF same
      <3> QED BY <2>1, Least
    <2>3. PICK least \in same : \A k \in same : least <= k
      BY <2>2
    <2>4. ASSUME NEW j \in 1..(least - 1) PROVE rows[j] # rows[least]
      <3>1. PICK n \in Nat : n = Len(rows)
        BY <1>1
      <3>2. least \in 1..n /\ j \in 1..n /\ ~(least <= j)
        BY <1>1, <2>3, <3>1
      <3>3. j \notin same
        BY <2>3, <3>2
      <3> QED BY <1>1, <2>3, <3>1, <3>2, <3>3
    <2>5. least \in firsts /\ rows[least] = rows[i]
      BY <2>3, <2>4
    <2> QED BY <2>5
  <1>4. ASSUME NEW i \in firsts, NEW j \in firsts, rows[i] = rows[j] PROVE i = j
    <2>1. i \in Nat /\ j \in Nat /\ i > 0 /\ j > 0
      BY <1>1
    <2>2. ~(i < j)
      BY <1>4, <2>1
    <2>3. ~(j < i)
      BY <1>4, <2>1
    <2> QED BY <2>1, <2>2, <2>3
  <1> HIDE DEF rows, X, firsts
  <1>5. /\ terms \in Seq(X)
        /\ ToSet(terms) = {rows[k] : k \in firsts}
        /\ DOMAIN terms = 1..Len(terms)
        /\ \E at : Keeps(at, terms, rows, firsts)
    BY <1>1, <1>2, AtPlaces
  <1>6. {rows[k] : k \in firsts} = ToSet(rows)
    BY <1>2, <1>3 DEF ToSet
  <1>7. IsInjective(terms)
    <2>1. PICK at : Keeps(at, terms, rows, firsts)
      BY <1>5
    <2> QED BY <1>4, <1>5, <2>1 DEF IsInjective, Keeps
  <1> QED BY <1>5, <1>6, <1>7 DEF rows, X

\* The terms of a tenant and those elsewhere are all there are, each in one of the two.
LEMMA Parted ==
    ASSUME NEW X, NEW terms \in Seq(X), IsInjective(terms), NEW tenant,
           NEW own, own = Selectable(terms, tenant),
           NEW elsewhere, elsewhere = Referenced(terms, tenant)
    PROVE  /\ own \in Seq(X) /\ elsewhere \in Seq(X)
           /\ \A term \in ToSet(own) : BelongsTo(term, tenant)
           /\ ToSet(own \o elsewhere) = ToSet(terms)
           /\ IsInjective(own \o elsewhere)
  <1> DEFINE here == {i \in DOMAIN terms : BelongsTo(terms[i], tenant)}
             there == {i \in DOMAIN terms : ~BelongsTo(terms[i], tenant)}
  <1>1. /\ own = At(here, terms) /\ elsewhere = At(there, terms)
        /\ here \subseteq DOMAIN terms /\ there \subseteq DOMAIN terms
    BY DEF Selectable, Referenced
  <1>2. \A i \in here : BelongsTo(terms[i], tenant)
    OBVIOUS
  <1>3. here \cup there = DOMAIN terms /\ here \cap there = {}
    OBVIOUS
  <1> HIDE DEF here, there
  <1>4. /\ own \in Seq(X) /\ ToSet(own) = {terms[k] : k \in here}
        /\ DOMAIN own = 1..Len(own) /\ \E at : Keeps(at, own, terms, here)
    BY <1>1, AtPlaces
  <1>5. /\ elsewhere \in Seq(X) /\ ToSet(elsewhere) = {terms[k] : k \in there}
        /\ DOMAIN elsewhere = 1..Len(elsewhere) /\ \E at : Keeps(at, elsewhere, terms, there)
    BY <1>1, AtPlaces
  <1>6. PICK a : Keeps(a, own, terms, here)
    BY <1>4
  <1>7. PICK b : Keeps(b, elsewhere, terms, there)
    BY <1>5
  <1>8. PICK m \in Nat, n \in Nat : m = Len(own) /\ n = Len(elsewhere)
    BY <1>4, <1>5
  <1>9. DOMAIN own = 1..m /\ DOMAIN elsewhere = 1..n
    BY <1>4, <1>5, <1>8
  <1> DEFINE listed == own \o elsewhere
  <1>10. /\ DOMAIN listed = 1..(m + n)
         /\ \A i \in 1..m : listed[i] = own[i]
         /\ \A i \in 1..n : listed[m + i] = elsewhere[i]
    BY <1>4, <1>5, <1>8
  <1> HIDE DEF listed
  <1>11. ASSUME NEW i \in 1..(m + n) PROVE i \in 1..m \/ (i - m \in 1..n /\ m + (i - m) = i)
    OBVIOUS
  <1>12. \A i \in 1..m : listed[i] = terms[a[i]] /\ a[i] \in here
    BY <1>6, <1>8, <1>10 DEF Keeps
  <1>13. \A i \in 1..n : listed[m + i] = terms[b[i]] /\ b[i] \in there
    <2>1. \A i \in 1..n : elsewhere[i] = terms[b[i]] /\ b[i] \in there
      BY <1>7, <1>8 DEF Keeps
    <2> QED BY <1>10, <2>1
  <1>14. \A i, j \in DOMAIN terms : terms[i] = terms[j] => i = j
    BY DEF IsInjective
  <1> DEFINE at == [i \in 1..(m + n) |-> IF i \in 1..m THEN a[i] ELSE b[i - m]]
  <1>15. ASSUME NEW i \in 1..(m + n)
         PROVE  /\ at[i] \in DOMAIN terms /\ listed[i] = terms[at[i]]
                /\ i \in 1..m => at[i] = a[i] /\ at[i] \in here
                /\ i \notin 1..m => i - m \in 1..n /\ at[i] = b[i - m] /\ at[i] \in there
    <2>1. CASE i \in 1..m
      BY <1>3, <1>12, <2>1
    <2>2. CASE i \notin 1..m
      <3>1. i - m \in 1..n /\ m + (i - m) = i
        BY <1>11, <2>2
      <3>2. listed[i] = terms[b[i - m]] /\ b[i - m] \in there
        <4> DEFINE k == i - m
        <4>1. k \in 1..n /\ m + k = i
          BY <3>1
        <4> HIDE DEF k
        <4>2. listed[m + k] = terms[b[k]] /\ b[k] \in there
          BY <1>13, <4>1
        <4> QED BY <4>1, <4>2 DEF k
      <3>3. at[i] = b[i - m]
        BY <2>2
      <3> QED BY <1>3, <2>2, <3>1, <3>2, <3>3
    <2> QED BY <2>1, <2>2
  <1> HIDE DEF at
  <1>16. ASSUME NEW i \in 1..(m + n), NEW j \in 1..(m + n), listed[i] = listed[j] PROVE i = j
    <2>1. at[i] = at[j]
      BY <1>14, <1>15, <1>16
    <2>2. CASE i \in 1..m /\ j \in 1..m
      BY <1>6, <1>8, <1>15, <2>1, <2>2 DEF Keeps
    <2>3. CASE i \notin 1..m /\ j \notin 1..m
      <3>1. i - m = j - m
        BY <1>7, <1>8, <1>15, <2>1, <2>3 DEF Keeps
      <3> QED BY <3>1
    <2>4. CASE (i \in 1..m /\ j \notin 1..m) \/ (i \notin 1..m /\ j \in 1..m)
      BY <1>3, <1>15, <2>1, <2>4
    <2> QED BY <2>2, <2>3, <2>4
  <1>17. IsInjective(listed)
    BY <1>10, <1>16 DEF IsInjective
  <1>18. ToSet(listed) = ToSet(own) \cup ToSet(elsewhere)
    <2>1. ASSUME NEW x \in ToSet(listed) PROVE x \in ToSet(own) \cup ToSet(elsewhere)
      <3>1. PICK i \in 1..(m + n) : x = listed[i]
        BY <1>10 DEF ToSet
      <3> QED BY <1>4, <1>5, <1>15, <3>1
    <2>2. ASSUME NEW i \in 1..m PROVE own[i] \in ToSet(listed)
      <3>1. i \in 1..(m + n)
        OBVIOUS
      <3> QED BY <1>10, <3>1 DEF ToSet
    <2>3. ASSUME NEW i \in 1..n PROVE elsewhere[i] \in ToSet(listed)
      <3>1. m + i \in 1..(m + n)
        OBVIOUS
      <3> QED BY <1>10, <3>1 DEF ToSet
    <2>4. ToSet(own) = {own[i] : i \in 1..m} /\ ToSet(elsewhere) = {elsewhere[i] : i \in 1..n}
      BY <1>9 DEF ToSet
    <2> QED BY <2>1, <2>2, <2>3, <2>4
  <1>19. ToSet(listed) = ToSet(terms)
    <2>1. ToSet(terms) = {terms[k] : k \in here \cup there}
      BY <1>3 DEF ToSet
    <2> QED BY <1>4, <1>5, <1>18, <2>1
  <1>20. \A term \in ToSet(own) : BelongsTo(term, tenant)
    BY <1>2, <1>4
  <1> QED BY <1>4, <1>5, <1>17, <1>19, <1>20 DEF listed

LEMMA TermNamedIn ==
    ASSUME NEW X, NEW terms \in Seq(X), NEW local
    PROVE  TermNamed(terms, local) \in ToSet(terms) \cup {None}
  <1> DEFINE I == {i \in 1..Len(terms) : terms[i].local = local}
             at == SelectInSeq(terms, LAMBDA term : term.local = local)
  <1>1. at = IF I # {} THEN Min(I) ELSE 0
    BY DEF SelectInSeq
  <1>2. CASE I = {}
    <2>1. at = 0
      BY <1>1, <1>2
    <2> QED BY <2>1 DEF TermNamed
  <1>3. CASE I # {}
    <2>1. \E least \in I : \A n \in I : least <= n
      <3>1. I \subseteq Nat
        OBVIOUS
      <3> HIDE DEF I
      <3> QED BY <1>3, <3>1, Least
    <2>2. Min(I) \in I
      <3> DEFINE first == CHOOSE least \in I : \A n \in I : least <= n
      <3>1. first \in I
        <4> HIDE DEF I
        <4> QED BY <2>1
      <3> HIDE DEF I
      <3> QED BY <3>1 DEF Min
    <2>3. at \in I
      BY <1>1, <1>3, <2>2
    <2>4. at \in DOMAIN terms /\ at # 0
      BY <2>3
    <2>5. TermNamed(terms, local) = terms[at]
      BY <2>4 DEF TermNamed
    <2> HIDE DEF at
    <2> QED BY <2>4, <2>5 DEF ToSet
  <1> QED BY <1>2, <1>3

-----------------------------------------------------------------------------
(* Each action keeps the invariant. *)

LEMMA AskStep ==
    ASSUME IInv, NEW question \in Questions, Ask(question)
    PROVE  IInv'
  <1>1. registry \in Registries
    BY DEF IInv, WorldOK
  <1>2. question.face \in {"document", "docs"} /\ question.past \in BOOLEAN
    BY DocumentsAssumption
  <1>3. CASE question.past /\ (question.face = "docs" \/ question.wanted = Html)
    <2>1. request' = [Asked(question) EXCEPT !.pc = "answered", !.answer = Answer("refused")]
      BY <1>3 DEF Ask
    <2>2. RequestSound(request', past)
      BY <1>1, <2>1 DEF RequestSound, AnswerSound, Asked, Answer, Pc
    <2> QED BY <2>1, <2>2, RequestOnly DEF Ask, Asked
  <1>4. CASE question.face = "docs" /\ ~question.past
    <2>1. request' = [Asked(question) EXCEPT !.pc = "page", !.prefix = question.path]
      BY <1>4 DEF Ask
    <2>2. RequestSound(request', past)
      BY <1>1, <1>4, <2>1 DEF RequestSound, UnderWay, Asked, Pc, Covers
    <2> QED BY <2>1, <2>2, RequestOnly DEF Ask, Asked
  <1>5. CASE question.face = "document" /\ (question.past => question.wanted # Html)
    <2>1. request' = Asked(question)
      BY <1>5 DEF Ask
    <2>2. RequestSound(request', past)
      BY <1>1, <1>5, <2>1 DEF RequestSound, UnderWay, Asked, Pc
    <2> QED BY <2>1, <2>2, RequestOnly DEF Ask, Asked
  <1> QED BY <1>2, <1>3, <1>4, <1>5

\* A path found in a registry: today's for the present, that of then for the past.
LEMMA ResolveInSound ==
    ASSUME IInv, request.pc \in {"load", "load past"}, NEW held, IsRegistry(held),
           IF request.question.past THEN held = past.registry /\ request.pc = "load past"
           ELSE held \in Held(request),
           ResolveIn(held)
    PROVE  RequestSound(request', past) /\ request'.since = request.since
  <1> DEFINE question == request.question
             found == Lookup(held, question.path)
             ns == CHOOSE ns \in found : TRUE
  <1>1. /\ RequestSound(request, past) /\ UnderWay(request, past)
        /\ question.past \in BOOLEAN
    BY Waiting, DocumentsAssumption DEF RequestSound
  <1>2. CASE found = {} \/ ns.kind = "retired"
    <2>1. Refuse("not found")
      BY <1>2 DEF ResolveIn
    <2>2. request'.since = request.since
      BY <1>1, <2>1 DEF Refuse, Finish, RequestSound
    <2> QED BY <2>1, <2>2, RefuseSound
  <1>3. CASE found # {} /\ ns.kind # "retired"
    <2>1. /\ ns \in held.namespaces /\ Covers(ns.prefix, question.path)
          /\ ns.prefix # None /\ ns.kind \in {"hosted", "redirect"}
          /\ ns.kind = "hosted" => ns.source \in Source
      BY <1>3, Found
    <2> HIDE DEF ns
    <2>2. CASE ns.kind = "redirect"
      <3>1. request' = [request EXCEPT !.pc = "answered",
               !.answer = [Answer("redirect") EXCEPT !.prefix = ns.prefix],
               !.counted = IF question.past THEN None ELSE ns.prefix]
        BY <1>3, <2>2 DEF ResolveIn, Finish, ns
      <3>2. AnswerSound(request', past)
        BY <1>1, <2>1, <2>2, <3>1
           DEF RequestSound, UnderWay, AnswerSound, Answer, Held, Holds
      <3> QED BY <1>1, <3>1, <3>2 DEF RequestSound, Pc
    <2>3. CASE ns.kind = "hosted"
      <3>1. request' = [request EXCEPT
                !.pc = IF question.wanted = Html THEN "page" ELSE "read",
                !.prefix = ns.prefix, !.source = ns.source, !.forge = ns.forge,
                !.limits = IF question.past THEN @ ELSE held]
        BY <1>3, <2>3 DEF ResolveIn, ns
      <3>2. UnderWay(request', past)
        BY <1>1, <2>1, <2>3, <3>1 DEF RequestSound, UnderWay, Held, Holds
      <3> QED BY <1>1, <3>1, <3>2 DEF RequestSound, Pc
    <2> QED BY <2>1, <2>2, <2>3
  <1> QED BY <1>2, <1>3

LEMMA LoadStep ==
    ASSUME IInv, Load
    PROVE  IInv'
  <1>1. /\ RequestSound(request, past) /\ UnderWay(request, past)
        /\ request.pc = "load" /\ registry \in request.since
        /\ UNCHANGED <<registry, documents, past, edits>>
    BY Waiting DEF Load
  <1>2. CASE registry = Broken
    <2>1. Refuse("error")
      BY <1>2 DEF Load
    <2>2. request'.pc = "answered"
      BY <1>1, <2>1 DEF Refuse, Finish, RequestSound
    <2> QED BY <1>1, <2>1, <2>2, RefuseSound, RequestOnly
  <1>3. CASE registry # Broken /\ request.question.past
    <2>1. request' = [request EXCEPT !.pc = "load past", !.limits = registry]
      BY <1>3 DEF Load
    <2>2. RequestSound(request', past)
      BY <1>1, <1>3, <2>1 DEF RequestSound, UnderWay, Held, Pc
    <2>3. registry \in request'.since
      BY <1>1, <2>1 DEF RequestSound
    <2> QED BY <1>1, <2>2, <2>3, RequestOnly
  <1>4. CASE registry # Broken /\ ~request.question.past
    <2>1. ResolveIn(registry)
      BY <1>4 DEF Load
    <2>2. IsRegistry(registry) /\ registry \in Held(request)
      BY <1>1, <1>4, DocumentsAssumption DEF IInv, WorldOK, Held
    <2> QED BY <1>1, <1>4, <2>1, <2>2, ResolveInSound, RequestOnly
  <1> QED BY <1>2, <1>3, <1>4

LEMMA LoadPastStep ==
    ASSUME IInv, LoadPast
    PROVE  IInv'
  <1>1. /\ RequestSound(request, past) /\ UnderWay(request, past)
        /\ request.pc = "load past" /\ registry \in request.since
        /\ UNCHANGED <<registry, documents, past, edits>>
    BY Waiting DEF LoadPast
  <1>2. CASE past.registry \in {Gone, Broken}
    <2>1. Refuse("not found") \/ Refuse("error")
      BY <1>2 DEF LoadPast
    <2>2. request'.pc = "answered"
      BY <1>1, <2>1 DEF Refuse, Finish, RequestSound
    <2> QED BY <1>1, <2>1, <2>2, RefuseSound, RequestOnly
  <1>3. CASE past.registry \notin {Gone, Broken}
    <2>1. ResolveIn(past.registry)
      BY <1>3 DEF LoadPast
    <2>2. IsRegistry(past.registry) /\ request.question.past
      BY <1>1, <1>3, DocumentsAssumption DEF IInv, WorldOK, UnderWay
    <2> QED BY <1>1, <2>1, <2>2, ResolveInSound, RequestOnly
  <1> QED BY <1>2, <1>3

\* What is served has the rows of what is held, whatever type it is served as.
LEMMA StoredRows ==
    ASSUME IInv, request.pc = "read", NEW text, text = Stored, text \notin {Gone, Broken}
    PROVE  /\ text.size \in Nat
           /\ request.question.past =>
                 text.rows = past.documents[request.source].rows
  <1>1. request.source \in Source
    BY Waiting DEF UnderWay
  <1>2. /\ documents[request.source] \in Texts \cup {Gone}
        /\ past.documents[request.source] \in Texts \cup {Gone}
    BY <1>1, DocumentsAssumption DEF IInv, WorldOK
  <1>3. CASE ~request.question.past
    BY <1>2, <1>3, DocumentsAssumption DEF Stored
  <1>4. CASE request.question.past /\ request.forge = None
    BY <1>2, <1>4, DocumentsAssumption DEF Stored
  <1>5. CASE request.question.past /\ request.forge # None
    <2> DEFINE held == past.documents[request.source]
    <2>1. /\ held \in Texts /\ text = [held EXCEPT !.form = Turtle]
      BY <1>2, <1>5 DEF Stored
    <2>2. /\ held = [kind |-> held.kind, size |-> held.size, form |-> held.form,
                     active |-> held.active, rows |-> held.rows]
          /\ held.size \in Nat
      BY <2>1, DocumentsAssumption
    <2> HIDE DEF held
    <2>3. text.size = held.size /\ text.rows = held.rows
      BY <2>1, <2>2
    <2> QED BY <2>2, <2>3 DEF held
  <1> QED BY <1>3, <1>4, <1>5

LEMMA ReadStep ==
    ASSUME IInv, Read
    PROVE  IInv'
  <1> DEFINE text == Stored
             wanted == request.question.wanted
             served == /\ text \notin {Gone, Broken}
                       /\ text.size <= Ceiling
                       /\ text.form = wanted \/ <<text.form, wanted>> \in Converts
             document == [Answer("document") EXCEPT !.prefix = request.prefix,
                            !.source = request.source, !.form = wanted, !.text = text]
  <1>1. /\ RequestSound(request, past) /\ UnderWay(request, past)
        /\ request.pc = "read" /\ registry \in request.since
        /\ UNCHANGED <<registry, documents, past, edits>>
    BY Waiting DEF Read
  <1>2. CASE ~served
    <2>1. Refuse("not found") \/ Refuse("error")
      BY <1>2 DEF Read, Refuse, Counted
    <2>2. request'.pc = "answered"
      BY <1>1, <2>1 DEF Refuse, Finish, RequestSound
    <2> QED BY <1>1, <2>1, <2>2, RefuseSound, RequestOnly
  <1>3. CASE served
    <2>1. Finish(document, IF request.question.past THEN None ELSE request.prefix)
      BY <1>3 DEF Read, Counted
    <2>2. text.size <= request.limits.limit /\ request.limits \in Held(request)
      BY <1>1, <1>3 DEF UnderWay, Ceiling
    <2>3. request.question.past => text.rows = past.documents[request.source].rows
      BY <1>1, <1>3, StoredRows
    <2> HIDE DEF text
    <2>4. /\ document.kind = "document" /\ document.prefix = request.prefix
          /\ document.source = request.source /\ document.text = text
      BY DEF Answer
    <2> HIDE DEF document
    <2>5. request' = [request EXCEPT !.pc = "answered", !.answer = document,
                 !.counted = IF request.question.past THEN None ELSE request.prefix]
      BY <2>1 DEF Finish
    <2>6. PICK ns \in IF request.question.past THEN past.registry.namespaces
                      ELSE request.limits.namespaces :
                /\ Covers(ns.prefix, request.question.path) /\ ns.prefix = request.prefix
                /\ ns.kind = "hosted" /\ ns.source = request.source
      BY <1>1 DEF UnderWay
    <2>7. ~request.question.past => ns.prefix # None
      BY <1>1, <2>2, <2>6, DocumentsAssumption DEF IsRegistry, Held, RequestSound
    <2>8. AnswerSound(request', past)
      BY <1>1, <2>2, <2>3, <2>4, <2>5, <2>6, <2>7
         DEF AnswerSound, RequestSound, UnderWay, Held, Holds
    <2>9. RequestSound(request', past) /\ request'.pc = "answered"
      BY <1>1, <2>5, <2>8 DEF RequestSound, Pc
    <2> QED BY <1>1, <2>9, RequestOnly
  <1> QED BY <1>2, <1>3

LEMMA LoadPageStep ==
    ASSUME IInv, LoadPage
    PROVE  IInv'
  <1> DEFINE found == Lookup(registry, request.prefix)
             ns == CHOOSE ns \in found : TRUE
  <1>1. /\ RequestSound(request, past) /\ UnderWay(request, past)
        /\ request.pc = "page" /\ registry \in request.since
        /\ UNCHANGED <<registry, documents, past, edits>>
    BY Waiting DEF LoadPage
  <1>2. CASE registry = Broken \/ found = {} \/ ns.kind \in {"retired", "redirect"}
    <2>1. Refuse("not found") \/ Refuse("error")
      BY <1>2 DEF LoadPage
    <2>2. request'.pc = "answered"
      BY <1>1, <2>1 DEF Refuse, Finish, RequestSound
    <2> QED BY <1>1, <2>1, <2>2, RefuseSound, RequestOnly
  <1>3. CASE registry # Broken /\ found # {} /\ ns.kind \notin {"retired", "redirect"}
    <2>1. request' = [request EXCEPT !.pc = "terms", !.source = ns.source]
      BY <1>3 DEF LoadPage
    <2>2. IsRegistry(registry) /\ registry \in Held(request)
      BY <1>1, <1>3, DocumentsAssumption DEF IInv, WorldOK, Held
    <2>3. /\ ns \in registry.namespaces /\ Covers(ns.prefix, request.prefix)
          /\ ns.kind = "hosted" /\ ns.source \in Source
      BY <1>3, <2>2, Found
    <2> HIDE DEF ns
    <2>4. Holds(request, ns)
      BY <1>1, <2>2, <2>3, CoversOver DEF UnderWay, Holds
    <2>5. UnderWay(request', past)
      BY <1>1, <2>1, <2>2, <2>3, <2>4 DEF RequestSound, UnderWay, Held, Holds
    <2>6. RequestSound(request', past) /\ request'.since = request.since
      BY <1>1, <2>1, <2>5 DEF RequestSound, Pc
    <2> QED BY <1>1, <2>6, RequestOnly
  <1> QED BY <1>2, <1>3

LEMMA TermsStep ==
    ASSUME IInv, Terms
    PROVE  IInv'
  <1>1. /\ RequestSound(request, past) /\ UnderWay(request, past)
        /\ request.pc = "terms" /\ registry \in request.since
        /\ UNCHANGED <<registry, documents, past, edits>>
    BY Waiting DEF Terms
  <1>2. \/ Refuse("error") \/ Refuse("not found")
        \/ \E page : /\ page.kind \in {"page", "fragment"} /\ page.source = request.source
                     /\ request.question.face = "document" => page.kind = "page"
                     /\ TermsSound(page, request.question.tenant)
                     /\ Finish(page, IF request.question.face = "document"
                                     THEN request.prefix ELSE None)
    <2> DEFINE question == request.question
               text == documents[request.source]
               tenant == question.tenant
               terms == TermsOf(text)
               own == Selectable(terms, tenant)
               elsewhere == Referenced(terms, tenant)
               detail == TermNamed(own, question.term)
               whole == View(question) = "page" \/ question.term = None
               page == [Answer(IF whole THEN "page" ELSE "fragment") EXCEPT
                           !.prefix = request.prefix, !.source = request.source, !.text = text,
                           !.own = IF whole THEN own ELSE << >>,
                           !.elsewhere = IF whole THEN elsewhere ELSE << >>,
                           !.detail = IF question.term = None THEN None ELSE detail]
    <2>1. \/ Refuse("error") \/ Refuse("not found")
          \/ text # Gone /\ Finish(page, IF question.face = "document" THEN request.prefix
                                         ELSE None)
      BY DEF Terms
    <2> HIDE DEF own, elsewhere, detail, whole
    <2>2. /\ page.kind = (IF whole THEN "page" ELSE "fragment")
          /\ page.source = request.source /\ page.text = text
          /\ page.own = (IF whole THEN own ELSE << >>)
          /\ page.elsewhere = (IF whole THEN elsewhere ELSE << >>)
          /\ page.detail = (IF question.term = None THEN None ELSE detail)
      BY DEF Answer
    <2>3. ASSUME text # Gone PROVE TermsSound(page, tenant)
      <3>1. text \in Texts
        BY <1>1, <2>3 DEF UnderWay, IInv, WorldOK
      <3>2. text.rows \in Seq(ToSet(text.rows))
        BY <3>1, DocumentsAssumption
      <3>3. /\ terms \in Seq(ToSet(text.rows)) /\ ToSet(terms) = ToSet(text.rows)
            /\ IsInjective(terms)
        BY <3>2, OneEach
      <3> HIDE DEF terms
      <3>4. /\ own \in Seq(ToSet(text.rows)) /\ elsewhere \in Seq(ToSet(text.rows))
            /\ \A term \in ToSet(own) : BelongsTo(term, tenant)
            /\ ToSet(own \o elsewhere) = ToSet(terms)
            /\ IsInjective(own \o elsewhere)
        BY <3>3, Parted DEF own, elsewhere
      <3>5. detail \in ToSet(own) \cup {None}
        BY <3>4, TermNamedIn DEF detail
      <3> HIDE DEF page, text, tenant
      <3>6. whole => /\ page.own \o page.elsewhere = own \o elsewhere
                     /\ page.text = text
        BY <2>2
      <3>7. page.kind = "page" => whole
        BY <2>2
      <3>8. page.own = own \/ page.own = << >>
        BY <2>2
      <3>9. ToSet(<< >>) = {}
        BY DEF ToSet
      <3>10. ToSet(page.own) \cup ({page.detail} \ {None}) \subseteq ToSet(own)
        BY <2>2, <3>5, <3>8, <3>9
      <3>11. tenant # None => \A term \in ToSet(own) : term.host = tenant
        BY <3>4 DEF BelongsTo
      <3> QED BY <3>3, <3>4, <3>6, <3>7, <3>10, <3>11 DEF TermsSound
    <2>4. question.face = "document" => whole
      BY DEF whole, View
    <2> HIDE DEF page
    <2> QED BY <2>1, <2>2, <2>3, <2>4
  <1>3. CASE Refuse("error") \/ Refuse("not found")
    <2>1. request'.pc = "answered"
      BY <1>1, <1>3 DEF Refuse, Finish, RequestSound
    <2> QED BY <1>1, <1>3, <2>1, RefuseSound, RequestOnly
  <1>4. CASE ~(Refuse("error") \/ Refuse("not found"))
    <2>0. PICK page :
             /\ page.kind \in {"page", "fragment"} /\ page.source = request.source
             /\ request.question.face = "document" => page.kind = "page"
             /\ TermsSound(page, request.question.tenant)
             /\ Finish(page, IF request.question.face = "document"
                             THEN request.prefix ELSE None)
      BY <1>2, <1>4
    <2>1. request' = [request EXCEPT !.pc = "answered", !.answer = page,
             !.counted = IF request.question.face = "document" THEN request.prefix ELSE None]
      BY <2>0 DEF Finish
    <2>2. request.question.face = "document" => request.prefix # None
      BY <1>1, DocumentsAssumption DEF UnderWay, RequestSound, Held, IsRegistry
    <2>3. AnswerSound(request', past)
      BY <1>1, <2>0, <2>1, <2>2 DEF AnswerSound, RequestSound, UnderWay, Held, Holds
    <2>4. RequestSound(request', past) /\ request'.pc = "answered"
      BY <1>1, <2>1, <2>3 DEF RequestSound, Pc
    <2> QED BY <1>1, <2>4, RequestOnly
  <1> QED BY <1>3, <1>4

\* Another registry in force takes nothing from what a request relies on.
LEMMA SinceGrows ==
    ASSUME NEW r, NEW then, RequestSound(r, then), r.pc # "answered", NEW held \in Registries
    PROVE  /\ RequestSound([r EXCEPT !.since = @ \cup {held}], then)
           /\ held \in [r EXCEPT !.since = @ \cup {held}].since
  <1> DEFINE s == [r EXCEPT !.since = @ \cup {held}]
  <1>1. /\ s.pc = r.pc /\ s.question = r.question /\ s.limits = r.limits /\ s.prefix = r.prefix
        /\ s.source = r.source /\ s.forge = r.forge /\ s.answer = r.answer
        /\ s.counted = r.counted /\ s.since = r.since \cup {held}
        /\ s = [pc |-> s.pc, question |-> s.question, limits |-> s.limits, prefix |-> s.prefix,
                source |-> s.source, forge |-> s.forge, answer |-> s.answer,
                since |-> s.since, counted |-> s.counted]
    BY DEF RequestSound
  <1> HIDE DEF s
  <1>2. Held(r) \subseteq Held(s) /\ \A ns : Holds(r, ns) => Holds(s, ns)
    BY <1>1 DEF Held, Holds
  <1>3. UnderWay(r, then)
    BY DEF RequestSound
  <1>4. UNION {h.namespaces : h \in Held(r)} \subseteq UNION {h.namespaces : h \in Held(s)}
    BY <1>2
  <1>5. UnderWay(s, then)
    BY <1>1, <1>2, <1>3, <1>4 DEF UnderWay
  <1>6. RequestSound(s, then)
    BY <1>1, <1>5 DEF RequestSound
  <1> QED BY <1>1, <1>6 DEF s

LEMMA EditStep ==
    ASSUME IInv, NEW held \in Registries, EditRegistry(held)
    PROVE  IInv'
  <1>1. WorldOK'
    BY DocumentsAssumption DEF IInv, WorldOK, EditRegistry
  <1>2. CASE request.pc \in {"idle", "answered"}
    <2>1. \/ request = [pc |-> "idle"]
          \/ RequestSound(request, past) /\ request.pc = "answered"
      BY <1>2 DEF IInv, RequestOK, RequestSound
    <2>2. request' = request /\ past' = past
      BY <1>2 DEF EditRegistry
    <2> QED BY <1>1, <2>1, <2>2 DEF IInv, RequestOK
  <1>3. CASE request.pc \notin {"idle", "answered"}
    <2>1. request' = [request EXCEPT !.since = @ \cup {held}]
      BY <1>3 DEF EditRegistry
    <2>2. RequestSound(request, past)
      BY <1>3, Waiting
    <2>3. RequestSound(request', past) /\ held \in request'.since
      BY <1>3, <2>1, <2>2, SinceGrows
    <2> QED BY <1>1, <2>3 DEF IInv, RequestOK, EditRegistry
  <1> QED BY <1>2, <1>3

LEMMA ReplaceStep ==
    ASSUME IInv, NEW source \in Source, NEW text \in Texts \cup {Gone}, Replace(source, text)
    PROVE  IInv'
  <1>1. WorldOK'
    BY DocumentsAssumption DEF IInv, WorldOK, Replace
  <1> QED BY <1>1 DEF IInv, RequestOK, Replace

LEMMA Invariant == Spec => []IInv
  <1>1. Init => IInv
    BY DocumentsAssumption DEF Init, IInv, WorldOK, RequestOK
  <1>2. IInv /\ [Next]_vars => IInv'
    <2> SUFFICES ASSUME IInv, [Next]_vars PROVE IInv'
      OBVIOUS
    <2>1. CASE UNCHANGED vars
      BY <2>1 DEF vars, IInv, WorldOK, RequestOK
    <2> QED BY <2>1, AskStep, LoadStep, LoadPastStep, ReadStep, LoadPageStep, TermsStep,
               EditStep, ReplaceStep DEF Next
  <1> QED BY <1>1, <1>2, PTL DEF Spec

-----------------------------------------------------------------------------
(* The properties. *)

\* A request holds the question it was asked and reads only documents that registries name.
THEOREM Typed == Spec => []TypeOK
  <1>1. IInv => TypeOK
    <2> SUFFICES ASSUME IInv PROVE TypeOK
      OBVIOUS
    <2>1. CASE request = [pc |-> "idle"]
      BY <2>1 DEF IInv, WorldOK, TypeOK
    <2>2. CASE RequestSound(request, past)
      <3>1. request.answer.kind = "none" <=> request.pc # "answered"
        <4>1. request.pc = "answered" => request.answer.kind # "none"
          BY <2>2 DEF RequestSound, AnswerSound
        <4>2. request.pc # "answered" => request.answer = Answer("none")
          BY <2>2 DEF RequestSound, UnderWay
        <4>3. Answer("none").kind = "none"
          BY DEF Answer
        <4> QED BY <4>1, <4>2, <4>3
      <3>2. request.pc \in {"read", "terms"} => request.source \in Source
        BY <2>2 DEF RequestSound, UnderWay
      <3> QED BY <2>2, <3>1, <3>2 DEF IInv, WorldOK, RequestSound, TypeOK, Pc
    <2> QED BY <2>1, <2>2 DEF IInv, RequestOK
  <1> QED BY <1>1, Invariant, PTL

\* within_ceiling holds every document to max_document_bytes of a registry of this
\* deployment's present, also when it is a past one whose registry allowed more.
THEOREM CeilingIsTodays == Spec => []TodaysCeiling
  <1>1. IInv => TodaysCeiling
    BY DEF IInv, RequestOK, RequestSound, AnswerSound, Held, TodaysCeiling, Answered
  <1> QED BY <1>1, Invariant, PTL

\* A question about a date is answered from that date's registry and document alone.
THEOREM PastStays == Spec => []PastStaysPut
  <1>1. IInv => PastStaysPut
    BY DEF IInv, RequestOK, RequestSound, AnswerSound, PastStaysPut, Answered
  <1> QED BY <1>1, Invariant, PTL

\* What is served belongs to a namespace that held the path while the request was under
\* way, although a page reads the registry a second time and by another prefix.
THEOREM Served == Spec => []ServedByItsNamespace
  <1>1. IInv => ServedByItsNamespace
    BY DEF IInv, RequestOK, RequestSound, AnswerSound, Held, Holds, ServedByItsNamespace,
           Answered
  <1> QED BY <1>1, Invariant, PTL

\* note is called for exactly the names that were answered for, under their namespace.
THEOREM CountedAnswered == Spec => []CountedWhenAnswered
  <1>1. IInv => CountedWhenAnswered
    BY DEF IInv, RequestOK, RequestSound, AnswerSound, Held, Holds, CountedWhenAnswered
  <1> QED BY <1>1, Invariant, PTL

\* A page is parted into the terms of its tenant's host and those that live elsewhere, each
\* of its document's in one of the two and once, though a term has a row for every way its
\* optional parts combine; and the detail is of a term of the first.
THEOREM OwnTerms == Spec => []OwnTermsOnly
  <1>1. IInv => OwnTermsOnly
    <2> SUFFICES ASSUME IInv, Answered({"page", "fragment"})
                 PROVE  TermsSound(request.answer, request.question.tenant)
      BY DEF OwnTermsOnly, TermsSound
    <2> QED BY DEF IInv, RequestOK, RequestSound, AnswerSound, Answered
  <1> QED BY <1>1, Invariant, PTL

=============================================================================
