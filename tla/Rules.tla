------------------------------- MODULE Rules -------------------------------
(***************************************************************************)
(* Rewrite rules: a match of literal segments and captures, and a target   *)
(* its captures fill.  What a request sends reaches a URL through these,   *)
(* so a rule is checked when the registry is read, and a capture is        *)
(* encoded when it is used.  From src/src/rules.rs.                        *)
(*                                                                         *)
(* A target is a sequence of parts: the scheme with its `://`, a part of a *)
(* host, a part that ends the host (one of / ? #), plain text, and uses of *)
(* captures.  A segment is opaque, but for the dot segments.               *)
(***************************************************************************)
EXTENDS Paths, SequencesExt

CONSTANTS
    Name,   \* names of captures
    Dots    \* the segments `.` and `..`

ASSUME DotsAssumption == Dots \subseteq Segment

Literal(text) == [kind |-> "literal", text |-> text]
One(name) == [kind |-> "one", text |-> name]
Rest(name) == [kind |-> "rest", text |-> name]
Piece == [kind : {"literal"}, text : Segment] \cup [kind : {"one", "rest"}, text : Name]

Part(kind) == [kind |-> kind, text |-> "part"]
Use(name) == [kind |-> "use", text |-> name]
TargetPart == {Part(kind) : kind \in {"scheme", "host", "end", "text"}} \cup {Use(n) : n \in Name}

\* One segment of a request, encoded: text, whatever bytes the segment held.
Encoded(segment) == [kind |-> "encoded", text |-> segment]

Captures(match) == {i \in DOMAIN match : match[i].kind # "literal"}

\* parse_match: some segment, no name twice, and the rest only in the last place.
CheckMatch(match) ==
    /\ match # << >>
    /\ \A i, j \in Captures(match) : match[i].text = match[j].text => i = j
    /\ \A i \in DOMAIN match : match[i].kind = "rest" => i = Len(match)

Uses(target) == {i \in DOMAIN target : target[i].kind = "use"}

\* What a request cannot touch: the parts before the first use.
HeadOf(target) == {i \in DOMAIN target : \A j \in Uses(target) : i < j}

\* FAULT: a scheme and a host are asked for, and no end of the host.
CheckHeadOpen(target) ==
    /\ {1, 2} \subseteq HeadOf(target)
    /\ target[1].kind = "scheme"
    /\ target[2].kind # "end"

\* check_target_head: a scheme and a host, and the host ends before the first use.
CheckHead(target) ==
    /\ {1, 2} \subseteq HeadOf(target)
    /\ target[1].kind = "scheme"
    /\ target[2].kind # "end"
    /\ Uses(target) # {} => \E i \in HeadOf(target) : target[i].kind = "end"

\* Rule::check; two uses with nothing between are refused by the parser of templates.
CheckRule(rule) ==
    /\ CheckMatch(rule.match)
    /\ \A i \in Uses(rule.target) : i + 1 \notin Uses(rule.target)
    /\ CheckHead(rule.target)
    /\ \A i \in Uses(rule.target) : \E j \in Captures(rule.match) :
           rule.match[j].text = rule.target[i].text

\* capture: each piece takes one segment but the rest, which takes all that are left
\* and at least one, and no capture takes a dot segment.
Matches(match, path) ==
    /\ IF Last(match).kind = "rest" THEN Len(path) >= Len(match) ELSE Len(path) = Len(match)
    /\ \A i \in DOMAIN match : match[i].kind = "literal" => path[i] = match[i].text
    /\ \A i \in DOMAIN match : match[i].kind = "one" => path[i] \notin Dots
    /\ Last(match).kind = "rest" => \A j \in Len(match)..Len(path) : path[j] \notin Dots

\* What a capture stands for in a target: its segments, encoded, with a `/` between.
Value(match, path, name) ==
    LET at == CHOOSE i \in Captures(match) : match[i].text = name
        taken == IF match[at].kind = "one" THEN <<path[at]>> ELSE SubSeq(path, at, Len(path))
    IN  [i \in 1..(2 * Len(taken) - 1) |->
            IF i % 2 = 1 THEN Encoded(taken[(i + 1) \div 2]) ELSE Part("end")]

\* Rule::rewrite, of a path that matches: the target with its uses expanded.
Rewrite(rule, path) ==
    FlattenSeq([i \in DOMAIN rule.target |->
        IF rule.target[i].kind = "use" THEN Value(rule.match, path, rule.target[i].text)
        ELSE <<rule.target[i]>>])

\* Namespace::redirection: the first rule that matches answers, and with none the
\* namespace's own target, which is fixed text.
Redirection(rules, target, below) ==
    LET matching == {i \in DOMAIN rules :
                        CheckRule(rules[i]) /\ Matches(rules[i].match, below)}
    IN  IF matching = {} THEN target
        ELSE Rewrite(rules[CHOOSE i \in matching : \A j \in matching : i <= j], below)

-----------------------------------------------------------------------------
(* What a URL points at. *)

\* The parts that name the host: those between the scheme and the first end.
Host(url) ==
    {url[i] : i \in {k \in 2..Len(url) : \A j \in 2..k : url[j].kind # "end"}}

DotSegments(url) == {i \in DOMAIN url : url[i].kind = "encoded" /\ url[i].text \in Dots}
=============================================================================
