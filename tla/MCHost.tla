------------------------------- MODULE MCHost -------------------------------
(***************************************************************************)
(* The instance of Host that TLC explores: a root with the directories of  *)
(* two hosts beside a link from one to the other and one nested in another,*)
(* namespaces whose names try every part of a file's and a secret's name,  *)
(* and requests that name one host, none, two, or another.                 *)
(***************************************************************************)
EXTENDS Host, TLC

CONSTANTS k1, k2

x == <<"x">>
y == <<"y">>
linked == <<"l">>
inside == <<"i">>
nowhere == <<"n">>
srv == << <<"srv">> >>
keys == << <<"keys">> >>

srvx == Append(srv, x)
srvy == Append(srv, y)
part == Append(srvx, <<"part">>)

\* The directory of host l is a link to that of x, that of i one to a part of it; n has none.
MCReal ==
    [dir \in {srv, srvx, srvy, part, keys, srv \o keys} |-> dir]
    @@ (Append(srv, linked) :> srvx) @@ (Append(srv, inside) :> part)

MCHostName == {x, y, linked, inside, nowhere}
MCPlain == {"n", "a", "b", "2", "F", "x", "y", "l", "i", "period", "3", "A", "7", "E", "2026-11"}
MCMonth == {"2026-11"}
MCCoded ==
    ("/" :> <<"~", "2", "F">>) @@ ("~" :> <<"~", "7", "E">>) @@ ("." :> <<"~", "2", "E">>)
    @@ (Period :> <<"~", "3", "A", "period", "~", "3", "A">>)

p == <<"a", "/", "b">>
q == <<"a", "~", "2", "F", "b">>
dotted == <<"x", ".", "a", "/", "b">>
dated == <<"a", "/", "b", Period, "2026-11">>
MCPrefix == {p, q, dotted, dated}

MCRepository == [n \in MCPrefix |->
    [host |-> CASE n = dotted -> "git.example" [] n = dated -> "elsewhere.example"
               [] OTHER -> "gitlab.com",
     depth |-> IF n = p THEN 3 ELSE 2, private |-> n = p]]

Text(name) == [name |-> name, upper |-> FALSE, port |-> None, dots |-> 0]

MCCommand(tenants, git) ==
    [tenants |-> tenants, count |-> FALSE, flushEvery |-> << >>, git |-> git,
     gitEvery |-> << >>, secrets |-> None, forges |-> << >>]

MCCommands == {
    MCCommand(<<Text(x), Text(y)>>, TRUE),
    [MCCommand(<< >>, FALSE) EXCEPT !.count = TRUE, !.flushEvery = <<60>>],
    [MCCommand(<< >>, TRUE) EXCEPT !.gitEvery = <<900>>, !.secrets = keys,
        !.forges = <<[host |-> "git.example", kind |-> "forgejo", api |-> None]>>],
    [MCCommand(<< >>, TRUE) EXCEPT !.secrets = srv \o keys],
    [MCCommand(<< >>, TRUE) EXCEPT !.gitEvery = <<0>>],
    [MCCommand(<< >>, TRUE) EXCEPT !.forges = <<[host |-> "", kind |-> "github", api |-> None]>>],
    [MCCommand(<< >>, FALSE) EXCEPT !.secrets = keys],
    [MCCommand(<< >>, FALSE) EXCEPT !.flushEvery = <<60>>],
    MCCommand(<<[Text(x) EXCEPT !.upper = TRUE]>>, FALSE),
    MCCommand(<<Text(x), Text(x)>>, FALSE),
    MCCommand(<<Text(x), Text(linked)>>, FALSE),
    MCCommand(<<Text(inside), Text(x)>>, FALSE),
    MCCommand(<<Text(nowhere)>>, FALSE)}

MCFirstBound ==
    (srv :> {p, dotted, dated}) @@ (srvx :> {p, q}) @@ (srvy :> {p})
    @@ (part :> Broken)
MCBindings == {Broken, {p}}

\* The owners that push, two of whom differ in the mark of a code and two in a dot.
MCFirstKey == (<<x, p>> :> k1) @@ (<<x, q>> :> k2) @@ (<<None, dotted>> :> k2)

MCPath(at, prefix) == [at |-> at, prefix |-> prefix]
MCRequest(hosts, method, path, key) ==
    [hosts |-> hosts, method |-> method, path |-> path, signed |-> key]
MCRequests ==
    {MCRequest(hosts, "GET", MCPath("doc", p), None) :
        hosts \in {<<Text(x)>>, << >>, <<Text(x), Text(y)>>,
                   <<[Text(y) EXCEPT !.upper = TRUE, !.port = "digits", !.dots = 1]>>,
                   <<[Text(x) EXCEPT !.port = "other"]>>, <<Text(linked)>>}}
    \cup {MCRequest(<<Text(x)>>, "POST", MCPath("hook", p), key) : key \in Key}
    \cup {MCRequest(<<Text(y)>>, "POST", MCPath("hook", p), k1),
          MCRequest(<<Text(y)>>, "POST", MCPath("hook", dotted), k2),
          MCRequest(<<Text(x)>>, "POST", MCPath("hook", q), k1),
          MCRequest(<<Text(x)>>, "POST", MCPath("hook", p), None),
          MCRequest(<<Text(x)>>, "GET", MCPath("hook", p), k1),
          MCRequest(<<Text(x)>>, "POST", MCPath("doc", p), None),
          MCRequest(<<Text(x)>>, "GET", MCPath("asset", << >>), None)}

\* For the timer: two sites, of which one may break, be mended or bind less, and a push.
MCTwo == {x, y}
MCTimed == {p, q}
MCOneKey == <<x, p>> :> k1
MCSites == {MCCommand(<<Text(x), Text(y)>>, TRUE)}
MCTimedBound == (srvx :> {p, q}) @@ (srvy :> {p})
MCPushes == {MCRequest(<<Text(x)>>, "POST", MCPath("hook", p), k1)}
=============================================================================
