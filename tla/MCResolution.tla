---------------------------- MODULE MCResolution ----------------------------
(***************************************************************************)
(* The instance of Resolution that TLC explores: a namespace that is first *)
(* hosted and then redirected, by a rule of each kind of capture or by one *)
(* that lets a request name the host, over days that cross a leap day, a   *)
(* missing one, a year and the epoch.                                      *)
(***************************************************************************)
EXTENDS Resolution

MCPrefix == <<"a">>

Scheme == Part("scheme")
HostPart == Part("host")
End == Part("end")

\* https://host/{x}?{y}, https://host/{x} with the rest, and https://host.{x}/
RuleOne == [match |-> <<One("x"), One("y")>>, target |-> <<Scheme, HostPart, End, Use("x"), End, Use("y")>>]
RuleRest == [match |-> <<Literal("old"), Rest("x")>>, target |-> <<Scheme, HostPart, End, Use("x")>>]
RuleHost == [match |-> <<Rest("x")>>, target |-> <<Scheme, HostPart, Use("x"), End>>]

Redirect(rules) == [kind |-> "redirect", rules |-> rules, target |-> <<Scheme, HostPart>>]
MCRegistries == {[kind |-> "hosted"], Redirect(<<RuleRest, RuleOne>>), Redirect(<<RuleHost>>)}

Hosted == [kind |-> "hosted"]
MCCommits == <<[file |-> "registry", content |-> Hosted],
               [file |-> "vocabulary", content |-> Text("v1")]>>

Date(year, month, day) == [year |-> year, month |-> month, day |-> day]
MCOffsets == {-3600, 3600}
MCStarts == {Date(1900, 2, 27), Date(2024, 2, 27)}
MCYears == {0, 1, 1600, 1900, 1969, 1970, 1999, 2000, 2024, 2026, 2100, 9999}

Asking(face, path, form, day, second, offset) ==
    [face |-> face, path |-> path, form |-> form, day |-> day, second |-> second,
     offset |-> offset]

MCQuestions ==
    {Asking("resolve", path, "date", 1, 0, 0) :
        path \in {<<"a", "old", "..">>, <<"a", "old", "b">>, <<"a", "b">>, <<"b">>}}
    \cup {Asking("document", <<"a", "b">>, form, 1, 0, 0) : form \in {"date", "none"}}
    \cup {Asking("resolve", <<"a", "b">>, "date", 0, 0, 0)}
    \cup {Asking("document", <<"a", "b">>, "stretched", day, 0, 0) : day \in {0, 1}}
    \cup {Asking("document", <<"a", "b">>, "instant", 2, 0, offset) : offset \in MCOffsets}
=============================================================================
