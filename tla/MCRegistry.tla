----------------------------- MODULE MCRegistry -----------------------------
(***************************************************************************)
(* The instance of Registry that TLC explores: a provisioner who claims    *)
(* and an administrator who edits, racing each other and the operator's    *)
(* editor over prefixes that contain one another.                          *)
(***************************************************************************)
EXTENDS Registry

Plain(parts) == [slash |-> "none", parts |-> parts]

acme == Plain(<<"acme">>)
vocab == Plain(<<"acme", "vocab">>)
corp == Plain(<<"corp">>)
dash == Plain(<<"-">>)

MCSegment == {"acme", "vocab", "corp", "-"}
MCPrefix == {acme, vocab, corp, dash}
MCWanted == {<<"acme">>, <<"acme", "vocab">>, <<"acme", "vocab", "corp">>,
             <<"corp">>, <<"vocab">>}

Hosted == [kind |-> "hosted", names |-> "git", rules |-> "good"]
Unparsed == [kind |-> "redirect", names |-> "elsewhere", rules |-> "bad"]
MCAsked == {Hosted, Unparsed, Retired}

Entry(prefix, strategy) ==
    [prefix |-> prefix, owner |-> admin_scope(prefix),
     strategy |-> strategy, repository |-> "none"]

\* The operator may leave an empty file, one claim, or a file with an overlap.
MCFiles == {<< >>, <<Entry(vocab, Hosted)>>,
            <<Entry(acme, Hosted), Entry(vocab, Hosted)>>}

\* A claim may name an exclusion as its owner, and is refused.
MCOwner == {<<"urn:cap:deny">>}

MCInitial == << >>

MCGrants == [c \in Client |->
    IF c = "provisioner" THEN {CAP_CLAIM, admin_scope(corp)}
    ELSE {admin_scope(prefix) : prefix \in Prefix}]
=============================================================================
