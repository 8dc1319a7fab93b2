------------------------------- MODULE Names -------------------------------
(***************************************************************************)
(* How the host names things: the tenant a Host header names, the scope a  *)
(* capability carries it in, the files and the secrets of a namespace, and *)
(* the forge that reads a repository.  From src/src/tenant.rs,             *)
(* src/src/git.rs, src/src/bin/server.rs and src/src/bin/server/git.rs.    *)
(*                                                                         *)
(* Abstractions.  A text is a sequence of characters, and a run of bytes   *)
(* no operation here takes apart is one character.  A Host header is the   *)
(* name it spells, lowercased, and how it spells it.  A file's folder and  *)
(* extension are fields; an IRI's own encoding is left out.                *)
(***************************************************************************)
EXTENDS Naturals, SequencesExt

CONSTANTS
    None,     \* no value, where the code has an option
    Plain,    \* the characters file_part keeps: letters, digits, - and _
    Coded,    \* how it writes each of the others: ~ and digits
    Month,    \* the months, as characters
    HostName  \* the texts that are DNS names, in lowercase

Period == ":period:"
Dot == "."
Mark == "~"

Character == Plain \cup DOMAIN Coded

\* A code starts with the mark, which is coded itself, and none begins another: each byte
\* is written with the mark and two digits.
ASSUME NamesAssumption ==
    /\ Month \subseteq Plain
    /\ Period \notin Plain /\ Dot \notin Plain /\ "/" \notin Plain /\ Mark \notin Plain
    /\ None \notin HostName /\ HostName \subseteq Seq(Character)
    /\ \A c \in DOMAIN Coded :
          /\ c \notin Plain
          /\ Coded[c] \in Seq(Plain \cup {Mark}) /\ Coded[c] # << >> /\ Coded[c][1] = Mark
          /\ \A d \in DOMAIN Coded : c # d => ~IsPrefix(Coded[c], Coded[d])

-----------------------------------------------------------------------------
(* Tenants. *)

\* The tenant a Host header names.
NormalizeHost(text) ==
    IF text.name \in HostName /\ text.port # "other" /\ text.dots <= 1
    THEN text.name ELSE None

\* Spelled as it would be answered: lowercase, with no port and no root dot.
IsNormal(text) ==
    /\ NormalizeHost(text) = text.name
    /\ ~text.upper /\ text.port = None /\ text.dots = 0

TenantScope(host) == <<"tenant", host>>

\* The tenant scopes name, if they name exactly one.
TenantOf(scopes) ==
    LET named == {host \in HostName : TenantScope(host) \in scopes}
    IN IF \E host \in HostName : named = {host}
       THEN CHOOSE host \in HostName : named = {host} ELSE None

-----------------------------------------------------------------------------
(* Files and secrets. *)

\* FAULT: the mark that starts a code is not itself coded.
FilePartUnmarked(prefix) ==
    FlattenSeq([i \in DOMAIN prefix |->
        IF prefix[i] \in Plain \cup {Mark} THEN <<prefix[i]>> ELSE Coded[prefix[i]]])

FilePart(prefix) ==
    FlattenSeq([i \in DOMAIN prefix |->
        IF prefix[i] \in Plain THEN <<prefix[i]>> ELSE Coded[prefix[i]]])

\* A tenant's part ends at a dot, which neither part can hold.
SecretName(kind, tenant, prefix) ==
    <<kind>> \o (IF tenant = None THEN << >> ELSE FilePart(tenant) \o <<Dot>>)
             \o FilePart(prefix)
TokenSecret(tenant, prefix) == SecretName("token", tenant, prefix)
HookSecret(tenant, prefix) == SecretName("hook", tenant, prefix)

StoreFile(kind, prefix) ==
    [folder |-> "git", part |-> FilePart(prefix), kind |-> kind]

\* The keys of a namespace's set of a month, and of its list of months.
SetKey(prefix, month) == prefix \o <<Period, month>>
ListKey(prefix) == prefix

\* A key is split at the first period it holds.
SeenFile(key) ==
    LET at == SelectInSeq(key, LAMBDA c : c = Period)
        split == at > 0
        prefix == IF split THEN SubSeq(key, 1, at - 1) ELSE key
    IN IF prefix = << >> \/ (split /\ SubSeq(key, at + 1, Len(key)) \notin {<<m>> : m \in Month})
       THEN None
       ELSE [folder |-> "seen", part |-> FilePart(prefix),
             kind |-> IF split THEN key[at + 1] ELSE "periods"]

-----------------------------------------------------------------------------
(* Forges. *)

Forge(host, kind, api) == [host |-> host, kind |-> kind, api |-> api]

KnownForges == <<Forge("github.com", "github", "api.github.com"),
                 Forge("gitlab.com", "gitlab", "gitlab.com"),
                 Forge("codeberg.org", "forgejo", "codeberg.org")>>

\* A --git-forge, whose API is on the host unless it says where.
IsForge(text) == text.host # "" /\ text.kind \in {"github", "gitlab", "forgejo"}
ParseForge(text) ==
    Forge(text.host, text.kind, IF text.api = None THEN text.host ELSE text.api)

NetScope(forge) == <<"net", forge.api>>

\* Whether a forge reads a repository: it is on its host, and its path is an owner and a
\* name, or on GitLab at least as deep.
Slug(forge, repository) ==
    /\ repository.host = forge.host
    /\ IF forge.kind = "gitlab" THEN repository.depth >= 2 ELSE repository.depth = 2

\* The first that does, or none.
ForgeFor(forges, repository) ==
    SelectInSeq(forges, LAMBDA forge : Slug(forge, repository))
=============================================================================
