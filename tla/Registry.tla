------------------------------ MODULE Registry ------------------------------
(***************************************************************************)
(* The namespace registry and the two endpoints that edit it, urn:name:    *)
(* claim and urn:name:admin.  Each invocation reads the whole registry,    *)
(* decides, and then sinks the whole edited registry with the content id   *)
(* of what it read; between the two anything may happen to the store.      *)
(* From src/src/registry.rs, src/src/admin.rs and src/src/lib.rs.          *)
(*                                                                         *)
(* Abstractions.  The content id of a registry is the registry: two        *)
(* contents have one id exactly when they are equal.  What a strategy      *)
(* names (a source, a target, an origin) is a member of Target, and the    *)
(* rules and the repository of an entry keep only whether their checks     *)
(* pass.  A refusal before the Sink changes nothing, so it is no step.     *)
(***************************************************************************)
EXTENDS Paths, SequencesExt

CONSTANTS
    Client,      \* invocations of the two endpoints, each one at a time
    Prefix,      \* the spellings of prefixes that requests and files use
    Target,      \* what a strategy can name
    GitSource,   \* the target naming urn:name:git:<the entry's own prefix>
    Asked,       \* the strategies requests ask for
    Repository,  \* the repository arguments of requests, and of files
    Owner,       \* the capabilities a claim can name as owner
    DenyShaped,  \* those of them that are exclusions
    Grants,      \* the capability scopes each client holds
    InitialFile, \* the registry the deployment starts from
    Files,       \* what the operator's editor may leave behind
    Wanted,      \* the paths asked for
    MaxEdits     \* bound on the operator's edits

admin_scope(prefix) == <<"urn:cap:name:admin", prefix>>
CAP_CLAIM == <<"urn:cap:name:claim">>

\* The enum Strategy; only a redirect has rules.
Retired == [kind |-> "retired", names |-> "nothing", rules |-> "good"]
Strategy ==
    [kind : {"hosted", "mirror"}, names : Target, rules : {"good"}]
    \cup [kind : {"redirect"}, names : Target, rules : {"good", "bad"}]
    \cup {Retired}
Namespace == [prefix : Prefix, owner : Owner \cup {admin_scope(p) : p \in Prefix},
              strategy : Strategy, repository : Repository]
File == Seq(Namespace)

ASSUME RegistryAssumption ==
    /\ Prefix \subseteq Spelling
    /\ GitSource \in Target
    /\ DenyShaped \subseteq Owner
    /\ Asked \subseteq Strategy
    /\ {"none"} \subseteq Repository /\ Repository \subseteq {"none", "good", "bad"}
    /\ Files \subseteq File
    /\ InitialFile \in File
    /\ Wanted \subseteq Path
    /\ MaxEdits \in Nat

VARIABLES
    store,    \* the content behind urn:name:registry-source
    pending,  \* per client: the edit it has decided on and not yet sunk
    edits     \* how often the operator has edited the file

vars == <<store, pending, edits>>

-----------------------------------------------------------------------------
(* The claim rule. *)

\* Namespace::check: the rules of a redirect parse, and a repository belongs to
\* a hosted or mirror namespace that names its own git source.
Check(entry) ==
    /\ entry.strategy.kind = "redirect" => entry.strategy.rules = "good"
    /\ entry.repository # "none" =>
           /\ entry.repository = "good"
           /\ entry.strategy.kind \in {"hosted", "mirror"}
           /\ entry.strategy.names = GitSource

\* FAULT: only a claim inside a held prefix is refused, not one around it.
MayClaimAround(held, prefix) ==
    /\ Segments(prefix) # << >>
    /\ \A entry \in held : ~Covers(Segments(entry.prefix), Segments(prefix))

\* Registry::may_claim, against the set of entries already held.
MayClaim(held, prefix) ==
    /\ Segments(prefix) # << >>
    /\ \A entry \in held : ~Overlaps(Segments(entry.prefix), Segments(prefix))

\* Registry::claim refuses nothing.
Claimable(held, entry) == MayClaim(held, entry.prefix) /\ Check(entry)

\* Registry::from_json accepts the file: each entry is claimed in turn.
Loads(file) ==
    \A i \in DOMAIN file : Claimable({file[j] : j \in 1..(i - 1)}, file[i])

Entries(file) == {file[i] : i \in DOMAIN file}

\* Registry::lookup: the first entry covering the path, as its place in the file.
Covering(file, path) == {i \in DOMAIN file : Covers(Segments(file[i].prefix), path)}
IsAnswer(file, path, i) ==
    /\ i \in Covering(file, path)
    /\ \A j \in Covering(file, path) : i <= j

-----------------------------------------------------------------------------
(* The two endpoints. *)

\* strategy_from_args refuses to set "retired", and replaces a strategy whole.
FromArgs(strategy) == strategy.kind # "retired"

Idle == [busy |-> FALSE]
Edit(token, next) == [busy |-> TRUE, token |-> token, next |-> next]

Init ==
    /\ store = InitialFile
    /\ pending = [c \in Client |-> Idle]
    /\ edits = 0

\* FAULT: the new entry is owned by the capability that let it be claimed.
ClaimOwnedByClaimants(c, prefix, owner, strategy, repository) ==
    LET entry == [prefix |-> prefix, owner |-> CAP_CLAIM,
                  strategy |-> strategy, repository |-> repository]
    IN  /\ pending[c] = Idle
        /\ CAP_CLAIM \in Grants[c]
        /\ ~StartsWithDash(prefix)
        /\ FromArgs(strategy)
        /\ owner \notin DenyShaped
        /\ Loads(store)
        /\ Claimable(Entries(store), entry)
        /\ pending' = [pending EXCEPT ![c] = Edit(store, Append(store, entry))]
        /\ UNCHANGED <<store, edits>>

\* urn:name:claim up to the Sink: arguments, capability, load_versioned, claim.
Claim(c, prefix, owner, strategy, repository) ==
    LET entry == [prefix |-> prefix, owner |-> owner,
                  strategy |-> strategy, repository |-> repository]
    IN  /\ pending[c] = Idle
        /\ CAP_CLAIM \in Grants[c]
        /\ ~StartsWithDash(prefix)
        /\ FromArgs(strategy)
        /\ owner \notin DenyShaped
        /\ Loads(store)
        /\ Claimable(Entries(store), entry)
        /\ pending' = [pending EXCEPT ![c] = Edit(store, Append(store, entry))]
        /\ UNCHANGED <<store, edits>>

\* The part of urn:name:admin both verbs share: the exact grant, a registry that
\* loads, and the first entry spelled exactly so.
Administers(c, prefix, i) ==
    /\ pending[c] = Idle
    /\ ~StartsWithDash(prefix)
    /\ admin_scope(prefix) \in Grants[c]
    /\ Loads(store)
    /\ i \in DOMAIN store
    /\ store[i].prefix = prefix
    /\ \A j \in DOMAIN store : store[j].prefix = prefix => i <= j

\* FAULT: the edited entry is not checked.
UpdateUnchecked(c, prefix, strategy, repository) ==
    \E i \in DOMAIN store :
        LET entry == [store[i] EXCEPT !.strategy = strategy, !.repository = repository]
        IN  /\ Administers(c, prefix, i)
            /\ FromArgs(strategy)
            /\ pending' = [pending EXCEPT ![c] = Edit(store, [store EXCEPT ![i] = entry])]
            /\ UNCHANGED <<store, edits>>

\* urn:name:admin as a Sink, up to its own Sink: the strategy and the repository
\* are replaced whole.
Update(c, prefix, strategy, repository) ==
    \E i \in DOMAIN store :
        LET entry == [store[i] EXCEPT !.strategy = strategy, !.repository = repository]
        IN  /\ Administers(c, prefix, i)
            /\ FromArgs(strategy)
            /\ Check(entry)
            /\ pending' = [pending EXCEPT ![c] = Edit(store, [store EXCEPT ![i] = entry])]
            /\ UNCHANGED <<store, edits>>

\* FAULT: retiring a namespace releases its prefix.
RetireReleases(c, prefix) ==
    \E i \in DOMAIN store :
        /\ Administers(c, prefix, i)
        /\ pending' = [pending EXCEPT ![c] = Edit(store, RemoveAt(store, i))]
        /\ UNCHANGED <<store, edits>>

\* urn:name:admin as a Delete, up to its Sink: a tombstone, not a release.
Retire(c, prefix) ==
    \E i \in DOMAIN store :
        LET entry == [store[i] EXCEPT !.strategy = Retired, !.repository = "none"]
        IN  /\ Administers(c, prefix, i)
            /\ pending' = [pending EXCEPT ![c] = Edit(store, [store EXCEPT ![i] = entry])]
            /\ UNCHANGED <<store, edits>>

\* FAULT: the store ignores if-match.
StoreBlind(c) ==
    /\ pending[c].busy
    /\ store' = pending[c].next
    /\ pending' = [pending EXCEPT ![c] = Idle]
    /\ UNCHANGED edits

\* The Sink with if-match: the store compares and replaces as one operation, or
\* refuses with Conflict, which the endpoint returns and never retries.
Store(c) ==
    /\ pending[c].busy
    /\ store' = IF store = pending[c].token THEN pending[c].next ELSE store
    /\ pending' = [pending EXCEPT ![c] = Idle]
    /\ UNCHANGED edits

\* The caller goes away between the read and the Sink: the future is dropped.
Abandon(c) ==
    /\ pending[c].busy
    /\ pending' = [pending EXCEPT ![c] = Idle]
    /\ UNCHANGED <<store, edits>>

\* The operator saves the file from an editor, under no condition.
OperatorEdit ==
    /\ edits < MaxEdits
    /\ store' \in Files
    /\ edits' = edits + 1
    /\ UNCHANGED pending

ClientStep(c) ==
    \/ \E prefix \in Prefix, strategy \in Asked, repository \in Repository :
          \/ \E owner \in Owner \cup {admin_scope(prefix)} :
                Claim(c, prefix, owner, strategy, repository)
          \/ Update(c, prefix, strategy, repository)
    \/ \E prefix \in Prefix : Retire(c, prefix)
    \/ Store(c)
    \/ Abandon(c)

Next == (\E c \in Client : ClientStep(c)) \/ OperatorEdit

Spec == Init /\ [][Next]_vars

-----------------------------------------------------------------------------
(* Properties. *)

\* The store and every edit in flight hold files of entries.
TypeOK ==
    /\ store \in File
    /\ pending \in [Client -> {Idle} \cup [busy : {TRUE}, token : File, next : File]]
    /\ edits \in 0..MaxEdits

\* What an edit in flight may be: one authorised claim, or one authorised change of
\* how an entry answers, of the very registry it read.
IsClaim(c, token, next) ==
    /\ CAP_CLAIM \in Grants[c]
    /\ \E entry \in Namespace :
          /\ Claimable(Entries(token), entry)
          /\ next = Append(token, entry)

IsChange(c, token, next) ==
    \E i \in DOMAIN token, strategy \in Strategy, repository \in Repository :
        LET entry == [token[i] EXCEPT !.strategy = strategy, !.repository = repository]
        IN  /\ admin_scope(token[i].prefix) \in Grants[c]
            /\ Check(entry)
            /\ next = [token EXCEPT ![i] = entry]

\* Every edit decided on and not yet sunk is sound for the registry it was decided
\* on: the part of the inductive invariant that the other properties rest on.
PendingSound ==
    \A c \in Client : pending[c].busy =>
        /\ Loads(pending[c].token)
        /\ \/ IsClaim(c, pending[c].token, pending[c].next)
           \/ IsChange(c, pending[c].token, pending[c].next)

\* A file the registry loads has at most one namespace answering for any path,
\* which is why lookup needs no precedence rule.
OneAnswer ==
    Loads(store) =>
        \A path \in Wanted : \A i, j \in Covering(store, path) : i = j

\* Whatever the two endpoints write, in whatever order, a registry that could be
\* read still can: from_json refuses the whole file for one bad entry, so one
\* bad edit would take every namespace down.
EditsStayLoadable ==
    [][edits' = edits /\ Loads(store) => Loads(store')]_vars

\* No sequence of claims, edits and retirements makes another namespace, or the
\* same one under another owner, answer for a path a namespace answers for: the
\* identifier hijack that retirement instead of release exists to prevent.
NoHijack ==
    [][edits' = edits /\ Loads(store) =>
          \A path \in Wanted : \A i \in DOMAIN store :
              IsAnswer(store, path, i) =>
                  /\ IsAnswer(store', path, i)
                  /\ store'[i].prefix = store[i].prefix
                  /\ store'[i].owner = store[i].owner]_vars

\* The read and the later conditional Sink of each edit behave as one atomic,
\* authorised change of one entry of the registry as it is at that moment: no
\* edit is lost and none is decided on stale data.
AtomicClaims ==
    INSTANCE Claims WITH
        readable <- Loads(store),
        held <- IF Loads(store) THEN Entries(store) ELSE {},
        Claimant <- {c \in Client : CAP_CLAIM \in Grants[c]},
        MayAdminister <- LAMBDA c, prefix : admin_scope(prefix) \in Grants[c]

ImplementsClaims == AtomicClaims!Spec

Tombstones(file) == {i \in DOMAIN file : file[i].strategy.kind = "retired"}

\* What health.rs says of its count of tombstones: it never decreases.
RetiredNeverDecreases ==
    [][edits' = edits =>
          Cardinality(Tombstones(store')) >= Cardinality(Tombstones(store))]_vars
=============================================================================
