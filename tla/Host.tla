-------------------------------- MODULE Host --------------------------------
(***************************************************************************)
(* The server: what it is told to do and refuses to, the directory each    *)
(* tenant is given, and the way of a request through it, from admission    *)
(* over the capability minted for it to the route that answers.  A signed  *)
(* push is the one request that may refresh a namespace; a timer refreshes *)
(* them all and a flush stores the names counted, each under a capability  *)
(* of its own.  Meanwhile an operator edits registries and changes webhook *)
(* keys, and the server stops and starts as another command says.          *)
(* From src/src/bin/server.rs and src/src/bin/server/git.rs.               *)
(*                                                                         *)
(* Abstractions.  A registry is the namespaces it binds to a repository,   *)
(* or unreadable.  A file is whose it is, as GitSource and ActiveNames     *)
(* model what it holds, and a copy stands for its status too, beside it    *)
(* under the same name.  Directories and their links stay as they are.     *)
(* An answer is its status and the directory it was read from.             *)
(***************************************************************************)
EXTENDS Names

CONSTANTS
    Feature,     \* whether the build links the git feature
    Root,        \* the path --root names
    Real,        \* the canonical path of each path that exists
    Commands,    \* the command lines the server may be started with
    Prefix,      \* the namespaces an operator may bind
    Repository,  \* the repository each is bound to
    Key,         \* webhook keys
    FirstKey,    \* the key of each tenant and namespace whose owner set a webhook up
    FirstBound,  \* per directory, the namespaces bound before the first start
    Bindings,    \* the registries an operator may write
    Client,      \* requests, each one at a time
    Requests,    \* what a request may carry
    MaxEdits,    \* bound on the operator's edits
    Broken,      \* a registry that does not load
    MaxStops     \* bound on the times the server stops

ASSUME HostAssumption ==
    /\ Feature \in BOOLEAN
    /\ Root \in DOMAIN Real
    /\ None \notin Key \cup {"asset", "doc", "refresh"}
    /\ << >> \notin Prefix /\ Prefix \subseteq Seq(Character)
    /\ DOMAIN FirstKey \subseteq (HostName \cup {None}) \X Prefix
    /\ FirstBound \in [DOMAIN FirstBound -> (SUBSET Prefix) \cup {Broken}]
    /\ Bindings \subseteq (SUBSET Prefix) \cup {Broken}
    /\ \A command \in Commands : \A i \in DOMAIN command.tenants :
          command.tenants[i].name # None
    /\ \A r \in Requests :
          /\ r.hosts \in Seq(ToSet(r.hosts))
          /\ r.path.at = "hook" => r.path.prefix \in Prefix
    /\ MaxEdits \in Nat /\ MaxStops \in Nat

\* Every directory there is that a command may have served has a registry, if one that does
\* not load.
ASSUME DirectoriesAssumption ==
    \A command \in Commands :
        /\ command.tenants = << >> => Real[Root] \in DOMAIN FirstBound
        /\ \A i \in DOMAIN command.tenants :
              LET dir == Append(Real[Root], command.tenants[i].name)
              IN  dir \in DOMAIN Real => Real[dir] \in DOMAIN FirstBound

VARIABLES
    server,    \* what the running server was told, or None when it is down
    bound,     \* per directory, the namespaces its registry binds, or Broken
    files,     \* the files written, each with whose it is
    secrets,   \* per secret's name, the key held and whose it was stored as
    request,   \* per client, how far its request has got
    timer,     \* the refresh task
    edits,     \* how many times the operator has edited a registry or a key
    stops      \* how many times the server has stopped

vars == <<server, bound, files, secrets, request, timer, edits, stops>>

-----------------------------------------------------------------------------
(* Starting. *)

\* What the options ask for goes together.
Options(command) ==
    /\ command.flushEvery # << >> => command.count /\ command.flushEvery[1] > 0
    /\ command.gitEvery # << >> => command.git /\ command.gitEvery[1] > 0
    /\ command.secrets # None \/ command.forges # << >> => command.git
    /\ command.git => Feature

Nested(dir, other) == IsPrefix(dir, other) \/ IsPrefix(other, dir)

\* FAULT: two tenants' directories are told apart by their names alone.
TenantDirsByName(command) ==
    LET dir(i) == Append(Real[Root], command.tenants[i].name)
        named == DOMAIN command.tenants
    IN IF /\ \A i \in named : IsNormal(command.tenants[i]) /\ dir(i) \in DOMAIN Real
          /\ \A i, j \in named : i # j => dir(i) # dir(j)
       THEN [host \in {command.tenants[i].name : i \in named} |->
                Real[Append(Real[Root], host)]]
       ELSE None

\* FAULT: a directory that cannot be made canonical is taken as it is spelled.
TenantDirsAsSpelled(command) ==
    LET dir(host) == Append(Real[Root], host)
        real(host) == IF dir(host) \in DOMAIN Real THEN Real[dir(host)] ELSE dir(host)
        named == DOMAIN command.tenants
    IN IF /\ \A i \in named : IsNormal(command.tenants[i])
          /\ \A i, j \in named :
                i # j => ~Nested(real(command.tenants[i].name), real(command.tenants[j].name))
       THEN [host \in {command.tenants[i].name : i \in named} |-> real(host)]
       ELSE None

\* Each tenant's directory, canonical; no two may share files.
TenantDirs(command) ==
    LET dir(i) == Append(Real[Root], command.tenants[i].name)
        named == DOMAIN command.tenants
    IN IF /\ \A i \in named : IsNormal(command.tenants[i]) /\ dir(i) \in DOMAIN Real
          /\ \A i, j \in named : i # j => ~Nested(Real[dir(i)], Real[dir(j)])
       THEN [host \in {command.tenants[i].name : i \in named} |->
                Real[Append(Real[Root], host)]]
       ELSE None

\* Forges that parse, and secrets kept out of what is served.
GitHost(command) ==
    /\ \A i \in DOMAIN command.forges : IsForge(command.forges[i])
    /\ command.secrets # None => ~IsPrefix(Real[Root], Real[command.secrets])

Configured(command) ==
    [tenanted |-> command.tenants # << >>,
     \* A server without tenants has one site, its root's.
     dirs |-> IF command.tenants = << >> THEN [t \in {None} |-> Real[Root]]
              ELSE TenantDirs(command),
     git |-> command.git,
     count |-> command.count,
     forges |-> KnownForges \o [i \in DOMAIN command.forges |-> ParseForge(command.forges[i])]]

Site == IF server = None THEN {} ELSE DOMAIN server.dirs

IdleRequest == [pc |-> "idle"]
IdleTimer == [sites |-> {}, tenant |-> None, todo |-> {}]

\* A key as it is held, and whose it was stored as.
Held(key, pusher) == [key |-> key, tenant |-> pusher[1], prefix |-> pusher[2]]

FirstSecrets ==
    [n \in {HookSecret(pusher[1], pusher[2]) : pusher \in DOMAIN FirstKey} |->
        LET pusher == CHOOSE w \in DOMAIN FirstKey : HookSecret(w[1], w[2]) = n
        IN Held(FirstKey[pusher], pusher)]

Init ==
    /\ server = None
    /\ bound = FirstBound
    /\ files = {}
    /\ secrets = FirstSecrets
    /\ request = [c \in Client |-> IdleRequest]
    /\ timer = IdleTimer
    /\ edits = 0
    /\ stops = 0

\* A command the server will not run ends it at once, and is no step.
Start(command) ==
    /\ server = None
    /\ Options(command)
    /\ TenantDirs(command) # None
    /\ command.git => GitHost(command)
    /\ server' = Configured(command)
    /\ UNCHANGED <<bound, files, secrets, request, timer, edits, stops>>

\* Requests and tasks end with the process.
Stop ==
    /\ server # None
    /\ stops < MaxStops
    /\ stops' = stops + 1
    /\ server' = None
    /\ request' = [c \in Client |-> IdleRequest]
    /\ timer' = IdleTimer
    /\ UNCHANGED <<bound, files, secrets, edits>>

Edits ==
    /\ edits < MaxEdits
    /\ edits' = edits + 1

EditRegistry(dir, binding) ==
    /\ Edits
    /\ bound' = [bound EXCEPT ![dir] = binding]
    /\ UNCHANGED <<server, files, secrets, request, timer, stops>>

\* The operator stores a namespace's webhook key under the name the docs derive.
StoreKey(pusher, key) ==
    /\ Edits
    /\ secrets' = [secrets EXCEPT ![HookSecret(pusher[1], pusher[2])] = Held(key, pusher)]
    /\ UNCHANGED <<server, bound, files, request, timer, stops>>

-----------------------------------------------------------------------------
(* Capabilities. *)

CAP_REFRESH == <<"refresh">>
CAP_FLUSH == <<"flush">>
Reading(tenant) ==
    {<<"read", server.dirs[tenant]>>} \cup
    (IF tenant = None THEN {} ELSE {TenantScope(tenant)})

\* The token of one namespace and no other, and the forges' network.
RefreshCapability(tenant, prefix) ==
    Reading(tenant) \cup
    {CAP_REFRESH,
     <<"write", Append(server.dirs[tenant], <<"git">>)>>,
     <<"secret", TokenSecret(tenant, prefix)>>} \cup
    {NetScope(server.forges[i]) : i \in DOMAIN server.forges}

FlushCapability(tenant) ==
    Reading(tenant) \cup {CAP_FLUSH, <<"write", Append(server.dirs[tenant], <<"seen">>)>>}

\* Whether scopes let a file system call of the kind reach a path.
Allowed(scopes, kind, path) ==
    \E i \in 0..Len(path) : <<kind, SubSeq(path, 1, i)>> \in scopes

\* The directory urn:file: reads for a capability, or none.
Jail(scopes) ==
    IF ~server.tenanted THEN server.dirs[None]
    ELSE IF TenantOf(scopes) \in DOMAIN server.dirs THEN server.dirs[TenantOf(scopes)]
    ELSE None

\* The registry a capability reads, or none it may read.
MayRead(scopes) == Jail(scopes) # None /\ Allowed(scopes, "read", Jail(scopes))
RegistryOf(scopes) == IF MayRead(scopes) THEN bound[Jail(scopes)] ELSE Broken

Binds(scopes, prefix) == RegistryOf(scopes) # Broken /\ prefix \in RegistryOf(scopes)

\* Files written in the jail, whoever held them before.
Write(scopes, written, prefix) ==
    {f \in files : f.dir # Jail(scopes) \/ f.file \notin written} \cup
    {[dir |-> Jail(scopes), file |-> file, of |-> prefix] : file \in written}

\* What a refresh may leave: what there was, or a copy of what it could read.
Refreshed(scopes, prefix) ==
    LET forge == ForgeFor(server.forges, Repository[prefix])
        readable ==
            /\ Repository[prefix].private =>
                   <<"secret", TokenSecret(TenantOf(scopes), prefix)>> \in scopes
            /\ forge # 0
            /\ NetScope(server.forges[forge]) \in scopes
    IN IF readable /\ Allowed(scopes, "write", Append(Jail(scopes), <<"git">>))
       THEN {files, Write(scopes, {StoreFile("document", prefix)}, prefix)}
       ELSE {files}

-----------------------------------------------------------------------------
(* A request. *)

\* FAULT: the first Host header is the one that counts.
RequestHostFirst(r) == IF r.hosts = << >> THEN None ELSE NormalizeHost(r.hosts[1])

\* The tenant of the one Host header there is.
RequestHost(r) == IF Len(r.hosts) = 1 THEN NormalizeHost(r.hosts[1]) ELSE None

HostTenant(r) == IF server.tenanted THEN RequestHost(r) ELSE None

IsHook(r) == r.path.at = "hook"

\* A push signed with the key held for the namespace its path names.
Verified(r) ==
    LET name == HookSecret(HostTenant(r), r.path.prefix)
    IN /\ IsHook(r) /\ r.method = "POST" /\ r.signed # None
       /\ name \in DOMAIN secrets
       /\ secrets[name].key = r.signed

AdmitTenants(r) == server.tenanted => RequestHost(r) \in DOMAIN server.dirs
AdmitPushes(r) == server.git /\ IsHook(r) => Verified(r)

\* FAULT: what admission found is not looked at again.
RequestCapabilityTrusting(r) ==
    IF HostTenant(r) \notin DOMAIN server.dirs THEN {}
    ELSE IF server.git /\ IsHook(r) THEN RefreshCapability(HostTenant(r), r.path.prefix)
    ELSE Reading(HostTenant(r))

\* A push that verifies still, and any other request, and one for no tenant.
RequestCapability(r) ==
    IF HostTenant(r) \notin DOMAIN server.dirs THEN {}
    ELSE IF server.git /\ Verified(r) THEN RefreshCapability(HostTenant(r), r.path.prefix)
    ELSE Reading(HostTenant(r))

\* The resource a path is routed to: a prefix of one or two segments.
Route(r) ==
    IF r.path.at = "asset" THEN "asset"
    ELSE IF Cardinality({i \in DOMAIN r.path.prefix : r.path.prefix[i] = "/"}) > 1 THEN None
    ELSE IF ~IsHook(r) THEN "doc"
    ELSE IF server.git THEN "refresh"
    ELSE None

Answer(c, status, dir, refreshed) ==
    request' = [request EXCEPT ![c] = [pc |-> "answered", carried |-> request[c].carried,
                                       verified |-> request[c].verified, status |-> status,
                                       dir |-> dir, refreshed |-> refreshed]]

\* "verified" is for the properties: whether the key the request is signed with was, when
\* its capability was minted, the one stored for its tenant and namespace.
Send(c, r) ==
    /\ server # None
    /\ request[c].pc \in {"idle", "answered"}
    /\ request' = [request EXCEPT ![c] = [pc |-> "arrived", carried |-> r, verified |-> FALSE]]
    /\ UNCHANGED <<server, bound, files, secrets, timer, edits, stops>>

Admit(c) ==
    /\ request[c].pc = "arrived"
    /\ LET r == request[c].carried
       IN \/ /\ AdmitTenants(r) /\ AdmitPushes(r)
             /\ request' = [request EXCEPT ![c].pc = "admitted"]
          \/ /\ ~AdmitTenants(r)
             /\ Answer(c, IF RequestHost(r) = None THEN 400 ELSE 421, None, FALSE)
          \/ /\ AdmitTenants(r) /\ ~AdmitPushes(r)
             /\ Answer(c, 403, None, FALSE)
    /\ UNCHANGED <<server, bound, files, secrets, timer, edits, stops>>

HoldsKeyOf(r) ==
    \E n \in DOMAIN secrets :
        secrets[n] = Held(r.signed, <<HostTenant(r), r.path.prefix>>)

Mint(c) ==
    /\ request[c].pc = "admitted"
    /\ LET r == request[c].carried
       IN request' = [request EXCEPT ![c] = [pc |-> "minted", carried |-> r,
              verified |-> HoldsKeyOf(r), scopes |-> RequestCapability(r)]]
    /\ UNCHANGED <<server, bound, files, secrets, timer, edits, stops>>

\* Of what takes no kernel state: the page's assets, a path not routed, a resource asked
\* for with the wrong verb, and one that needs a capability the request does not hold.
Dismiss(c) ==
    /\ request[c].pc = "minted"
    /\ LET r == request[c].carried
       IN \/ Route(r) = "asset" /\ Answer(c, 200, None, FALSE)
          \/ Route(r) = None /\ Answer(c, 404, None, FALSE)
          \/ /\ Route(r) = "doc" /\ r.method = "POST"
             /\ Answer(c, 405, None, FALSE)
          \/ /\ Route(r) = "refresh" /\ CAP_REFRESH \notin request[c].scopes
             /\ Answer(c, 403, None, FALSE)
    /\ UNCHANGED <<server, bound, files, secrets, timer, edits, stops>>

\* A registry that does not load, or does not bind the namespace, ends either request.
Unbound(c, prefix) ==
    LET scopes == request[c].scopes
    IN \/ RegistryOf(scopes) = Broken /\ Answer(c, 500, Jail(scopes), FALSE)
       \/ /\ RegistryOf(scopes) # Broken /\ prefix \notin RegistryOf(scopes)
          /\ Answer(c, 404, Jail(scopes), FALSE)

ServeDocument(c) ==
    /\ request[c].pc = "minted"
    /\ LET r == request[c].carried
           scopes == request[c].scopes
           copies == {f \in files : f.dir = Jail(scopes)
                                    /\ f.file = StoreFile("document", r.path.prefix)}
       IN /\ Route(r) = "doc" /\ r.method = "GET"
          /\ \/ Unbound(c, r.path.prefix)
             \/ /\ Binds(scopes, r.path.prefix)
                /\ Answer(c, IF copies = {} THEN 503 ELSE 200, Jail(scopes), FALSE)
    /\ UNCHANGED <<server, bound, files, secrets, timer, edits, stops>>

ServePush(c) ==
    /\ request[c].pc = "minted"
    /\ LET r == request[c].carried
           scopes == request[c].scopes
       IN /\ Route(r) = "refresh" /\ CAP_REFRESH \in scopes
          /\ \/ Unbound(c, r.path.prefix) /\ UNCHANGED files
             \/ /\ Binds(scopes, r.path.prefix)
                /\ files' \in Refreshed(scopes, r.path.prefix)
                /\ Answer(c, 200, Jail(scopes), TRUE)
    /\ UNCHANGED <<server, bound, secrets, timer, edits, stops>>

-----------------------------------------------------------------------------
(* The host's own tasks. *)

Tick ==
    /\ server # None /\ server.git
    /\ timer.sites = {} /\ timer.todo = {}
    /\ timer' = [timer EXCEPT !.sites = Site]
    /\ UNCHANGED <<server, bound, files, secrets, request, edits, stops>>

\* FAULT: a site whose registry does not load ends the tick.
ReadSiteOrEnd(tenant) ==
    /\ timer.todo = {} /\ tenant \in timer.sites
    /\ timer' = IF RegistryOf(Reading(tenant)) = Broken
                THEN [timer EXCEPT !.sites = {}]
                ELSE [timer EXCEPT !.sites = @ \ {tenant}, !.tenant = tenant,
                                   !.todo = RegistryOf(Reading(tenant))]
    /\ UNCHANGED <<server, bound, files, secrets, request, edits, stops>>

\* One whose registry does not load is left for the next tick, and the others go on.
ReadSite(tenant) ==
    /\ timer.todo = {} /\ tenant \in timer.sites
    /\ timer' = [timer EXCEPT !.sites = @ \ {tenant}, !.tenant = tenant,
          !.todo = IF RegistryOf(Reading(tenant)) = Broken THEN {}
                   ELSE RegistryOf(Reading(tenant))]
    /\ UNCHANGED <<server, bound, files, secrets, request, edits, stops>>

\* One whose registry does not bind it any more, or is not read, is not refreshed.
RefreshNext(prefix) ==
    /\ prefix \in timer.todo
    /\ timer' = [timer EXCEPT !.todo = @ \ {prefix}]
    /\ LET scopes == RefreshCapability(timer.tenant, prefix)
       IN files' \in IF Binds(scopes, prefix) THEN Refreshed(scopes, prefix) ELSE {files}
    /\ UNCHANGED <<server, bound, secrets, request, edits, stops>>

TimerStep ==
    \/ Tick
    \/ \E tenant \in Site : ReadSite(tenant)
    \/ \E prefix \in Prefix : RefreshNext(prefix)

\* The namespaces a directory's registry may have bound when a name of theirs was resolved.
Resolved(dir) ==
    {prefix \in Prefix : \E binding \in Bindings \cup {FirstBound[dir]} :
        binding # Broken /\ prefix \in binding}

\* The names of a month are stored: first the list of months, and then the set, of a
\* namespace whether its registry binds it any more or not.  Before either the set is read,
\* so a key that names no file, as one of a prefix that holds a period does, fails with
\* nothing written, at every flush.
Flush(tenant, prefix, month) ==
    /\ server # None /\ server.count
    /\ LET scopes == FlushCapability(tenant)
           set == SeenFile(SetKey(prefix, month))
           list == SeenFile(ListKey(prefix))
       IN /\ Jail(scopes) # None /\ prefix \in Resolved(Jail(scopes))
          /\ set # None /\ list # None
          /\ CAP_FLUSH \in scopes /\ Allowed(scopes, "write", Append(Jail(scopes), <<"seen">>))
          /\ files' \in {Write(scopes, {list}, prefix), Write(scopes, {list, set}, prefix)}
    /\ UNCHANGED <<server, bound, secrets, request, timer, edits, stops>>

Next ==
    \/ \E command \in Commands : Start(command)
    \/ Stop
    \/ \E dir \in DOMAIN bound, binding \in Bindings : EditRegistry(dir, binding)
    \/ \E pusher \in DOMAIN FirstKey, key \in Key : StoreKey(pusher, key)
    \/ \E c \in Client :
           \/ \E r \in Requests : Send(c, r)
           \/ Admit(c) \/ Mint(c) \/ Dismiss(c) \/ ServeDocument(c) \/ ServePush(c)
    \/ TimerStep
    \/ \E tenant \in Site, prefix \in Prefix, month \in Month : Flush(tenant, prefix, month)

Spec == Init /\ [][Next]_vars

\* The timer runs for as long as the server does; nothing makes a client or an operator act.
FairSpec == Spec /\ WF_vars(TimerStep)

-----------------------------------------------------------------------------
(* Properties. *)

\* A running server has a directory of the disk for each of its sites, and what its tasks
\* and requests carry names sites and namespaces.
TypeOK ==
    /\ bound \in [DOMAIN FirstBound -> (SUBSET Prefix) \cup {Broken}]
    /\ \A f \in files : f.dir \in DOMAIN FirstBound /\ f.of \in Prefix
    /\ server # None =>
           \A tenant \in Site : server.dirs[tenant] \in DOMAIN FirstBound
    /\ timer.sites \subseteq Site /\ timer.todo \subseteq Prefix
    /\ timer.todo # {} => timer.tenant \in Site
    /\ \A c \in Client : request[c].pc # "idle" => request[c].carried \in Requests
    /\ edits \in 0..MaxEdits /\ stops \in 0..MaxStops

\* Tenants never share files, however their directories are spelled or linked, and no
\* command a server runs on gives two of them one directory or one inside the other.
SitesApart ==
    \A tenant, other \in Site :
        tenant # other => ~Nested(server.dirs[tenant], server.dirs[other])

\* Whatever a request with tenants is answered from the disk was read from the directory
\* of every host it names, and so of one: not from what a proxy in front of the server
\* might take it to ask for.
OwnFilesOnly ==
    \A c \in Client :
        (server # None /\ server.tenanted /\ request[c].pc = "answered"
         /\ request[c].dir # None) =>
            LET hosts == request[c].carried.hosts
            IN /\ hosts # << >>
               /\ \A i \in DOMAIN hosts :
                      request[c].dir = server.dirs[NormalizeHost(hosts[i])]

\* A request refreshes a namespace only when, as its capability was minted, it was signed
\* with the key stored for that tenant and that namespace, whatever other keys are stored
\* and however they changed since it was admitted.
PushedByKeyHolder ==
    \A c \in Client :
        (request[c].pc = "answered" /\ request[c].refreshed) => request[c].verified

\* No namespace's copy, status, set or list of months is ever written over by another's,
\* whatever their prefixes hold.
FilesKeepTheirOwner ==
    [][\A f \in files, g \in files' :
          (f.dir = g.dir /\ f.file = g.file) => f.of = g.of]_files

\* A namespace bound in a site that keeps running is refreshed again and again, although
\* another site's registry does not load and whatever its own pushes do.
RefreshedForEver ==
    \A tenant \in HostName \cup {None}, prefix \in Prefix :
        <>[](/\ server # None /\ server.git /\ tenant \in Site
             /\ bound[server.dirs[tenant]] # Broken
             /\ prefix \in bound[server.dirs[tenant]])
        => []<><<RefreshNext(prefix) /\ timer.tenant = tenant
                 /\ Binds(RefreshCapability(tenant, prefix), prefix)>>_vars
=============================================================================
