# ikigai-name, modelled in TLA+

ikigai-name answers curated names: a registry says which namespace a path belongs to and how
it resolves, two endpoints edit that registry, a buffer counts the names each namespace
resolves, and a refresh copies a namespace's file out of a git repository. This directory
models the parts of it that keep state and race, the answers put together from several reads,
and the server around them; it checks them with TLC on small instances, and proves what
matters most with TLAPS for instances of every size.

`tlc -config X.cfg M` runs a check, `tlapm` on each module whose name ends in `Proofs` the
proofs. `PROJECT.json` holds the same inventory for tools: components, runs, the faults each property is shown to catch,
and the source lines of every definition.

## Inventory

| part | source | state | operations |
|---|---|---|---|
| namespace registry | `registry.rs` | a file of namespaces: prefix, owner, strategy, repository | load, claim, look up a path |
| claim and administration | `admin.rs` | none: each call reads and conditionally rewrites the registry | `urn:name:claim` (Sink), `urn:name:admin` (Sink, Delete) |
| resolution | `lib.rs` | none | `urn:name:resolve`, `urn:name:registry`, and what they may cache |
| active names | `stat.rs` | the buffer (sets, their total, drops), stored sets and lists of months | note a name, flush, count, report |
| flush task and its store | `bin/server.rs` | files under `seen/` | flush every tenant on a timer |
| git-backed namespaces | `git.rs` | the last good copy and a status, per namespace | refresh, read the copy, read the status |
| refresh timer, webhook door, store of copies | `bin/server/git.rs` | files under `git/` | refresh every site on a timer, and for a signed push |
| redirect rules | `rules.rs` | none | match a path, rewrite it |
| as-of reads | `history.rs` | none | parse a date, choose a commit |
| tenancy | `tenant.rs`, `bin/server.rs` | none | normalise a host, find a capability's tenant |
| documents | `document.rs` | none | `urn:name:document`, `urn:name:doc:*`: negotiate a form, now or as of a date |
| pages | `docs.rs` | none | `urn:name:docs`: a page about a namespace's terms, or one term's part of it |
| the server | `bin/server.rs`, `bin/server/git.rs` | its options, a directory per tenant, webhook keys behind the secret store | start, admit a request, mint its capability, route it |
| health | `health.rs` | none | summarise the registry |

How they interact. Everything is a request through a kernel that enforces capabilities: an
endpoint reads the registry, the stores and the repository by Source, and writes by Sink. The
registry, the stored sets and the copies are each behind a seam with one contract, a
compare-and-replace conditioned on the content id of what was read. No endpoint holds a lock
across a request, so between any two requests of one invocation anything may happen: that is
where the hazards are. The buffer is the one piece of shared memory; its lock is held for one
operation at a time. The host's timers and the webhook door start flushes and refreshes; a
resolution never waits for either.

What is hard here, and where (`hazards` in `PROJECT.json` has each at its line):

- decisions on a registry that has changed when they are written, and long sequences of legal
  edits that would hand a minted identifier to someone else;
- one bad entry making the whole registry unreadable, and with it the endpoints that could
  repair it;
- names resolved while they are being flushed, flushes that overlap, fail half way, or die
  between the list's write and the set's;
- a count, or a report of drops, put together from two readings;
- refreshes that read the repository in one order and write in another; a status and a copy
  that are two writes; a missed webhook;
- a past answer put together from four reads while commits land, in a log ordered by landing
  and dated by authoring; days worked out by division and never counted;
- a redirect whose target a request fills in part;
- answers that are kept, and hide from the counts what they answer; counts that are kept while
  a name is on its way into them;
- a page that reads the registry after the request for it has read it too, and a past document
  held to today's limits and answered from yesterday's namespaces;
- tenants told apart by directories that may be linked, by a header that may be there twice,
  and by names of files and secrets that are put together from others;
- a webhook's key that changes between the admission of a push and its capability.

## Modules

| module | what it is |
|---|---|
| `Paths` | segments, spellings, and when prefixes overlap or cover a path |
| `Claims` | abstract: a set of disjoint entries changed one at a time, by one step, by someone authorised |
| `Registry` | the registry and its two endpoints; shown to implement `Claims` |
| `RegistryProofs` | theorems about `Registry` |
| `ActiveNames` | the buffer, the flush, the count, the report, the stored sets, and what a cache may keep |
| `GitSource` | refreshing and reading a namespace served from a repository |
| `GitSourceProofs` | theorems about `GitSource` |
| `Dates` | dates and instants: reading, the days since the epoch, and back |
| `Rules` | rewrite rules: their check, matching a path, filling a target |
| `Resolution` | answering a path or a document, now or as of a date, from a log of commits |
| `Documents` | a document converted, or as a page, now or as of a date, while registry and documents change |
| `Names` | hosts and tenants, the names of files and secrets, forges |
| `Host` | the server: starting, tenants, admission, capabilities, routes, the timer and the flush |
| `ActiveNamesProofs`, `DatesProofs`, `ResolutionProofs`, `DocumentsProofs`, `HostProofs` | theorems about `ActiveNames`, `Dates`, `Resolution` with `Rules`, `Documents`, and `Host` with `Names` |
| `Recursion` | lemmas for the proofs: induction over the natural numbers, and what `FlattenSeq` makes of a sequence |
| `MCRegistry`, `MCActiveNames`, `MCResolution`, `MCDocuments`, `MCHost` | the instances TLC explores |

`Registry`, `Rules` and `Documents` extend `Paths`; `Resolution` extends `Dates` and `Rules`;
`Host` extends `Names`. Each module of proofs extends the module it is about. `Host` takes from
`GitSource` and `ActiveNames` only which files their stores write, and for whom.

A definition whose comment begins with `FAULT` is not part of the model. It is a version of the
definition below it with a plausible bug in it, and for each property there is one with which
TLC finds the property violated; `mutants` in `PROJECT.json` pairs them.

### Registry

`store` is the content of `urn:name:registry-source`; `pending[c]` is an invocation between its
read of the registry and its Sink, with the content it read (`token`) and the one it will write
(`next`). `Claim`, `Update` and `Retire` are the two endpoints up to the Sink: arguments,
capability, `load_versioned`, decision. `Store` is the Sink, which replaces the content only if
it is still the one read, and `Abandon` a caller who goes away between the two. `OperatorEdit`
replaces the file under no condition, as an editor does, and may leave one that does not load.
A prefix is a spelling, with or without a separator at an end, because administration compares
spellings and claims compare segments. Rules and repositories keep only whether their checks
pass. The content id of a registry is the registry itself: a file that was only reformatted
conflicts in the code and not in the model, and a conflict has the effect of `Abandon`.

`Claims` is what a reader would want of all this: entries change one at a time, each in one
step, each by a client authorised at that moment. `ImplementsClaims` is the refinement, with the
entries in force (none, when the file does not load) for `held`.

### ActiveNames

`sets`, `held` and `dropped` are the fields of `Buffer`. `stored` and `periods` are the
documents behind `urn:name:seen-source:*`. `flush[f]` is an invocation of `urn:name:seen-flush`:
each read, each write and each hold of the buffer's lock is an action, in the code's order
(`BeginFlush`; per set `ReadSet`, `ReadList`, `WriteList`, `WriteSet`, `Forget`; then `Report`
and `Clear`). `count[c]` is a count of one month, which reads the store (`BeginCount`) and then
the buffer (`EndCount`), or a report, which reads the list of months and then the months
buffered (`BeginReport`, `EndReport`). Any read or write may fail, and a write that fails may
have been made. `Crash` empties the memory and keeps the store.

`Note` takes the month its resolution read from the clock, which may be over by then. `answers`
and `counts` are what a cache holds: an answer until the end of the month it was counted in
(`KeepsUntil`, the expiry `counted` gives it), a count of a month that is `Settled` until its set is
written. While an answer is kept its name is not resolved, and so not counted. `excused` records,
for the properties, the names a full buffer dropped and those buffered after their month.

`Unkept` are the namespaces whose sets' keys name no file (`seen_file` of the bundled server, for
a prefix that holds `:period:`): every read of such a key fails, whatever else does, so its names
stay in the buffer, which they share with all others, and its counts, which fail too, and reports are left out.
`MaxDropped` is where the count of drops stops growing; at 0 the drops are not told apart, in runs
whose properties do not ask for them.

Two flushes at once are what the seam's contract allows for. The bundled server runs one flush
task, and its store compares and replaces in two steps because of that, so on that server only
the behaviours with one flusher arise.

### GitSource

`repo` is the file at the branch's head, `document` and `status` the stored copy and status.
`refresh[r]` is a refresh under way, for the timer or a delivery of a push: `ReadToken`,
`Fetch`, `Check` (which takes together reading the shapes, the read-only validation of them and the
validation of the version: the three share nothing that another changes, and fail alike), then for a good version `ReadDocument` and `WriteDocument`, then `ReadStatus`
and `WriteStatus`. `Recorded` is what a finding makes of the status. A token that cannot be had, a repository that
cannot be read and a check that cannot run are findings, and recorded; a host that has no reader
for the repository ends the refresh with nothing recorded (`Fetch`, `Ends`). `read[d]` is a read of the
namespace, which takes the status and then the document. One namespace is modelled; two share
nothing but the lock that makes the store's compare-and-replace one operation. The registry
entry does not change during a behaviour; its strategy is any of the two at the start. `kept`
and `newest` are history variables for the properties.

### Dates, Rules and Resolution

`Dates` is the arithmetic of `history.rs` as it stands there, sum by sum; only the text of a
date is left out, so a text is the record of its digits. Seconds since the epoch are a day and
a second of it, as TLC's integers have 32 bits and the code's 64. `Rules` keeps the segments of
a match and the parts of a target; a part is a scheme, a piece of a host, one of `/ ? #`, text,
or a use of a capture. An encoded segment can hold nothing that ends or starts a part, which is
what the encoding is for, and so it is one part of its own.

`Resolution` is one request, `asked`, against a `log` that commits are added to. `Ask` is the
handler up to its first read; `Load` reads today's registry, for an answer about the present or
for a past document's limits; `ReadLog` and `Show` are the two requests the binding over git
makes, once for the registry and once more for a hosted document; `Source` reads the document
as it is now. A commit is authored at any moment before it lands, and is dated in the offset of
whoever wrote it. The instant asked about is sent to the binding as text and read again there,
so it is written and read back here too. Answers do not change the repository, and so one
request at a time is all of them. What a commit holds does not change, so the file is taken
when its commit is picked.

A log is read by its places: `Touching` a file, of those the `Listed` ones up to the limit, of those
the ones `OldEnough`, and the `Newest` of them.

The references these are held to are there too: `Calendar` counts days one at a time, each the
`Tomorrow` of the one before, and `Expected` takes both files at one instant from the true times of their commits.

### Documents

`request` is one question, and `pc` the read it makes next: `Load` is today's registry, for the
namespace or for a past question's limits, `LoadPast` the registry of the date, `Read` the document
with the ceiling and the conversion, `LoadPage` and `Terms` the two reads of a page, which a question
for HTML issues to `urn:name:docs` by the namespace's prefix. `EditRegistry` and `Replace` change
what is there between any two of them. `since` collects the registries in force while a
request is under way: two reads may see two registries, and the properties say what must still
hold. A past document of a namespace with a repository is read from that repository
(`Stored`), and one that its forge cannot list by date, or that a browser would run, is refused.
A row of the query for a document's terms is a term's IRI, of which the host and the local name are
parts, so two terms may share both. A page keeps the terms in the order of their first rows (`TermsOf`), each IRI once, parted into those
of the tenant's host (`Selectable`) and those that live elsewhere (`Referenced`).
The view of a page is the question's own only at `urn:name:docs` (`View`); a document's face passes none on.
What `Resolution` models, the choice of a commit, is here one registry and one document per
source that do not change.

### Names and Host

`Names` spells what the server spells: a tenant's host, a namespace's files under `git/` and `seen/`,
its secrets. A text is a sequence of characters as coarse as the operations allow: the plain ones a file's name
keeps, and the others with their codes, of which `NamesAssumption` says what is true of the hexadecimal
ones: each starts with the mark, which is not plain, and none is the beginning of another.

`Host` starts on a command that `Options`, `TenantDirs` and `GitHost` accept. A request is
`Send`, `Admit` (its host is a tenant's; a push is signed with the key held), `Mint` (the capability:
reading its tenant's directory, and for a push that verifies again refreshing its namespace), and
one of `Dismiss`, `ServeDocument` and `ServePush`. `Jail` is the directory `urn:file:` reads for a
capability, found by the tenant the capability names. `Tick`, `ReadSite` and `RefreshNext` are the
timer, `Flush` one set's write by the flush: of any namespace a name was resolved for, and so of one
the registry may have bound once (`Resolved`), as the flush does not look at the registry. `EditRegistry` and `StoreKey` are the operator's,
at any moment. A file is only whose it is (`of`), in which directory and under which name; what
it holds is `GitSource`'s and `ActiveNames`'s part.

## Runs

| run | cfg | shows |
|---|---|---|
| `registry` | `Registry.cfg` | `PendingSound`, `OneAnswer`, `EditsStayLoadable`, `NoHijack`, `ImplementsClaims` |
| `registry_retired` | `RegistryRetired.cfg` | violation: a retired namespace can be brought back |
| `active_names` | `ActiveNames.cfg` | `StoredIsBounded`, `MissedIsStored`, `UnreportedIsListed`, `CachedIsCounted`, `CachedCountIsStored` |
| `active_names_flushed` | `ActiveNamesFlushed.cfg` | `HeldIsExact`, `StoredIsListed`, `StoreOnlyGrows`, `LeavesOnlyStored`, and the liveness of `BufferedIsStored` |
| `active_names_seen` | `ActiveNamesSeen.cfg` | violation: a count during a flush that misses names |
| `git` | `GitSource.cfg` | `OnlyCheckedServed`, `ServingWasStored`, `NoFindingLost`, `MirrorKeepsServing`, and the liveness of `Converges` |
| `git_withdrawn` | `GitSourceWithdrawn.cfg` | violation: a withdrawn namespace serves again without its file |
| `git_pushed` | `GitSourcePushed.cfg` | violation: an older version is stored over a pushed one |
| `resolution` | `Resolution.cfg` | `PastIsExact`, `OnlyFalseDatesRefused`, `DaysAreCounted`, `CapturesStayPut` |
| `documents` | `Documents.cfg` | `TodaysCeiling`, `PastStaysPut`, `ServedByItsNamespace`, `OwnTermsOnly`, `CountedWhenAnswered` |
| `host` | `Host.cfg` | `SitesApart`, `OwnFilesOnly`, `PushedByKeyHolder`, `FilesKeepTheirOwner` |
| `host_timer` | `HostTimer.cfg` | the liveness of `RefreshedForEver` |

Every run that passes checks a `TypeOK` of its module too, but for `active_names` and
`host_timer`, whose modules have another run that does.

### The disagreements found

Four runs end in a violation, each of a sentence of the repository's own documentation
(`findings` in `PROJECT.json` quotes them):

1. `urn:name:admin` gives a retired entry a strategy again, so tombstones do decrease.
2. A count that reads the store before a flush's write and the buffer after its `forget`
   misses the names, for that once: `MissedIsStored` shows the next count has them.
3. A withdrawn `hosted` namespace serves its old copy again while its file is still gone: one
   refresh stored the copy, the file was deleted, the next refresh found it gone, and the one after
   that failed to read at all, so that its reason replaced the one before (`record_unread`). The
   property does not blame a refresh that read the file while it was back, whenever that one
   writes, nor a namespace that has no copy to serve.
4. A refresh that read the file before a push may store what it read over the pushed version;
   `Converges` shows the timer repairs it.

Five more are plain from the code, and the models follow it without a run of their own:

5. `src/registry.rs:81` says of an entry's owner that holding it permits editing the entry;
   `require_admin` (`src/admin.rs:76`) asks for the scope made from the prefix instead.
6. `src/docs.rs:50` says no namespace can hold the segment `-`; the check at
   `src/admin.rs:122` sees the first character only, so `/-` is claimed and its segment is `-`.
7. `src/stat.rs:27` says the next flush reports how many names were dropped; one dropped between
   the reading of the drops (`src/stat.rs:616`) and their clearing (`:624`) is in no report, and
   one a failing flush told is told again.
8. A prefix that holds `:period:` may be claimed, but the key of its set names no file
   (`src/bin/server.rs:463`), so its names are never stored and every flush of its tenant
   answers an error. They stay in the buffer until the process dies, and enough of them fill it
   for every tenant (`src/stat.rs:162`), whose new names are then dropped. `BufferedIsStored` is
   of the other namespaces, beside one of these.
9. Of two terms of one host with one local name, a page's link reaches only the first
   (`src/docs.rs:633`).

### Bounds, and why they are enough

- `registry`: one provisioner and one administrator, whose invocations race in every way a pair
  of edits can; prefixes of which one contains another and one is unrelated; strategies that
  pass and fail their check; one edit of the operator's, which may leave an overlap. The proofs
  cover every number of each.
- `active_names`: one flusher, as in the bundled server, a count or report, two months, three names,
  and sets and a buffer that hold two of them. So a name can arrive during a flush, or after
  one, with room left in its set, and a third fill it or find it full: with a ceiling of one the
  properties that excuse a full set would say nothing once anything is stored. What may be cached
  is, a resolution may be noted a month after its clock was read, and the process may die once.
  Names are interchangeable, and TLC treats them so.
- `active_names_flushed`: two flushers, which race each other on every step and lose conflicts, two
  failures, so that a flush and its retry may both fail or the two flushers once each, a crash, and
  two namespaces in one buffer of two places, of which one is in `Unkept` and fails at every flush
  beside the other. A set holds two names, as many as there are, so it is full only with both
  stored: the properties' escape for a full set is never used. One month, and no counts, which are
  `active_names`'s.
- No run has two flushers and two months, so two writers of one namespace's list of months, or a count
  beside two flushers: those are for the theorems, which hold for any number of each.
- `git`: two good versions, one the shapes refuse and one that may never be
  served; the timer, one delivery and one read; two changes of the repository, one failure and one
  crash. Two changes are enough for a version to be read, replaced and read again, and for
  content to come back.
- `resolution`: two commits of any content after a first one of each file, dated in two offsets
  an hour on either side of UTC, at the first or the last second of two days, so that an offset
  moves a moment across midnight. The two days follow 28 February of a year with a leap day and
  of a century without one. A log holds two commits, so that it can be cut. The namespace is
  hosted, or redirected by rules that capture one segment or the rest, or by a rule that lets a
  capture name the host, which the check must refuse. `DaysAreCounted` takes all the days of
  twelve years, on both sides of the epoch, of a century and of an era, once per start.
- `documents`: a namespace, the one above it and the one below, hosted, bound to a repository whose
  history is dated or not, redirected or retired; documents within and over the ceiling, of two
  types and one a browser would run, naming terms of two hosts that share local names, and of one host that share one; and two
  changes of registry or documents, so that one may land before each of the two reads of a
  page. One request, as no request changes what another reads.
- `host`: thirteen commands, most of which the server must refuse, over a root with a link,
  a nested directory and a host without one; prefixes that spell the same with a separator, a code's mark, a dot or a period
  put wrong; requests with every kind of host; two keys. One request at a time, one edit
  and one stop: the hazards are of one request against one edit. `host_timer`: two sites, of
  which one may break and be mended, one push and one stop.
- The runs that end in a violation use the smallest instance that shows it.

`Registry.cfg` and the violations on `MCRegistry` turn deadlock checking off: a file that does
not load stops every client until the operator mends it, and the operator's edits are bounded.
`Resolution.cfg`, `Documents.cfg`, `Host.cfg` and `HostTimer.cfg` do too: their commits, edits and
stops are bounded, a server may be down for good, and nothing is owed after them.

### Fairness

`active_names_flushed` assumes, of each flusher, that a flush under way goes on (`WF` of its steps: a task
that awaits is woken, and every read and write ends or fails) and that its task comes to every
tenant again and again (`SF` of `BeginFlush`, as it goes round them in a loop for ever). The keys
of one flush are taken in any order, where the code has one: each key is taken in every flush all
the same, as a flush ends only when none is left.
`git` assumes the same of the timer, for `Converges`, and nothing of deliveries: a push may never
arrive, and its refresh may never end. Failures and crashes are finite, by their bounds.
`host_timer` assumes `WF` of the timer's steps: the task sleeps and goes round for as long as the
process lives (`spawn_refreshes`), and a refresh ends one way or the other.
Resolutions, counts, the clock, the owner, the operator and the clients are under no obligation.

## Proofs

`RegistryProofs` proves, for every set of clients, prefixes, grants and files:

- `InvariantHolds`: `TypeOK` and `PendingSound`, which together are inductive. `PendingSound`
  says that an edit in flight is one authorised claim, or one authorised change of how an entry
  answers, of the very content it read, and that this content loads. It is needed because what
  `Store` writes was decided earlier: nothing about `store` alone says that `next` is sound, but
  when the tokens match, `next` is a sound edit of the present content.
- `AnswersUnique` (`OneAnswer`): from `LoadsDisjoint`, that entries claimed in turn are pairwise
  disjoint, and `CoveringOverlap`, that two prefixes covering one path overlap.
- `LoadableKept` (`EditsStayLoadable`): from `AppendLoads` and `ReplaceLoads`.
- `NeverHijacked` (`NoHijack`): a claim appends and a change keeps prefix and owner in place, so
  an answering entry stays, and stays the first.
- `RegistryImplementsClaims` (`ImplementsClaims`): each `Store` of a matching token is a `Claim`
  or an `Administer` of the abstract registry, and every other step is a stutter or an `Edit`.

The assumptions are the ones `Paths` and `Registry` name (`DashedAssumption`,
`RegistryAssumption`): which sets the constants range over, and that the initial file is a file.

`GitSourceProofs` proves, for every set of versions, deliveries and reads, and for any number of
pushes, failures and crashes:

- `AlwaysIInv`: the invariant `IInv`, of four parts. `WorldOK` types the repository and the
  counts. `StoreSound` says that what the store holds conforms, and that the copy and the
  version the status names have been stored. `RefreshesSound` says the same of what a refresh
  carries between its steps: a version it holds as good conforms, one it is about to name in
  the status has been stored, and a status it is about to write is its finding recorded on the
  status it read. `ReadsSound` says that an answer is a version that was stored, and what a
  mirror's read may find. None of the properties below is inductive without `RefreshesSound`,
  as each write of the store was decided some steps before.
- `AlwaysTypeOK`, `AlwaysOnlyCheckedServed`, `AlwaysServingWasStored` and
  `AlwaysMirrorKeepsServing`, which follow from it.
- `NeverLosesFinding` (`NoFindingLost`): only `WriteStatus` changes the status, and only when
  the status is the one its refresh read, so what it writes is its finding recorded on it.

The assumptions are `GitSourceAssumption` and `AnswerAssumption`: the good versions are among
the servable ones, the timer is no delivery, and no version is one of the model's other values.

`ActiveNamesProofs` proves, for every number of tenants, namespaces, names, flushes, counts,
months, failures and crashes, all ten safety properties of `ActiveNames`. The invariant `IInv` says
what each actor may rely on at each of its steps, whatever the others have done since:

- `BufferOK` and `StoreOK`: the counter is the size of the sets, no stored set is off its list or
  over its ceiling. These are properties already, but not inductive alone.
- `FlushesSound`: a set about to be written holds what was read and all of the flush's names, or
  as many as fit (`Taken`); its month is on the list before it is; and what is about to be
  forgotten is stored, or its set full. `FitsSound` is the lemma about sizes this rests on.
- `CountsSound`: each name that a count expects, and has not, is in the buffer, or excused: stored
  meanwhile, without room, or noted too late. The same holds of a report and its months.
- `AnswersOK` and `KeptOK`: an answer that is kept was counted in its month, and a count that is
  kept is the stored set of a month that is over, in whose buffer nothing is but what is excused.

Three facts carry every action: the stored sets and lists only grow (`Grows`); a living process's
buffer gives up only what is stored (`Leaves`); and under both, what one actor relies on survives
another's step (`FlushStays`, `CountStays`, `ExcusesStay`, `MonthStays`). That is what makes the
proof go through for any number of flushes, each of which is shown sound only by itself. `Grows`
and `Leaves` are `StoreOnlyGrows` and `LeavesOnlyStored`. The assumption is `ActiveNamesAssumption`:
names and namespaces are finitely many, and a set may hold at least one name. The last is used
where a set that is full is taken to hold something, and so to be on its list.

`DocumentsProofs` proves all of `Documents`'s properties. `UnderWay` says, for each
step of a request, which registry the namespace it carries was found in: one of `since`, so
that an edit between two reads takes nothing from it (`SinceGrows`). `CoversOver` is why a page's second
lookup, which is of the namespace's prefix and not of the path, still finds one that held the
path. `OwnTerms` (`OwnTermsOnly`) rests on what a sequence holds at some of its places (`AtPlaces`): the
first rows of a document's terms hold each of them, and once (`OneEach`), and parted by whose they
are they hold it in one of the two lists (`Parted`). `DocumentsAssumption` gives the shapes of
registries, texts and questions.

`HostProofs` proves all of `Host`'s safety properties for any commands, hosts, keys, requests and
clients. There are two invariants. `IInv` follows a request: the scopes minted for it are none or
those of the tenant it names, of which exactly one is a tenant's (`OneTenant`), so its directory is
that tenant's (`JailSound`); and they hold the refresh capability only if a key verified
(`VerifiedHolds`). `TenantsApart`, `OwnFiles` and `PushedByHolder` follow. `Placed` follows the disk:
a server's sites have directories that have registries, every file lies in one of them under its
owner's part, and the timer is at sites of the server that runs. `TypesHold` and `FilesKept`
(`FilesKeepTheirOwner`) follow.

Under both are facts about spelling. `FilePartUnique`: two prefixes have two file parts, as a coded
character is told from a plain one by its mark and from another by its code, so the first place
where two prefixes differ is one where their parts do. `SecretsAreApart`: a secret's name is split at
its last dot (`DotSplits`), as `file_part` leaves no dot; what is before it is the tenant's and what is
after it the namespace's. `SeenParts`: a key of a stored set is split at its first period mark
(`FirstPeriod`), and when that falls inside the prefix what follows is no month, and no file is named.
The assumptions are `NamesAssumption`, `HostAssumption` and `DirectoriesAssumption`, which says that
every directory a command may have served is one that has a registry, if one that does not load.

`DatesProofs` proves of the sums of `history.rs`, for every date of every year:

- `NextDay`: `EpochDays` of the day after is one more. Months from March, at
  `(153 * m + 2) \div 5` days, are as long as the calendar says (`MonthStarts`), and years as
  long as their leap days make them (`NextYear`).
- `DateFound`: `Civil` of `EpochDays` is the date. The year of an era is found from its day of the era
  (`YearFound`, from `CenturyFound`), and the month from the day of its year (`MonthFound`).

`ResolutionProofs` proves all the properties of `Resolution`, for every start of the calendar, log,
limit, registry, question and offset:

- `Days`, from `NextDay` by induction: day `n` of the calendar is the date `n` days after its
  start, so a moment written in any offset is read as itself (`WrittenIsRead`), is sent on and read
  again as itself, and the moment a question means is the one read (`AskedIsMeant`).
- `RefusalsHold` (`OnlyFalseDatesRefused`) and `DaysHold` (`DaysAreCounted`) follow from that and `DateFound`.
- `PastHolds` (`PastIsExact`): the invariant `IInv` says of the log that what is dated reads as
  when it was made (`LogSound`), and of a request that what it has read so far is what the files
  held then, unless something dated before the moment asked about has landed since (`Exact`). It
  is needed because the registry and the document are read from two logs: a commit that lands in
  between takes nothing from either (`StoodStays`), as places in a log shift but their order does
  not. `PickedIsRight` is that the newest listed commit old enough is the newest of all, also when
  the log was cut, as what is cut is last (`CutIsLast`).
- `CapturesHold` (`CapturesStayPut`): `RewriteStaysPut`, that a target whose head passes its check ends
  its host before its first use, and that no value a use takes holds a dot segment
  (`ValueIsClean`), however many segments it is of.

The assumption, `ResolutionAssumption`, is the shapes of what is committed and asked, offsets of less
than a day, and a calendar whose dates have four digits for as long as the model's days last: past
the year 9999 the code refuses an instant, and `Parses` with it.

`Recursion` holds what these take from induction. The provers cannot instantiate a theorem about
an operator, so induction is over a set instead: one that holds zero, and with each number the next,
holds them all (`Inductive`), as a set of numbers has a least (`Least`). What is defined by recursion
over numbers is then shown to be defined (`Recursive`), and `FlattenSeq`, which `file_part`, a
redirect's URL and a page's terms are made with, to be the sequence that begins empty and has each
piece joined to it in turn (`Flattened`), from which its type, its elements and its beginnings follow.

Only model-checked, and why: `BufferedIsStored`, `Converges` and `RefreshedForEver`, as the prover does
not do liveness or `ENABLED`. Every other property of a run that passes is a theorem. The four runs
that end in a violation have nothing to prove.

## Not modelled

- `health.rs` reads the registry once and answers counts of it. What it says of its count of
  tombstones is checked in `Registry`.
- How a page looks (`docs.rs`): its themes, its stylesheet, a term's optional parts, and the
  descriptions of endpoints, which are text and keep no state.
- What a converter writes, which is another crate's. `Documents` knows which types convert.
- The kernel's cache beyond its contract, as `ActiveNames` states it: it is another program.
- The requests a forge is asked, and what its answers are read from, which are the forge's API.
- The checks of a repository's fields and the parsing of the command line, where a text is
  taken apart and nothing is kept. `Host` starts from options that are parsed.
- The arithmetic of a push's signature: a push is signed with a key or it is not.
- The status of a git-backed namespace as its endpoint shows it: one read of what `GitSource`
  holds.

## Plan

Done: `Registry` with `Claims`, `ActiveNames` with its caches and reports, `GitSource`, `Dates`,
`Rules`, `Resolution`, `Documents`, `Names` and `Host`, and a proof of every safety property that is
checked. What could follow:

1. An abstract set of names that only grows, which `ActiveNames` implements: `StoreOnlyGrows`
   and `LeavesOnlyStored` are its two halves.
2. The safety half of `Converges`: what the timer's refresh leaves, when the repository did not
   change while it ran, agrees with it.
3. `GitSource`: the shapes and the namespace's entry as variables, and the reasons in the status.
4. `FormatUtc` and `Read` as inverses for every instant the code accepts, which `Resolution` has for
   the moments it asks about.
