---------------------------- MODULE ActiveNames ----------------------------
(***************************************************************************)
(* Active names: the names a namespace resolves are buffered in memory and *)
(* moved by a flush job to stored sets, one per namespace and month, with  *)
(* a list of the months each namespace holds.  Resolutions, flushes and    *)
(* counts interleave at every await; a flush can fail at every read and    *)
(* write, and the process can die between any two steps.                   *)
(* From src/src/stat.rs and src/src/bin/server.rs.                         *)
(*                                                                         *)
(* Abstractions.  A stored set is the set of its names and a list is the   *)
(* set of its months: none is ever written empty, so the empty set stands  *)
(* for a document that does not exist, and the content id of a document is *)
(* its content.  Months are numbered from 1.  The kernel's cache is a part *)
(* of another program, modelled by what src/README.md says of it: an entry *)
(* is as cacheable as what it was made from, ends when it expires, and is  *)
(* not kept over a document that was written since it was read.            *)
(***************************************************************************)
EXTENDS Naturals, FiniteSets, FiniteSetsExt

CONSTANTS
    Tenant,       \* the tenants of the host
    Namespace,    \* the claimed namespaces
    TenantOf,     \* the tenant each namespace's store belongs to
    Unkept,       \* the namespaces whose sets' keys name no file (seen_file)
    Name,         \* the names asked for
    LongName,     \* those over MAX_NAME_BYTES
    Months,       \* how many months the clock goes through
    Flusher,      \* invocations of urn:name:seen-flush, each one at a time
    Counter,      \* invocations of the count or the report, each one at a time
    CacheFiles,   \* whether reads of files, and so answers, may be cached
    MAX_BUFFERED_NAMES,
    MAX_SEEN_NAMES,
    MaxLate,      \* bound on the months between a resolution's clock and its lock
    MaxDropped,   \* bound on the count of drops, which stays at it
    MaxFailures,  \* bound on the reads and writes that fail
    MaxCrashes    \* bound on the crashes

Period == 1..Months
SetKey == Namespace \X Period

ASSUME ActiveNamesAssumption ==
    /\ TenantOf \in [Namespace -> Tenant]
    /\ Unkept \subseteq Namespace
    /\ LongName \subseteq Name
    /\ IsFiniteSet(Name) /\ IsFiniteSet(Namespace)
    /\ Months \in Nat \ {0}
    /\ CacheFiles \in BOOLEAN
    /\ MAX_BUFFERED_NAMES \in Nat
    /\ MAX_SEEN_NAMES \in Nat \ {0}
    /\ MaxLate \in Nat /\ MaxDropped \in Nat
    /\ MaxFailures \in Nat
    /\ MaxCrashes \in Nat

VARIABLES
    now,       \* the month the clock is in
    sets,      \* the buffer: per set key, the names not yet known to be stored
    held,      \* how many names the buffer holds
    dropped,   \* per tenant, the names dropped and not yet reported
    stored,    \* per set key, the stored set
    periods,   \* per namespace, the stored list of its months
    flush,     \* per flusher, how far its flush has got
    count,     \* per counter, how far its count has got
    since,     \* the month the process started in
    answers,   \* per namespace and name, the month its cached answer ends with, or 0
    counts,    \* per set key, its cached count, if there is one
    excused,   \* for the properties: names dropped, or buffered after their month
    failures,  \* how many reads and writes have failed
    crashes    \* how many times the process has died

buffer == <<sets, held, dropped>>
store == <<stored, periods>>
cache == <<since, answers, counts, excused>>
vars == <<now, sets, held, dropped, stored, periods, flush, count, cache, failures, crashes>>

None == <<>>
NoNames == [k \in SetKey |-> {}]
IdleFlush == [pc |-> "idle", tenant |-> None, todo |-> {}, names |-> NoNames,
              key |-> None, token |-> {}, set |-> {}, list |-> {},
              refused |-> 0, failed |-> FALSE, report |-> 0]
IdleCount == [pc |-> "idle", key |-> None, read |-> {}, expected |-> {}, names |-> {}]
NoAnswers == [a \in Namespace \X Name |-> 0]

Init ==
    /\ now = 1
    /\ sets = NoNames
    /\ held = 0
    /\ dropped = [t \in Tenant |-> 0]
    /\ stored = NoNames
    /\ periods = [ns \in Namespace |-> {}]
    /\ flush = [f \in Flusher |-> IdleFlush]
    /\ count = [c \in Counter |-> IdleCount]
    /\ since = 1
    /\ answers = NoAnswers
    /\ counts = NoNames
    /\ excused = {}
    /\ failures = 0
    /\ crashes = 0

-----------------------------------------------------------------------------
(* Resolving a name. *)

\* FAULT: an answer is cached however long its registry's file allows.
KeepsUntilForEver(month) == IF CacheFiles THEN Months ELSE 0

\* An answer is kept no longer than the month it was counted in, if that is not over.
KeepsUntil(month) == IF CacheFiles /\ month = now THEN month ELSE 0

Counted(drops) == IF drops > MaxDropped THEN MaxDropped ELSE drops

\* Seen::note for a resolution that read the clock in a month, maybe the last, and takes
\* the buffer's lock now: a name it does not have is dropped and counted when it is too
\* long or the buffer is full, else buffered.  An answer in the cache is not resolved.
Note(ns, name, month) ==
    LET key == <<ns, month>>
        known == name \in sets[key]
        full == name \in LongName \/ held >= MAX_BUFFERED_NAMES
    IN  /\ month \in since..now /\ now <= month + MaxLate
        /\ answers[<<ns, name>>] < now
        /\ \/ /\ known /\ CacheFiles
              /\ UNCHANGED buffer
           \/ /\ ~known /\ full
              /\ dropped' = [dropped EXCEPT ![TenantOf[ns]] = Counted(@ + 1)]
              /\ UNCHANGED <<sets, held>>
           \/ /\ ~known /\ ~full
              /\ sets' = [sets EXCEPT ![key] = @ \cup {name}]
              /\ held' = held + 1
              /\ UNCHANGED dropped
        /\ answers' = [answers EXCEPT ![<<ns, name>>] = KeepsUntil(month)]
        /\ excused' = IF CacheFiles /\ ~known /\ (full \/ month < now)
                      THEN excused \cup {<<key, name>>} ELSE excused
        /\ UNCHANGED <<now, store, flush, count, since, counts, failures, crashes>>

Tick ==
    /\ now < Months
    /\ now' = now + 1
    /\ UNCHANGED <<buffer, store, flush, count, cache, failures, crashes>>

-----------------------------------------------------------------------------
(* Flushing. *)

\* The flush once it is done with its set, which is stored or has failed.
Done(f, failed) ==
    LET key == flush[f].key
    IN  [IdleFlush EXCEPT
            !.pc = "next", !.tenant = flush[f].tenant, !.todo = flush[f].todo \ {key},
            !.names = [flush[f].names EXCEPT ![key] = {}],
            !.failed = flush[f].failed \/ failed]

\* FAULT: a set that fails ends the flush.
GiveUpAll(f) ==
    /\ IF flush[f].key[1] \in Unkept THEN UNCHANGED failures
       ELSE failures < MaxFailures /\ failures' = failures + 1
    /\ flush' = [flush EXCEPT ![f] = [Done(f, TRUE) EXCEPT !.todo = {}]]

\* A read or a write answers an error, as each of a key that names no file does: the key is
\* given up, its names stay buffered.
GiveUp(f) ==
    /\ IF flush[f].key[1] \in Unkept THEN UNCHANGED failures
       ELSE failures < MaxFailures /\ failures' = failures + 1
    /\ flush' = [flush EXCEPT ![f] = Done(f, TRUE)]

\* A flush of the buffer as it is, of the sets `keys`.
Snapshot(tenant, keys) ==
    [IdleFlush EXCEPT !.pc = "next", !.tenant = tenant, !.todo = keys,
                      !.names = [k \in SetKey |-> IF k \in keys THEN sets[k] ELSE {}]]

\* Seen::snapshot of one tenant's sets.
BeginFlush(f, tenant) ==
    /\ flush[f].pc = "idle"
    /\ flush' = [flush EXCEPT ![f] = Snapshot(tenant,
          {k \in SetKey : TenantOf[k[1]] = tenant /\ sets[k] # {}})]
    /\ UNCHANGED <<now, buffer, store, count, cache, failures, crashes>>

NextKey(f, key) ==
    /\ flush[f].pc = "next"
    /\ key \in flush[f].todo
    /\ flush' = [flush EXCEPT ![f].pc = "read", ![f].key = key]
    /\ UNCHANGED <<now, buffer, store, count, cache, failures, crashes>>

\* FAULT: the ceiling is checked before the names are added, and not for each.
FitsOnce(names, set) ==
    {IF Cardinality(set) >= MAX_SEEN_NAMES THEN {} ELSE names \ set}

\* The new names that fit: all of them, or as many as the ceiling leaves room for.
Fits(names, set) ==
    LET new == names \ set
        room == IF Cardinality(set) >= MAX_SEEN_NAMES THEN 0
                ELSE MAX_SEEN_NAMES - Cardinality(set)
    IN  IF Cardinality(new) <= room THEN {new} ELSE kSubset(room, new)

\* store_names reads the set and adds what fits; with nothing to add it is done.
ReadSet(f) ==
    LET key == flush[f].key
        names == flush[f].names[key]
    IN  /\ flush[f].pc = "read"
        /\ \/ GiveUp(f)
           \/ \E added \in Fits(names, stored[key]) :
                /\ key[1] \notin Unkept
                /\ flush' = [flush EXCEPT
                      ![f].pc = IF added = {} THEN "forget" ELSE "list",
                      ![f].token = stored[key],
                      ![f].set = stored[key] \cup added,
                      ![f].refused = Cardinality((names \ stored[key]) \ added)]
                /\ UNCHANGED failures
        /\ UNCHANGED <<now, buffer, store, count, cache, crashes>>

\* FAULT: the list is written only for a set that is there already.
ReadListLast(f) ==
    LET key == flush[f].key
    IN  /\ flush[f].pc = "list"
        /\ flush' = [flush EXCEPT
              ![f].pc = IF flush[f].token = {} \/ key[2] \in periods[key[1]]
                        THEN "write set" ELSE "write list",
              ![f].list = periods[key[1]]]
        /\ UNCHANGED <<now, buffer, store, count, cache, failures, crashes>>

\* store_names reads the list, and writes it only when the month is not on it.
ReadList(f) ==
    LET key == flush[f].key
    IN  /\ flush[f].pc = "list"
        /\ \/ GiveUp(f)
           \/ /\ flush' = [flush EXCEPT
                    ![f].pc = IF key[2] \in periods[key[1]] THEN "write set" ELSE "write list",
                    ![f].list = periods[key[1]]]
              /\ UNCHANGED failures
        /\ UNCHANGED <<now, buffer, store, count, cache, crashes>>

\* The month goes on the list first.  The Sink compares and replaces as one operation, as
\* the seam asks (the bundled store does it in two, having one flush at a time); an error
\* may hide a write that was made.
WriteList(f) ==
    LET key == flush[f].key
        written == [periods EXCEPT ![key[1]] = flush[f].list \cup {key[2]}]
        match == periods[key[1]] = flush[f].list
    IN  /\ flush[f].pc = "write list"
        /\ \/ /\ match
              /\ periods' = written
              /\ flush' = [flush EXCEPT ![f].pc = "write set"]
              /\ UNCHANGED failures
           \/ /\ ~match
              /\ flush' = [flush EXCEPT ![f] = Done(f, TRUE)]
              /\ UNCHANGED <<periods, failures>>
           \/ /\ GiveUp(f)
              /\ periods' \in IF match THEN {periods, written} ELSE {periods}
        /\ UNCHANGED <<now, buffer, stored, count, cache, crashes>>

\* FAULT: the set is replaced whatever it has become.
WriteSetBlind(f) ==
    /\ flush[f].pc = "write set"
    /\ stored' = [stored EXCEPT ![flush[f].key] = flush[f].set]
    /\ flush' = [flush EXCEPT ![f].pc = "forget"]
    /\ UNCHANGED <<now, buffer, periods, count, cache, failures, crashes>>

\* A write through the kernel cuts what was made from the document.
WriteSet(f) ==
    LET key == flush[f].key
        written == [stored EXCEPT ![key] = flush[f].set]
        match == stored[key] = flush[f].token
    IN  /\ flush[f].pc = "write set"
        /\ \/ /\ match
              /\ stored' = written
              /\ flush' = [flush EXCEPT ![f].pc = "forget"]
              /\ UNCHANGED failures
           \/ /\ ~match
              /\ flush' = [flush EXCEPT ![f] = Done(f, TRUE)]
              /\ UNCHANGED <<stored, failures>>
           \/ /\ GiveUp(f)
              /\ stored' \in IF match THEN {stored, written} ELSE {stored}
        /\ counts' = IF stored' = stored THEN counts ELSE [counts EXCEPT ![key] = {}]
        /\ UNCHANGED <<now, buffer, periods, count, since, answers, excused, crashes>>

\* FAULT: everything buffered for the key is forgotten, snapshot or not.
ForgetAll(f) ==
    LET key == flush[f].key
    IN  /\ flush[f].pc = "forget"
        /\ sets' = [sets EXCEPT ![key] = {}]
        /\ held' = held - Cardinality(sets[key])
        /\ dropped' = [dropped EXCEPT ![flush[f].tenant] = Counted(@ + flush[f].refused)]
        /\ flush' = [flush EXCEPT ![f] = Done(f, FALSE)]
        /\ UNCHANGED <<now, store, count, cache, failures, crashes>>

\* FAULT: the buffer's size goes down by the names written, still there or not.
ForgetMiscounts(f) ==
    LET key == flush[f].key
        written == flush[f].names[key]
    IN  /\ flush[f].pc = "forget"
        /\ sets' = [sets EXCEPT ![key] = @ \ written]
        /\ held' = held - Cardinality(written)
        /\ dropped' = [dropped EXCEPT ![flush[f].tenant] = Counted(@ + flush[f].refused)]
        /\ flush' = [flush EXCEPT ![f] = Done(f, FALSE)]
        /\ UNCHANGED <<now, store, count, cache, failures, crashes>>

\* Seen::forget of the names of the snapshot, then Seen::add_dropped.
Forget(f) ==
    LET key == flush[f].key
        written == flush[f].names[key]
    IN  /\ flush[f].pc = "forget"
        /\ sets' = [sets EXCEPT ![key] = @ \ written]
        /\ held' = held - Cardinality(sets[key] \cap written)
        /\ dropped' = [dropped EXCEPT ![flush[f].tenant] = Counted(@ + flush[f].refused)]
        /\ flush' = [flush EXCEPT ![f] = Done(f, FALSE)]
        /\ UNCHANGED <<now, store, count, cache, failures, crashes>>

\* Seen::dropped, read under one lock; a flush with a failure answers it and stops.
Report(f) ==
    /\ flush[f].pc = "next"
    /\ flush[f].todo = {}
    /\ flush' = [flush EXCEPT ![f] =
          IF @.failed THEN IdleFlush
          ELSE [@ EXCEPT !.pc = "clear", !.report = dropped[flush[f].tenant]]]
    /\ UNCHANGED <<now, buffer, store, count, cache, failures, crashes>>

\* Seen::clear_dropped, under another lock, and the answer with what Report read.
Clear(f) ==
    /\ flush[f].pc = "clear"
    /\ dropped' = [dropped EXCEPT ![flush[f].tenant] = 0]
    /\ flush' = [flush EXCEPT ![f] = IdleFlush]
    /\ UNCHANGED <<now, sets, held, store, count, cache, failures, crashes>>

FlushStep(f) ==
    \/ \E key \in SetKey : NextKey(f, key)
    \/ ReadSet(f)
    \/ ReadList(f)
    \/ WriteList(f)
    \/ WriteSet(f)
    \/ Forget(f)
    \/ Report(f)
    \/ Clear(f)

-----------------------------------------------------------------------------
(* Counting. *)

\* What a count or a report is asked for, and of the buffer and the store what `expected`
\* remembers of that moment, for the properties.
Begun(pc, key, read, expected) ==
    [pc |-> pc, key |-> key, read |-> read, expected |-> expected, names |-> {}]

\* active_names reads the stored set first, when the answer is not in the cache.
BeginCount(c, key) ==
    /\ key[1] \notin Unkept
    /\ count[c].pc \notin {"read", "listed"}
    /\ counts[key] = {}
    /\ count' = [count EXCEPT ![c] =
                    Begun("read", key, stored[key], stored[key] \cup sets[key])]
    /\ UNCHANGED <<now, buffer, store, flush, cache, failures, crashes>>

CountFromCache(c, key) ==
    /\ count[c].pc \notin {"read", "listed"}
    /\ \E names \in counts[key] :
          count' = [count EXCEPT ![c] =
              [Begun("answered", key, {}, stored[key] \cup sets[key]) EXCEPT !.names = names]]
    /\ UNCHANGED <<now, buffer, store, flush, cache, failures, crashes>>

\* FAULT: only what is stored is counted.
EndCountStored(c) ==
    /\ count[c].pc = "read"
    /\ count' = [count EXCEPT ![c].pc = "answered", ![c].read = {}, ![c].names = count[c].read]
    /\ UNCHANGED <<now, buffer, store, flush, cache, failures, crashes>>

\* FAULT: a month is settled once its set is stored, whatever is still buffered for it.
SettledEarly(key, read) == key[2] < now /\ read # {}

\* A month's count may be cached once the month is over, its set is stored and nothing is
\* buffered for it.
Settled(key, read) == key[2] < now /\ read # {} /\ sets[key] = {}

\* ... and then what is buffered, and answers the size of the two together.
EndCount(c) ==
    LET key == count[c].key
        names == count[c].read \cup sets[key]
        kept == CacheFiles /\ Settled(key, count[c].read) /\ count[c].read = stored[key]
    IN  /\ count[c].pc = "read"
        /\ count' = [count EXCEPT ![c].pc = "answered", ![c].read = {}, ![c].names = names]
        /\ counts' = IF kept THEN [counts EXCEPT ![key] = {names}] ELSE counts
        /\ UNCHANGED <<now, buffer, store, flush, since, answers, excused, failures, crashes>>

\* A report reads the list of months first ...
BeginReport(c, ns) ==
    /\ ns \notin Unkept
    /\ count[c].pc \notin {"read", "listed"}
    /\ count' = [count EXCEPT ![c] = Begun("listed", <<ns, 0>>, periods[ns],
          {m \in Period : stored[<<ns, m>>] \cup sets[<<ns, m>>] # {}})]
    /\ UNCHANGED <<now, buffer, store, flush, cache, failures, crashes>>

\* FAULT: a report goes by the list alone.
EndReportListed(c) ==
    /\ count[c].pc = "listed"
    /\ count' = [count EXCEPT ![c].pc = "reported", ![c].read = {}, ![c].names = count[c].read]
    /\ UNCHANGED <<now, buffer, store, flush, cache, failures, crashes>>

\* ... then the months something is buffered for, and counts each of them.
EndReport(c) ==
    /\ count[c].pc = "listed"
    /\ count' = [count EXCEPT ![c].pc = "reported", ![c].read = {},
          ![c].names = count[c].read \cup {m \in Period : sets[<<count[c].key[1], m>>] # {}}]
    /\ UNCHANGED <<now, buffer, store, flush, cache, failures, crashes>>

-----------------------------------------------------------------------------

\* The process dies and restarts: the store survives, memory does not.
Crash ==
    /\ crashes < MaxCrashes
    /\ crashes' = crashes + 1
    /\ sets' = NoNames
    /\ held' = 0
    /\ dropped' = [t \in Tenant |-> 0]
    /\ flush' = [f \in Flusher |-> IdleFlush]
    /\ count' = [c \in Counter |-> IdleCount]
    /\ since' = now
    /\ answers' = NoAnswers
    /\ counts' = NoNames
    /\ UNCHANGED <<now, store, excused, failures>>

Next ==
    \/ \E ns \in Namespace, name \in Name, month \in Period : Note(ns, name, month)
    \/ Tick
    \/ \E f \in Flusher : (\E t \in Tenant : BeginFlush(f, t)) \/ FlushStep(f)
    \/ \E c \in Counter :
           \/ \E key \in SetKey : BeginCount(c, key) \/ CountFromCache(c, key)
           \/ \E ns \in Namespace : BeginReport(c, ns)
           \/ EndCount(c) \/ EndReport(c)
    \/ Crash

Spec == Init /\ [][Next]_vars

\* The host's flush task visits every tenant in turn, for ever, and each flush runs to
\* its end (spawn_flushes); resolutions, counts and the clock are under no obligation.
Fairness ==
    \A f \in Flusher :
        /\ WF_vars(FlushStep(f))
        /\ \A t \in Tenant : SF_vars(BeginFlush(f, t))

FairSpec == Spec /\ Fairness

-----------------------------------------------------------------------------
(* Properties. *)

FlushPc == {"idle", "next", "read", "list", "write list", "write set", "forget", "clear"}

\* The buffer, the store and every flush hold what the code's types say.
TypeOK ==
    /\ now \in Period
    /\ sets \in [SetKey -> SUBSET Name]
    /\ held \in Nat
    /\ dropped \in [Tenant -> Nat]
    /\ stored \in [SetKey -> SUBSET Name]
    /\ periods \in [Namespace -> SUBSET Period]
    /\ flush \in [Flusher ->
          [pc : FlushPc, tenant : Tenant \cup {None}, todo : SUBSET SetKey,
           names : [SetKey -> SUBSET Name], key : SetKey \cup {None}, token : SUBSET Name,
           set : SUBSET Name, list : SUBSET Period, refused : Nat, failed : BOOLEAN,
           report : Nat]]
    /\ count \in [Counter ->
          [pc : {"idle", "read", "answered", "listed", "reported"},
           key : SetKey \cup (Namespace \X {0}) \cup {None},
           read : (SUBSET Name) \cup (SUBSET Period),
           expected : (SUBSET Name) \cup (SUBSET Period),
           names : (SUBSET Name) \cup (SUBSET Period)]]
    /\ since \in 1..now
    /\ answers \in [Namespace \X Name -> {0} \cup Period]
    /\ counts \in [SetKey -> SUBSET SUBSET Name]
    /\ excused \subseteq SetKey \X Name
    /\ failures \in 0..MaxFailures
    /\ crashes \in 0..MaxCrashes

\* `held` is the number of names buffered over all sets, and never past the ceiling:
\* overlapping flushes forgetting the same names must not count one name off twice.
HeldIsExact ==
    /\ held = Cardinality({pair \in SetKey \X Name : pair[2] \in sets[pair[1]]})
    /\ held <= MAX_BUFFERED_NAMES

\* No stored set without its month on the namespace's list, through every crash, failure
\* and race of two flushes: a report goes by the list, so it would miss the month.
StoredIsListed ==
    \A k \in SetKey : stored[k] # {} => k[2] \in periods[k[1]]

\* No stored set grows past its ceiling.
StoredIsBounded == \A k \in SetKey : Cardinality(stored[k]) <= MAX_SEEN_NAMES

\* What is stored stays: no flush writes over names or months another one stored.
StoreOnlyGrows ==
    [][/\ \A k \in SetKey : stored[k] \subseteq stored'[k]
       /\ \A ns \in Namespace : periods[ns] \subseteq periods'[ns]]_vars

\* A name leaves the buffer only when it is stored, or its set is full, or the process
\* dies: a failing store loses nothing, and neither does a resolution during a flush.
LeavesOnlyStored ==
    [][crashes' = crashes =>
          \A k \in SetKey : \A name \in sets[k] \ sets'[k] :
              name \in stored[k] \/ Cardinality(stored[k]) >= MAX_SEEN_NAMES]_vars

\* A count leaves out a name that was buffered or stored when it began only if a flush
\* has stored it meanwhile, or its set is full: so the next count has it.  A count from the
\* cache may lack a name of a resolution that read the clock in the month and buffered
\* after it, until that is flushed too.
MissedIsStored ==
    \A c \in Counter : count[c].pc = "answered" =>
        LET key == count[c].key
        IN  \/ \A name \in count[c].expected \ count[c].names :
                  name \in stored[key] \/ <<key, name>> \in excused
            \/ Cardinality(stored[key]) >= MAX_SEEN_NAMES

\* A report leaves out a month it had names of when it began only if a flush has put the
\* month on the list meanwhile: no month is between the buffer and the list.
UnreportedIsListed ==
    \A c \in Counter : count[c].pc = "reported" =>
        count[c].expected \ count[c].names \subseteq periods[count[c].key[1]]

\* While an answer is in the cache no resolution of it is counted, so its name is in this
\* month's buffer or set already, or that set is full, or the name was dropped: an answer
\* is not kept into a month it was not counted in, nor past a restart.
CachedIsCounted ==
    \A ns \in Namespace, name \in Name :
        answers[<<ns, name>>] >= now =>
            LET key == <<ns, now>>
            IN  \/ name \in sets[key] \cup stored[key]
                \/ <<key, name>> \in excused
                \/ Cardinality(stored[key]) >= MAX_SEEN_NAMES

\* A cached count is the stored set's, and not of names a flush may yet find no room for.
CachedCountIsStored == \A k \in SetKey : counts[k] \subseteq {stored[k]}

\* Every name buffered is eventually stored, or its set fills up, unless the process dies,
\* whatever fails now and then, races it, or fails at every flush beside it: but not of a
\* namespace whose key names no file.
BufferedIsStored ==
    \A k \in (Namespace \ Unkept) \X Period, name \in Name, n \in 0..MaxCrashes :
        name \in sets[k] /\ crashes = n
            ~> \/ name \in stored[k]
               \/ Cardinality(stored[k]) >= MAX_SEEN_NAMES
               \/ crashes > n

\* What stat.rs says of a count during a flush: it still sees the names being written.
CountSeesBuffered ==
    \A c \in Counter : count[c].pc = "answered" => count[c].expected \subseteq count[c].names
=============================================================================
