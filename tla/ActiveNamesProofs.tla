------------------------- MODULE ActiveNamesProofs -------------------------
(***************************************************************************)
(* Theorems about ActiveNames, for every set of tenants, namespaces,       *)
(* names, flushes and counts and every bound.  The inductive invariant     *)
(* says what each flush may rely on at each of its steps, whatever the     *)
(* others did since the last one, and that a name is never between the     *)
(* buffer and the store: what left the one is in the other.                *)
(***************************************************************************)
EXTENDS ActiveNames, FiniteSetTheorems, TLAPS

Full(set) == Cardinality(set) >= MAX_SEEN_NAMES
Taken(names, set) == names \subseteq set \/ Full(set)

FlushSet ==
    [pc : FlushPc, tenant : Tenant \cup {None}, todo : SUBSET SetKey,
     names : [SetKey -> SUBSET Name], key : SetKey \cup {None}, token : SUBSET Name,
     set : SUBSET Name, list : SUBSET Period, refused : Nat, failed : BOOLEAN, report : Nat]

CountKey == SetKey \cup (Namespace \X {0}) \cup {None}
CountNames == (SUBSET Name) \cup (SUBSET Period)
CountSet ==
    [pc : {"idle", "read", "answered", "listed", "reported"}, key : CountKey,
     read : CountNames, expected : CountNames, names : CountNames]

\* What a flush may rely on, of stored sets `st` and lists `ps`: a set it is about to write
\* holds what it read and all the flush's names or as many as it may, its month is on the
\* list before it is written, and what is about to be forgotten is stored.
FlushSound(f, st, ps) ==
    /\ f \in FlushSet
    /\ f.pc # "idle" => f.tenant \in Tenant
    /\ f.pc \in {"read", "list", "write list", "write set", "forget"} => f.key \in SetKey
    /\ f.pc \in {"list", "write list", "write set"} =>
          /\ f.token \subseteq f.set
          /\ Taken(f.names[f.key], f.set)
          /\ Cardinality(f.set) <= MAX_SEEN_NAMES
    /\ f.pc = "write set" => f.key[2] \in ps[f.key[1]]
    /\ f.pc = "forget" => Taken(f.names[f.key], st[f.key])

\* Whether a count of `key` may leave a name out, as its set has it or is full, or the name
\* was buffered after the count was kept.
Excuses(key, name, st, ex) == name \in st[key] \/ Full(st[key]) \/ <<key, name>> \in ex

\* What a count or a report may rely on, of the buffer's sets `ss` besides.
CountSound(c, ss, st, ps, ex) ==
    /\ c \in CountSet
    /\ c.pc = "read" =>
          /\ c.key \in SetKey /\ c.read \in SUBSET Name
          /\ \A name \in c.expected :
                name \in c.read \/ name \in ss[c.key] \/ Excuses(c.key, name, st, ex)
    /\ c.pc = "answered" =>
          /\ c.key \in SetKey
          /\ \A name \in c.expected \ c.names : Excuses(c.key, name, st, ex)
    /\ c.pc = "listed" =>
          /\ c.key[1] \in Namespace /\ c.read \in SUBSET Period
          /\ \A m \in c.expected :
                /\ m \in Period
                /\ m \in c.read \/ m \in ps[c.key[1]] \/ ss[<<c.key[1], m>>] # {}
    /\ c.pc = "reported" =>
          /\ c.key[1] \in Namespace
          /\ c.expected \ c.names \subseteq ps[c.key[1]]

WorldOK ==
    /\ now \in Period
    /\ since \in 1..now
    /\ dropped \in [Tenant -> Nat]
    /\ failures \in 0..MaxFailures
    /\ crashes \in 0..MaxCrashes

Pairs(ss) == {pair \in SetKey \X Name : pair[2] \in ss[pair[1]]}

BufferOK ==
    /\ sets \in [SetKey -> SUBSET Name]
    /\ held = Cardinality(Pairs(sets))
    /\ held <= MAX_BUFFERED_NAMES

StoreOK ==
    /\ stored \in [SetKey -> SUBSET Name]
    /\ periods \in [Namespace -> SUBSET Period]
    /\ \A k \in SetKey : stored[k] # {} => k[2] \in periods[k[1]]
    /\ \A k \in SetKey : Cardinality(stored[k]) <= MAX_SEEN_NAMES

FlushesSound ==
    /\ flush = [f \in Flusher |-> flush[f]]
    /\ \A f \in Flusher : FlushSound(flush[f], stored, periods)

CountsSound ==
    /\ count = [c \in Counter |-> count[c]]
    /\ \A c \in Counter : CountSound(count[c], sets, stored, periods, excused)

\* A kept answer ends with its month, and was counted in it.
AnswersOK ==
    /\ answers \in [Namespace \X Name -> {0} \cup Period]
    /\ \A a \in Namespace \X Name : answers[a] <= now
    /\ \A ns \in Namespace, name \in Name :
          answers[<<ns, name>>] = now =>
              name \in sets[<<ns, now>>] \/ Excuses(<<ns, now>>, name, stored, excused)

\* A kept count is of a month that is over, and of its stored set.
KeptOK ==
    /\ counts \in [SetKey -> SUBSET SUBSET Name]
    /\ excused \subseteq SetKey \X Name
    /\ \A k \in SetKey : counts[k] # {} =>
          /\ counts[k] = {stored[k]}
          /\ CacheFiles /\ k[2] < now
          /\ \A name \in sets[k] : Excuses(k, name, stored, excused)

IInv ==
    /\ WorldOK /\ BufferOK /\ StoreOK
    /\ FlushesSound /\ CountsSound /\ AnswersOK /\ KeptOK

-----------------------------------------------------------------------------
(* Sets of names and their sizes. *)

LEMMA KeysFinite == IsFiniteSet(SetKey \X Name)
  <1>1. IsFiniteSet(Period)
    BY ActiveNamesAssumption, FS_Interval DEF Period
  <1>2. IsFiniteSet(SetKey)
    BY <1>1, ActiveNamesAssumption, FS_Product DEF SetKey
  <1> QED BY <1>2, ActiveNamesAssumption, FS_Product

\* A count of drops that stays at its bound is a number.
LEMMA CountedNat ==
    ASSUME NEW drops \in Nat PROVE Counted(drops) \in Nat
  BY ActiveNamesAssumption DEF Counted

LEMMA NamesFinite ==
    ASSUME NEW names \in SUBSET Name
    PROVE  IsFiniteSet(names) /\ Cardinality(names) \in Nat
  BY ActiveNamesAssumption, FS_Subset, FS_CardinalityType

\* A set that is full stays so as it grows, and so does one that has taken names.
LEMMA TakenGrows ==
    ASSUME NEW names, NEW set, NEW larger \in SUBSET Name, set \subseteq larger
    PROVE  /\ Full(set) => Full(larger)
           /\ Taken(names, set) => Taken(names, larger)
  <1>1. set \in SUBSET Name /\ Cardinality(set) \in Nat /\ Cardinality(larger) \in Nat
    BY NamesFinite
  <1>2. Cardinality(set) <= Cardinality(larger)
    BY NamesFinite, FS_Subset
  <1>3. Full(set) => Full(larger)
    BY <1>1, <1>2, ActiveNamesAssumption DEF Full
  <1> QED BY <1>3 DEF Taken

\* What is added to a stored set is new, fits, and is all there is or as much as fits.
LEMMA FitsSound ==
    ASSUME NEW names \in SUBSET Name, NEW set \in SUBSET Name,
           Cardinality(set) <= MAX_SEEN_NAMES, NEW added \in Fits(names, set)
    PROVE  /\ added \in SUBSET (names \ set)
           /\ Taken(names, set \cup added)
           /\ Cardinality(set \cup added) <= MAX_SEEN_NAMES
  <1> DEFINE new == names \ set
             room == IF Cardinality(set) >= MAX_SEEN_NAMES THEN 0
                     ELSE MAX_SEEN_NAMES - Cardinality(set)
  <1>1. /\ Cardinality(set) \in Nat /\ Cardinality(new) \in Nat
        /\ IsFiniteSet(set) /\ IsFiniteSet(new)
    BY NamesFinite
  <1>2. room = MAX_SEEN_NAMES - Cardinality(set) /\ MAX_SEEN_NAMES \in Nat
    BY <1>1, ActiveNamesAssumption
  <1>3. /\ added \in SUBSET new
        /\ \/ added = new /\ Cardinality(new) <= room
           \/ Cardinality(added) = room
    BY DEF Fits, kSubset
  <1>4. IsFiniteSet(added) /\ Cardinality(added) \in Nat
    BY <1>1, <1>3, FS_Subset, FS_CardinalityType
  <1>5. Cardinality(set \cup added) = Cardinality(set) + Cardinality(added)
    <2>1. set \cap added = {}
      BY <1>3
    <2>2. Cardinality(set \cup added) =
             Cardinality(set) + Cardinality(added) - Cardinality(set \cap added)
      BY <1>1, <1>4, FS_Union
    <2>3. Cardinality(set \cap added) = 0
      BY <2>1, FS_EmptySet
    <2> QED BY <1>1, <1>4, <2>2, <2>3
  <1>6. Cardinality(added) <= room
    BY <1>3, <1>2, <1>1
  <1>7. Cardinality(set \cup added) <= MAX_SEEN_NAMES
    BY <1>1, <1>2, <1>4, <1>5, <1>6
  <1>8. Taken(names, set \cup added)
    <2>1. CASE added = new
      BY <2>1 DEF Taken
    <2>2. CASE Cardinality(added) = room
      BY <1>1, <1>2, <1>4, <1>5, <2>2 DEF Taken, Full
    <2> QED BY <1>3, <2>1, <2>2
  <1> QED BY <1>3, <1>7, <1>8

LEMMA PairsFinite ==
    ASSUME NEW ss
    PROVE  IsFiniteSet(Pairs(ss)) /\ Cardinality(Pairs(ss)) \in Nat
  <1>1. Pairs(ss) \in SUBSET (SetKey \X Name)
    BY DEF Pairs
  <1> QED BY <1>1, KeysFinite, FS_Subset, FS_CardinalityType

LEMMA PairsAdd ==
    ASSUME NEW ss \in [SetKey -> SUBSET Name], NEW k \in SetKey, NEW name \in Name \ ss[k]
    PROVE  Cardinality(Pairs([ss EXCEPT ![k] = @ \cup {name}])) = Cardinality(Pairs(ss)) + 1
  <1>1. Pairs([ss EXCEPT ![k] = @ \cup {name}]) = Pairs(ss) \cup {<<k, name>>}
    BY DEF Pairs
  <1>2. <<k, name>> \notin Pairs(ss)
    BY DEF Pairs
  <1> QED BY <1>1, <1>2, PairsFinite, FS_AddElement

LEMMA PairsRemove ==
    ASSUME NEW ss \in [SetKey -> SUBSET Name], NEW k \in SetKey, NEW names \in SUBSET Name
    PROVE  Cardinality(Pairs([ss EXCEPT ![k] = @ \ names])) =
              Cardinality(Pairs(ss)) - Cardinality(ss[k] \cap names)
  <1> DEFINE gone == {k} \X (ss[k] \cap names)
  <1>1. Pairs([ss EXCEPT ![k] = @ \ names]) = Pairs(ss) \ gone
    BY DEF Pairs
  <1>2. Pairs(ss) \cap gone = gone
    BY DEF Pairs
  <1>3. Cardinality(gone) = Cardinality(ss[k] \cap names)
    <2>1. IsFiniteSet(ss[k] \cap names) /\ Cardinality(ss[k] \cap names) \in Nat
      BY NamesFinite
    <2>2. IsFiniteSet({k}) /\ Cardinality({k}) = 1
      BY FS_Singleton
    <2>3. Cardinality(gone) = Cardinality({k}) * Cardinality(ss[k] \cap names)
      BY <2>1, <2>2, FS_Product
    <2> QED BY <2>1, <2>2, <2>3
  <1> HIDE DEF gone
  <1>4. Cardinality(Pairs(ss) \ gone) = Cardinality(Pairs(ss)) - Cardinality(Pairs(ss) \cap gone)
    BY PairsFinite, FS_Difference
  <1> QED BY <1>1, <1>2, <1>3, <1>4

-----------------------------------------------------------------------------
(* What every step keeps. *)

Leaves ==
    \A k \in SetKey : \A name \in sets[k] \ sets'[k] : name \in stored[k] \/ Full(stored[k])

Grows ==
    /\ \A k \in SetKey : stored[k] \subseteq stored'[k]
    /\ \A ns \in Namespace : periods[ns] \subseteq periods'[ns]

\* As the store grows and the buffer gives up only what is stored, what is excused stays so,
\* and what is buffered stays or is excused.
LEMMA ExcusesStay ==
    ASSUME IInv, StoreOK', Grows, Leaves, excused \subseteq excused',
           NEW k \in SetKey, NEW name
    PROVE  /\ Excuses(k, name, stored, excused) => Excuses(k, name, stored', excused')
           /\ name \in sets[k] => name \in sets'[k] \/ Excuses(k, name, stored', excused')
  <1>1. stored'[k] \in SUBSET Name /\ stored[k] \subseteq stored'[k]
    BY DEF StoreOK, Grows
  <1>2. Full(stored[k]) => Full(stored'[k])
    BY <1>1, TakenGrows
  <1>3. Excuses(k, name, stored, excused) => Excuses(k, name, stored', excused')
    BY <1>1, <1>2 DEF Excuses
  <1> QED BY <1>3 DEF Leaves, Excuses

\* A month is not between the buffer and the list.
LEMMA MonthStays ==
    ASSUME IInv, StoreOK', Grows, Leaves, NEW k \in SetKey, sets[k] # {}, sets'[k] = {}
    PROVE  k[2] \in periods'[k[1]]
  <1>1. PICK name \in sets[k] : name \in stored[k] \/ Full(stored[k])
    BY DEF Leaves
  <1>2. stored[k] \in SUBSET Name
    BY DEF IInv, StoreOK
  <1>3. stored[k] # {}
    <2>1. ASSUME stored[k] = {} PROVE ~Full(stored[k])
      BY <2>1, FS_EmptySet, ActiveNamesAssumption DEF Full
    <2> QED BY <1>1, <2>1
  <1>4. stored'[k] # {}
    BY <1>3 DEF Grows
  <1> QED BY <1>4 DEF StoreOK

LEMMA FlushStays ==
    ASSUME StoreOK, StoreOK', Grows, NEW f, FlushSound(f, stored, periods)
    PROVE  FlushSound(f, stored', periods')
  <1>1. CASE f.pc = "forget"
    <2>1. f.key \in SetKey /\ Taken(f.names[f.key], stored[f.key])
      BY <1>1 DEF FlushSound
    <2>2. stored'[f.key] \in SUBSET Name /\ stored[f.key] \subseteq stored'[f.key]
      BY <2>1 DEF StoreOK, Grows
    <2>3. Taken(f.names[f.key], stored'[f.key])
      BY <2>1, <2>2, TakenGrows
    <2> QED BY <1>1, <2>3 DEF FlushSound
  <1>2. CASE f.pc = "write set"
    <2>1. f.key \in SetKey /\ f.key[2] \in periods[f.key[1]]
      BY <1>2 DEF FlushSound
    <2>2. f.key[1] \in Namespace
      BY <2>1 DEF SetKey
    <2> QED BY <1>2, <2>1, <2>2 DEF FlushSound, Grows
  <1>3. CASE f.pc \notin {"forget", "write set"}
    BY <1>3 DEF FlushSound
  <1> QED BY <1>1, <1>2, <1>3

LEMMA CountStays ==
    ASSUME IInv, StoreOK', Grows, Leaves, excused \subseteq excused',
           NEW c, CountSound(c, sets, stored, periods, excused)
    PROVE  CountSound(c, sets', stored', periods', excused')
  <1>1. CASE c.pc = "read"
    BY <1>1, ExcusesStay DEF CountSound
  <1>2. CASE c.pc = "answered"
    BY <1>2, ExcusesStay DEF CountSound
  <1>3. CASE c.pc = "listed"
    <2>1. c.key[1] \in Namespace
      BY <1>3 DEF CountSound
    <2>2. ASSUME NEW m \in c.expected
          PROVE  m \in Period /\ (m \in c.read \/ m \in periods'[c.key[1]]
                                  \/ sets'[<<c.key[1], m>>] # {})
      <3>1. /\ m \in Period
            /\ m \in c.read \/ m \in periods[c.key[1]] \/ sets[<<c.key[1], m>>] # {}
        BY <1>3, <2>2 DEF CountSound
      <3>2. <<c.key[1], m>> \in SetKey
        BY <2>1, <3>1 DEF SetKey
      <3>3. sets[<<c.key[1], m>>] # {} =>
               m \in periods'[c.key[1]] \/ sets'[<<c.key[1], m>>] # {}
        BY <3>2, MonthStays
      <3>4. periods[c.key[1]] \subseteq periods'[c.key[1]]
        BY <2>1 DEF Grows
      <3> QED BY <3>1, <3>3, <3>4
    <2> QED BY <1>3, <2>2 DEF CountSound
  <1>4. CASE c.pc = "reported"
    <2>1. c.key[1] \in Namespace /\ c.expected \ c.names \subseteq periods[c.key[1]]
      BY <1>4 DEF CountSound
    <2>2. periods[c.key[1]] \subseteq periods'[c.key[1]]
      BY <2>1 DEF Grows
    <2> QED BY <1>4, <2>1, <2>2 DEF CountSound
  <1>5. CASE c.pc \notin {"read", "answered", "listed", "reported"}
    BY <1>5 DEF CountSound
  <1> QED BY <1>1, <1>2, <1>3, <1>4, <1>5

\* One flush moves and the others stay as they were.
LEMMA FlushMoves ==
    ASSUME StoreOK, StoreOK', Grows, FlushesSound, NEW f \in Flusher, NEW g,
           FlushSound(g, stored', periods'), flush' = [flush EXCEPT ![f] = g]
    PROVE  FlushesSound'
  <1>1. \A h \in Flusher : FlushSound(flush[h], stored', periods')
    BY FlushStays DEF FlushesSound
  <1>2. \A h \in Flusher : FlushSound(flush'[h], stored', periods')
    BY <1>1 DEF FlushesSound
  <1>3. flush' = [h \in Flusher |-> flush'[h]]
    BY DEF FlushesSound
  <1> QED BY <1>2, <1>3 DEF FlushesSound

LEMMA FlushesStay ==
    ASSUME StoreOK, StoreOK', Grows, FlushesSound, flush' = flush
    PROVE  FlushesSound'
  <1>1. \A h \in Flusher : FlushSound(flush[h], stored', periods')
    BY FlushStays DEF FlushesSound
  <1> QED BY <1>1 DEF FlushesSound

\* One count moves, or none, and the others stay as they were.
LEMMA CountMoves ==
    ASSUME IInv, StoreOK', Grows, Leaves, excused \subseteq excused', NEW c \in Counter, NEW g,
           CountSound(g, sets', stored', periods', excused'), count' = [count EXCEPT ![c] = g]
    PROVE  CountsSound'
  <1>1. \A h \in Counter : CountSound(count[h], sets', stored', periods', excused')
    BY CountStays DEF IInv, CountsSound
  <1>2. \A h \in Counter : CountSound(count'[h], sets', stored', periods', excused')
    BY <1>1 DEF IInv, CountsSound
  <1>3. count' = [h \in Counter |-> count'[h]]
    BY DEF IInv, CountsSound
  <1> QED BY <1>2, <1>3 DEF CountsSound

LEMMA CountsStay ==
    ASSUME IInv, StoreOK', Grows, Leaves, excused \subseteq excused', count' = count
    PROVE  CountsSound'
  <1>1. \A h \in Counter : CountSound(count[h], sets', stored', periods', excused')
    BY CountStays DEF IInv, CountsSound
  <1> QED BY <1>1 DEF IInv, CountsSound

LEMMA AnswersStay ==
    ASSUME IInv, StoreOK', Grows, Leaves, excused \subseteq excused', UNCHANGED <<answers, now>>
    PROVE  AnswersOK'
  <1>1. ASSUME NEW ns \in Namespace, NEW name \in Name, answers[<<ns, name>>] = now
        PROVE  name \in sets'[<<ns, now>>] \/ Excuses(<<ns, now>>, name, stored', excused')
    <2>1. <<ns, now>> \in SetKey
      BY DEF IInv, WorldOK, SetKey
    <2>2. name \in sets[<<ns, now>>] \/ Excuses(<<ns, now>>, name, stored, excused)
      BY <1>1 DEF IInv, AnswersOK
    <2> QED BY <2>1, <2>2, ExcusesStay
  <1> QED BY <1>1 DEF IInv, AnswersOK

\* A kept count stays true while its set is not written and nothing new is buffered.
LEMMA KeptStays ==
    ASSUME IInv, StoreOK', Grows, Leaves, UNCHANGED <<counts, excused, now>>,
           \A k \in SetKey : sets'[k] \subseteq sets[k],
           \A k \in SetKey : counts[k] # {} => stored'[k] = stored[k]
    PROVE  KeptOK'
  <1>1. ASSUME NEW k \in SetKey, counts[k] # {}
        PROVE  \A name \in sets'[k] : Excuses(k, name, stored', excused')
    <2>1. \A name \in sets[k] : Excuses(k, name, stored, excused)
      BY <1>1 DEF IInv, KeptOK
    <2> QED BY <2>1, ExcusesStay
  <1> QED BY <1>1 DEF IInv, KeptOK

\* A step of a flush that changes neither the buffer nor the store.
LEMMA FlushOnly ==
    ASSUME IInv, NEW f \in Flusher, NEW g, FlushSound(g, stored, periods),
           flush' = [flush EXCEPT ![f] = g],
           UNCHANGED <<now, buffer, store, count, cache, crashes>>,
           failures' \in 0..MaxFailures
    PROVE  IInv' /\ Grows /\ Leaves
  <1>1. Grows /\ Leaves /\ WorldOK' /\ BufferOK' /\ StoreOK'
    BY DEF IInv, Grows, Leaves, WorldOK, BufferOK, StoreOK, Pairs, buffer, store, cache
  <1>2. FlushSound(g, stored', periods')
    BY DEF store
  <1>3. FlushesSound'
    BY <1>1, <1>2, FlushMoves DEF IInv
  <1>4. CountsSound' /\ AnswersOK' /\ KeptOK'
    BY <1>1, CountsStay, AnswersStay, KeptStays DEF buffer, store, cache
  <1> QED BY <1>1, <1>3, <1>4 DEF IInv

-----------------------------------------------------------------------------
(* Each action keeps the invariant, and the store grows and the buffer gives up only what   *)
(* is stored, but at a crash.                                                               *)

LEMMA IdleSound ==
    FlushSound(IdleFlush, stored, periods)
  BY DEF FlushSound, FlushSet, IdleFlush, FlushPc, None, NoNames

Busy == {"read", "list", "write list", "write set", "forget"}

\* A flush that is done with its set, having given it up or not, keeps what it holds.
LEMMA DoneSound ==
    ASSUME NEW f, NEW st, NEW ps, FlushSound(flush[f], st, ps), flush[f].pc \in Busy,
           NEW failed \in BOOLEAN
    PROVE  FlushSound(Done(f, failed), st, ps)
  <1>1. /\ flush[f] \in FlushSet /\ flush[f].tenant \in Tenant
        /\ flush[f].failed \in BOOLEAN
    BY DEF FlushSound, FlushSet, Busy
  <1>2. [flush[f].names EXCEPT ![flush[f].key] = {}] \in [SetKey -> SUBSET Name]
    BY <1>1 DEF FlushSet
  <1>3. flush[f].todo \ {flush[f].key} \in SUBSET SetKey
    BY <1>1 DEF FlushSet
  <1> QED BY <1>1, <1>2, <1>3 DEF FlushSound, FlushSet, Done, IdleFlush, FlushPc, None

LEMMA GiveUpMoves ==
    ASSUME FlushesSound, NEW f \in Flusher, GiveUp(f), flush[f].pc \in Busy, WorldOK,
           NEW st, NEW ps, FlushSound(flush[f], st, ps)
    PROVE  /\ failures' \in 0..MaxFailures
           /\ \E g : FlushSound(g, st, ps) /\ flush' = [flush EXCEPT ![f] = g]
  <1>1. FlushSound(Done(f, TRUE), st, ps)
    BY DoneSound
  <1>2. flush' = [flush EXCEPT ![f] = Done(f, TRUE)]
    BY DEF GiveUp
  <1>3. failures' \in 0..MaxFailures
    BY ActiveNamesAssumption DEF GiveUp, WorldOK
  <1> QED BY <1>1, <1>2, <1>3

LEMMA SnapshotSound ==
    ASSUME IInv, NEW tenant \in Tenant, NEW keys \in SUBSET SetKey
    PROVE  FlushSound(Snapshot(tenant, keys), stored, periods)
  <1>1. [k \in SetKey |-> IF k \in keys THEN sets[k] ELSE {}] \in [SetKey -> SUBSET Name]
    BY DEF IInv, BufferOK
  <1> QED BY <1>1 DEF FlushSound, FlushSet, Snapshot, IdleFlush, FlushPc, None

LEMMA BeginFlushStep ==
    ASSUME IInv, NEW f \in Flusher, NEW tenant \in Tenant, BeginFlush(f, tenant)
    PROVE  IInv' /\ Grows /\ Leaves
  <1> DEFINE keys == {k \in SetKey : TenantOf[k[1]] = tenant /\ sets[k] # {}}
  <1>1. FlushSound(Snapshot(tenant, keys), stored, periods)
    BY SnapshotSound
  <1> QED BY <1>1, FlushOnly DEF BeginFlush, IInv, WorldOK

LEMMA NextKeyStep ==
    ASSUME IInv, NEW f \in Flusher, NEW key \in SetKey, NextKey(f, key)
    PROVE  IInv' /\ Grows /\ Leaves
  <1> DEFINE g == [flush[f] EXCEPT !.pc = "read", !.key = key]
  <1>1. FlushSound(flush[f], stored, periods)
    BY DEF IInv, FlushesSound
  <1>2. FlushSound(g, stored, periods)
    BY <1>1 DEF FlushSound, FlushSet, FlushPc, NextKey
  <1>3. flush' = [flush EXCEPT ![f] = g]
    BY <1>1 DEF NextKey, FlushSound, FlushSet
  <1> HIDE DEF g
  <1> QED BY <1>2, <1>3, FlushOnly DEF NextKey, IInv, WorldOK

LEMMA ReadSetStep ==
    ASSUME IInv, NEW f \in Flusher, ReadSet(f)
    PROVE  IInv' /\ Grows /\ Leaves
  <1> DEFINE key == flush[f].key
             names == flush[f].names[key]
  <1>1. FlushSound(flush[f], stored, periods) /\ flush[f].pc = "read" /\ flush[f] \in FlushSet
    BY DEF IInv, FlushesSound, ReadSet, FlushSound
  <1>2. key \in SetKey /\ names \in SUBSET Name /\ stored[key] \in SUBSET Name
    BY <1>1 DEF FlushSound, FlushSet, IInv, StoreOK
  <1>3. CASE GiveUp(f)
    <2>1. /\ failures' \in 0..MaxFailures
          /\ \E g : FlushSound(g, stored, periods) /\ flush' = [flush EXCEPT ![f] = g]
      BY <1>1, <1>3, GiveUpMoves DEF IInv, Busy
    <2> QED BY <2>1, FlushOnly DEF ReadSet
  <1>4. ASSUME NEW added \in Fits(names, stored[key]), UNCHANGED failures,
               flush' = [flush EXCEPT
                      ![f].pc = IF added = {} THEN "forget" ELSE "list",
                      ![f].token = stored[key],
                      ![f].set = stored[key] \cup added,
                      ![f].refused = Cardinality((names \ stored[key]) \ added)]
        PROVE  IInv' /\ Grows /\ Leaves
    <2> DEFINE left == Cardinality((names \ stored[key]) \ added)
               g == [flush[f] EXCEPT !.pc = IF added = {} THEN "forget" ELSE "list",
                        !.token = stored[key], !.set = stored[key] \cup added,
                        !.refused = left]
    <2>0. Cardinality(stored[key]) <= MAX_SEEN_NAMES
      BY <1>2 DEF IInv, StoreOK
    <2>1. /\ added \in SUBSET (names \ stored[key])
          /\ Taken(names, stored[key] \cup added)
          /\ Cardinality(stored[key] \cup added) <= MAX_SEEN_NAMES
      <3>1. PICK new \in Fits(names, stored[key]) : new = added
        BY <1>4
      <3> HIDE DEF key, names
      <3> QED BY <1>2, <2>0, <3>1, FitsSound
    <2>2. left \in Nat
      BY <1>2, NamesFinite
    <2> HIDE DEF left
    <2>3. g \in FlushSet
      BY <1>1, <1>2, <2>1, <2>2 DEF FlushSet, FlushPc
    <2>4. added = {} => Taken(names, stored[key])
      BY <2>1
    <2>5. FlushSound(g, stored, periods)
      BY <1>1, <1>2, <2>1, <2>3, <2>4 DEF FlushSound, FlushSet
    <2>6. flush' = [flush EXCEPT ![f] = g]
      BY <1>1, <1>4 DEF FlushSet, left
    <2> HIDE DEF g
    <2> QED BY <1>4, <2>5, <2>6, FlushOnly DEF ReadSet, IInv, WorldOK
  <1> QED BY <1>3, <1>4 DEF ReadSet

LEMMA ReadListStep ==
    ASSUME IInv, NEW f \in Flusher, ReadList(f)
    PROVE  IInv' /\ Grows /\ Leaves
  <1> DEFINE key == flush[f].key
             g == [flush[f] EXCEPT
                     !.pc = IF key[2] \in periods[key[1]] THEN "write set" ELSE "write list",
                     !.list = periods[key[1]]]
  <1>1. FlushSound(flush[f], stored, periods) /\ flush[f].pc = "list" /\ flush[f] \in FlushSet
    BY DEF IInv, FlushesSound, ReadList, FlushSound
  <1>2. CASE GiveUp(f)
    <2>1. /\ failures' \in 0..MaxFailures
          /\ \E h : FlushSound(h, stored, periods) /\ flush' = [flush EXCEPT ![f] = h]
      BY <1>1, <1>2, GiveUpMoves DEF IInv, Busy
    <2> QED BY <2>1, FlushOnly DEF ReadList
  <1>3. CASE UNCHANGED failures /\ ~GiveUp(f)
    <2>1. key \in SetKey /\ key[1] \in Namespace
      BY <1>1 DEF FlushSound, SetKey
    <2>2. periods[key[1]] \in SUBSET Period
      BY <2>1 DEF IInv, StoreOK
    <2>3. g \in FlushSet
      BY <1>1, <2>2 DEF FlushSet, FlushPc
    <2>4. FlushSound(g, stored, periods)
      BY <1>1, <2>1, <2>3 DEF FlushSound, FlushSet
    <2>5. flush' = [flush EXCEPT ![f] = g]
      BY <1>1, <1>3 DEF FlushSet, ReadList
    <2> HIDE DEF g
    <2> QED BY <1>3, <2>4, <2>5, FlushOnly DEF ReadList, IInv, WorldOK
  <1> QED BY <1>2, <1>3 DEF ReadList

\* A step of a flush that writes a list or a set, no more than what it may.
LEMMA StoreWritten ==
    ASSUME IInv, NEW f \in Flusher, NEW g, FlushSound(g, stored', periods'),
           flush' = [flush EXCEPT ![f] = g], StoreOK', Grows,
           UNCHANGED <<now, buffer, count, since, answers, excused, crashes>>,
           failures' \in 0..MaxFailures, KeptOK'
    PROVE  IInv' /\ Leaves
  <1>1. Leaves /\ WorldOK' /\ BufferOK'
    BY DEF IInv, Leaves, WorldOK, BufferOK, Pairs, buffer
  <1>2. FlushesSound'
    BY FlushMoves DEF IInv
  <1>3. CountsSound' /\ AnswersOK'
    BY <1>1, CountsStay, AnswersStay
  <1> QED BY <1>1, <1>2, <1>3 DEF IInv

LEMMA WriteListStep ==
    ASSUME IInv, NEW f \in Flusher, WriteList(f)
    PROVE  IInv' /\ Grows /\ Leaves
  <1> DEFINE key == flush[f].key
             written == [periods EXCEPT ![key[1]] = flush[f].list \cup {key[2]}]
  <1>1. /\ FlushSound(flush[f], stored, periods) /\ flush[f].pc = "write list"
        /\ flush[f] \in FlushSet
    BY DEF IInv, FlushesSound, WriteList, FlushSound
  <1>2. key \in SetKey /\ key[1] \in Namespace /\ key[2] \in Period
    BY <1>1 DEF FlushSound, SetKey
  <1>3. /\ UNCHANGED <<now, buffer, stored, count, since, answers, counts, excused, crashes>>
        /\ periods' = periods \/ (periods' = written /\ periods[key[1]] = flush[f].list)
    BY DEF WriteList, cache
  <1>4. Grows /\ StoreOK'
    <2>1. periods[key[1]] \in SUBSET Period
      BY <1>2 DEF IInv, StoreOK
    <2>2. periods' \in [Namespace -> SUBSET Period]
      BY <1>2, <1>3, <2>1 DEF IInv, StoreOK
    <2>3. Grows
      BY <1>2, <1>3 DEF IInv, StoreOK, Grows
    <2>4. ASSUME NEW k \in SetKey, stored'[k] # {}
          PROVE  k[2] \in periods'[k[1]]
      <3>1. k[1] \in Namespace /\ k[2] \in periods[k[1]]
        BY <1>3, <2>4 DEF IInv, StoreOK, SetKey
      <3> QED BY <2>3, <3>1 DEF Grows
    <2> QED BY <1>3, <2>2, <2>3, <2>4 DEF IInv, StoreOK
  <1>5. KeptOK'
    BY <1>3 DEF IInv, KeptOK, buffer
  <1>6. FlushSound(flush[f], stored', periods')
    BY <1>1, <1>4, FlushStays DEF IInv
  <1>7. /\ failures' \in 0..MaxFailures
        /\ \E g : FlushSound(g, stored', periods') /\ flush' = [flush EXCEPT ![f] = g]
    <2>1. CASE GiveUp(f)
      BY <1>1, <1>6, <2>1, GiveUpMoves DEF IInv, Busy
    <2>2. CASE UNCHANGED failures /\ flush' = [flush EXCEPT ![f] = Done(f, TRUE)]
      <3>1. FlushSound(Done(f, TRUE), stored', periods')
        BY <1>1, <1>6, DoneSound DEF Busy
      <3> QED BY <2>2, <3>1 DEF IInv, WorldOK
    <2>3. CASE /\ UNCHANGED failures /\ periods' = written
               /\ flush' = [flush EXCEPT ![f].pc = "write set"]
      <3> DEFINE g == [flush[f] EXCEPT !.pc = "write set"]
      <3>1. key[2] \in periods'[key[1]]
        BY <1>2, <2>3 DEF IInv, StoreOK
      <3>2. FlushSound(g, stored', periods')
        BY <1>1, <1>6, <3>1 DEF FlushSound, FlushSet, FlushPc
      <3>3. flush' = [flush EXCEPT ![f] = g]
        BY <1>1, <2>3 DEF FlushSet
      <3> HIDE DEF g
      <3> QED BY <2>3, <3>2, <3>3 DEF IInv, WorldOK
    <2> QED BY <2>1, <2>2, <2>3 DEF WriteList
  <1> QED BY <1>3, <1>4, <1>5, <1>7, StoreWritten

LEMMA WriteSetStep ==
    ASSUME IInv, NEW f \in Flusher, WriteSet(f)
    PROVE  IInv' /\ Grows /\ Leaves
  <1> DEFINE key == flush[f].key
             written == [stored EXCEPT ![key] = flush[f].set]
  <1>1. /\ FlushSound(flush[f], stored, periods) /\ flush[f].pc = "write set"
        /\ flush[f] \in FlushSet
    BY DEF IInv, FlushesSound, WriteSet, FlushSound
  <1>2. /\ key \in SetKey /\ key[1] \in Namespace /\ key[2] \in periods[key[1]]
        /\ flush[f].set \in SUBSET Name /\ flush[f].token \subseteq flush[f].set
        /\ Cardinality(flush[f].set) <= MAX_SEEN_NAMES
        /\ Taken(flush[f].names[key], flush[f].set)
    BY <1>1 DEF FlushSound, SetKey, FlushSet
  <1>3. /\ UNCHANGED <<now, buffer, periods, count, since, answers, excused, crashes>>
        /\ stored' = stored \/ (stored' = written /\ stored[key] = flush[f].token)
        /\ counts' = IF stored' = stored THEN counts ELSE [counts EXCEPT ![key] = {}]
    BY DEF WriteSet
  <1>4. Grows /\ StoreOK'
    BY <1>2, <1>3 DEF IInv, StoreOK, Grows
  <1>5. KeptOK'
    <2>1. counts' \in [SetKey -> SUBSET SUBSET Name]
      BY <1>3 DEF IInv, KeptOK
    <2>2. ASSUME NEW k \in SetKey, counts'[k] # {}
          PROVE  stored'[k] = stored[k] /\ counts'[k] = counts[k]
      BY <1>2, <1>3, <2>2 DEF IInv, KeptOK, StoreOK
    <2> QED BY <1>3, <2>1, <2>2 DEF IInv, KeptOK, Excuses, buffer
  <1>6. FlushSound(flush[f], stored', periods')
    BY <1>1, <1>4, FlushStays DEF IInv
  <1>7. /\ failures' \in 0..MaxFailures
        /\ \E g : FlushSound(g, stored', periods') /\ flush' = [flush EXCEPT ![f] = g]
    <2>1. CASE GiveUp(f)
      BY <1>1, <1>6, <2>1, GiveUpMoves DEF IInv, Busy
    <2>2. CASE UNCHANGED failures /\ flush' = [flush EXCEPT ![f] = Done(f, TRUE)]
      <3>1. FlushSound(Done(f, TRUE), stored', periods')
        BY <1>1, <1>6, DoneSound DEF Busy
      <3> QED BY <2>2, <3>1 DEF IInv, WorldOK
    <2>3. CASE /\ UNCHANGED failures /\ stored' = written
               /\ flush' = [flush EXCEPT ![f].pc = "forget"]
      <3> DEFINE g == [flush[f] EXCEPT !.pc = "forget"]
      <3>1. stored'[key] = flush[f].set
        BY <1>2, <2>3 DEF IInv, StoreOK
      <3>2. FlushSound(g, stored', periods')
        BY <1>1, <1>2, <1>6, <3>1 DEF FlushSound, FlushSet, FlushPc
      <3>3. flush' = [flush EXCEPT ![f] = g]
        BY <1>1, <2>3 DEF FlushSet
      <3> HIDE DEF g
      <3> QED BY <2>3, <3>2, <3>3 DEF IInv, WorldOK
    <2> QED BY <2>1, <2>2, <2>3 DEF WriteSet
  <1> QED BY <1>3, <1>4, <1>5, <1>7, StoreWritten

LEMMA ForgetStep ==
    ASSUME IInv, NEW f \in Flusher, Forget(f)
    PROVE  IInv' /\ Grows /\ Leaves
  <1> DEFINE key == flush[f].key
             written == flush[f].names[key]
             g == Done(f, FALSE)
  <1>1. /\ FlushSound(flush[f], stored, periods) /\ flush[f].pc = "forget"
        /\ flush[f] \in FlushSet
    BY DEF IInv, FlushesSound, Forget, FlushSound
  <1>2. /\ key \in SetKey /\ written \in SUBSET Name /\ Taken(written, stored[key])
        /\ flush[f].tenant \in Tenant /\ flush[f].refused \in Nat /\ flush[f].failed \in BOOLEAN
    BY <1>1 DEF FlushSound, FlushSet
  <1>3. /\ sets' = [sets EXCEPT ![key] = @ \ written]
        /\ held' = held - Cardinality(sets[key] \cap written)
        /\ dropped' = [dropped EXCEPT ![flush[f].tenant] = Counted(@ + flush[f].refused)]
        /\ flush' = [flush EXCEPT ![f] = g]
        /\ UNCHANGED <<now, stored, periods, count, since, answers, counts, excused,
                       failures, crashes>>
    BY DEF Forget, store, cache
  <1>4. WorldOK' /\ StoreOK' /\ Grows
    <2>1. StoreOK' /\ Grows
      BY <1>3 DEF IInv, StoreOK, Grows
    <2>2. dropped' \in [Tenant -> Nat]
      BY <1>2, <1>3, CountedNat DEF IInv, WorldOK
    <2> QED BY <1>3, <2>1, <2>2 DEF IInv, WorldOK
  <1>5. Leaves
    BY <1>2, <1>3 DEF IInv, BufferOK, Leaves, Taken
  <1>6. BufferOK'
    <2>1. sets' \in [SetKey -> SUBSET Name]
      BY <1>2, <1>3 DEF IInv, BufferOK
    <2>2. held' = Cardinality(Pairs(sets'))
      BY <1>2, <1>3, PairsRemove DEF IInv, BufferOK
    <2>3. held \in Nat /\ held <= MAX_BUFFERED_NAMES
      BY PairsFinite DEF IInv, BufferOK
    <2>4. sets[key] \cap written \in SUBSET Name
      BY <1>2
    <2>5. Cardinality(sets[key] \cap written) \in Nat
      BY <2>4, NamesFinite
    <2>6. held' <= MAX_BUFFERED_NAMES
      BY <1>3, <2>3, <2>5, ActiveNamesAssumption
    <2> QED BY <2>1, <2>2, <2>6 DEF BufferOK
  <1>7. FlushSound(g, stored', periods')
    <2>1. FlushSound(flush[f], stored', periods')
      BY <1>1, <1>4, FlushStays DEF IInv
    <2> QED BY <1>1, <2>1, DoneSound DEF Busy
  <1>8. flush' = [flush EXCEPT ![f] = g]
    BY <1>3
  <1>9. FlushesSound'
    <2> HIDE DEF g
    <2> QED BY <1>4, <1>7, <1>8, FlushMoves DEF IInv
  <1>10. CountsSound' /\ AnswersOK'
    BY <1>3, <1>4, <1>5, CountsStay, AnswersStay
  <1>11. KeptOK'
    <2>1. \A k \in SetKey : sets'[k] \subseteq sets[k]
      BY <1>2, <1>3 DEF IInv, BufferOK
    <2> QED BY <1>3, <1>4, <1>5, <2>1, KeptStays
  <1> QED BY <1>4, <1>5, <1>6, <1>9, <1>10, <1>11 DEF IInv

LEMMA ReportStep ==
    ASSUME IInv, NEW f \in Flusher, Report(f)
    PROVE  IInv' /\ Grows /\ Leaves
  <1> DEFINE g == IF flush[f].failed THEN IdleFlush
                  ELSE [flush[f] EXCEPT !.pc = "clear", !.report = dropped[flush[f].tenant]]
  <1>1. /\ FlushSound(flush[f], stored, periods) /\ flush[f].pc = "next"
        /\ flush[f] \in FlushSet
    BY DEF IInv, FlushesSound, Report, FlushSound
  <1>2. dropped[flush[f].tenant] \in Nat
    BY <1>1 DEF FlushSound, IInv, WorldOK
  <1>3. FlushSound(g, stored, periods)
    BY <1>1, <1>2, IdleSound DEF FlushSound, FlushSet, FlushPc
  <1>4. flush' = [flush EXCEPT ![f] = g]
    BY <1>1 DEF Report, FlushSet
  <1> HIDE DEF g
  <1> QED BY <1>3, <1>4, FlushOnly DEF Report, IInv, WorldOK

LEMMA ClearStep ==
    ASSUME IInv, NEW f \in Flusher, Clear(f)
    PROVE  IInv' /\ Grows /\ Leaves
  <1>1. UNCHANGED <<now, sets, held, stored, periods, count, since, answers, counts, excused,
                    failures, crashes>>
    BY DEF Clear, store, cache
  <1>2. Grows /\ Leaves /\ BufferOK' /\ StoreOK'
    BY <1>1 DEF IInv, Grows, Leaves, BufferOK, StoreOK, Pairs
  <1>3. WorldOK'
    BY <1>1 DEF IInv, WorldOK, Clear
  <1>4. FlushSound(IdleFlush, stored', periods')
    BY <1>1, IdleSound
  <1>5. FlushesSound'
    BY <1>2, <1>4, FlushMoves DEF IInv, Clear
  <1>6. CountsSound' /\ AnswersOK' /\ KeptOK'
    BY <1>1, <1>2, CountsStay, AnswersStay, KeptStays
  <1> QED BY <1>2, <1>3, <1>5, <1>6 DEF IInv

\* What changes neither the buffer nor the store leaves the flushes as they were.
LEMMA Quiet ==
    ASSUME IInv, UNCHANGED <<now, buffer, store, flush, since, failures, crashes>>
    PROVE  /\ Grows /\ Leaves
           /\ WorldOK' /\ BufferOK' /\ StoreOK' /\ FlushesSound'
  <1>1. Grows /\ Leaves /\ WorldOK' /\ BufferOK' /\ StoreOK'
    BY DEF IInv, Grows, Leaves, WorldOK, BufferOK, StoreOK, Pairs, buffer, store
  <1> QED BY <1>1, FlushesStay DEF IInv

\* A step of a count that keeps nothing.
LEMMA CountOnly ==
    ASSUME IInv, NEW c \in Counter, NEW g, CountSound(g, sets, stored, periods, excused),
           count' = [count EXCEPT ![c] = g],
           UNCHANGED <<now, buffer, store, flush, cache, failures, crashes>>
    PROVE  IInv' /\ Grows /\ Leaves
  <1>1. /\ Grows /\ Leaves
        /\ WorldOK' /\ BufferOK' /\ StoreOK' /\ FlushesSound'
    BY Quiet DEF cache
  <1>2. CountSound(g, sets', stored', periods', excused')
    BY DEF buffer, store, cache
  <1>3. CountsSound'
    BY <1>1, <1>2, CountMoves DEF cache
  <1>4. AnswersOK' /\ KeptOK'
    BY <1>1, AnswersStay, KeptStays DEF buffer, store, cache
  <1> QED BY <1>1, <1>3, <1>4 DEF IInv

LEMMA BeginCountStep ==
    ASSUME IInv, NEW c \in Counter, NEW key \in SetKey, BeginCount(c, key)
    PROVE  IInv' /\ Grows /\ Leaves
  <1> DEFINE g == Begun("read", key, stored[key], stored[key] \cup sets[key])
  <1>1. stored[key] \in SUBSET Name /\ sets[key] \in SUBSET Name
    BY DEF IInv, StoreOK, BufferOK
  <1>2. CountSound(g, sets, stored, periods, excused)
    BY <1>1 DEF CountSound, CountSet, CountKey, CountNames, Begun
  <1>3. count' = [count EXCEPT ![c] = g]
    BY DEF BeginCount
  <1> HIDE DEF g
  <1> QED BY <1>2, <1>3, CountOnly DEF BeginCount

LEMMA CountFromCacheStep ==
    ASSUME IInv, NEW c \in Counter, NEW key \in SetKey, CountFromCache(c, key)
    PROVE  IInv' /\ Grows /\ Leaves
  <1> DEFINE g(names) == [Begun("answered", key, {}, stored[key] \cup sets[key])
                            EXCEPT !.names = names]
  <1>1. PICK names \in counts[key] : count' = [count EXCEPT ![c] = g(names)]
    BY DEF CountFromCache
  <1>2. /\ names = stored[key]
        /\ \A name \in sets[key] : Excuses(key, name, stored, excused)
        /\ stored[key] \in SUBSET Name /\ sets[key] \in SUBSET Name
    BY <1>1 DEF IInv, KeptOK, StoreOK, BufferOK
  <1>3. CountSound(g(names), sets, stored, periods, excused)
    BY <1>2 DEF CountSound, CountSet, CountKey, CountNames, Begun
  <1> HIDE DEF g
  <1> QED BY <1>1, <1>3, CountOnly DEF CountFromCache

LEMMA EndCountStep ==
    ASSUME IInv, NEW c \in Counter, EndCount(c)
    PROVE  IInv' /\ Grows /\ Leaves
  <1> DEFINE key == count[c].key
             names == count[c].read \cup sets[key]
             kept == CacheFiles /\ Settled(key, count[c].read) /\ count[c].read = stored[key]
             g == [count[c] EXCEPT !.pc = "answered", !.read = {}, !.names = names]
  <1>1. /\ CountSound(count[c], sets, stored, periods, excused) /\ count[c] \in CountSet
        /\ count[c].pc = "read"
    BY DEF IInv, CountsSound, CountSound, EndCount
  <1>2. /\ key \in SetKey /\ count[c].read \in SUBSET Name /\ sets[key] \in SUBSET Name
    BY <1>1 DEF CountSound, IInv, BufferOK
  <1>3. CountSound(g, sets, stored, periods, excused)
    <2>1. g \in CountSet
      BY <1>1, <1>2 DEF CountSet, CountNames
    <2>2. \A name \in count[c].expected \ names : Excuses(key, name, stored, excused)
      BY <1>1 DEF CountSound
    <2> QED BY <1>1, <1>2, <2>1, <2>2 DEF CountSound, CountSet
  <1>4. count' = [count EXCEPT ![c] = g]
    BY <1>1 DEF EndCount, CountSet
  <1>5. /\ UNCHANGED <<now, buffer, store, flush, since, answers, excused, failures, crashes>>
        /\ counts' = IF kept THEN [counts EXCEPT ![key] = {names}] ELSE counts
    BY DEF EndCount
  <1>6. /\ Grows /\ Leaves
        /\ WorldOK' /\ BufferOK' /\ StoreOK' /\ FlushesSound'
    BY <1>5, Quiet
  <1>7. CountsSound'
    <2>1. CountSound(g, sets', stored', periods', excused')
      BY <1>3, <1>5 DEF buffer, store
    <2> HIDE DEF g
    <2> QED BY <1>4, <1>5, <1>6, <2>1, CountMoves
  <1>8. AnswersOK'
    BY <1>5, <1>6, AnswersStay
  <1>9. KeptOK'
    <2>1. CASE ~kept
      BY <1>5, <1>6, <2>1, KeptStays DEF buffer, store
    <2>2. CASE kept
      <3>1. /\ CacheFiles /\ key[2] < now /\ sets[key] = {}
            /\ names = stored[key]
        BY <2>2 DEF Settled
      <3>2. counts' = [counts EXCEPT ![key] = {stored[key]}]
        BY <1>5, <2>2, <3>1
      <3>3. counts' \in [SetKey -> SUBSET SUBSET Name]
        BY <1>2, <3>2 DEF IInv, KeptOK, StoreOK
      <3>4. ASSUME NEW k \in SetKey, counts'[k] # {}
            PROVE  /\ counts'[k] = {stored[k]}
                   /\ CacheFiles /\ k[2] < now
                   /\ \A name \in sets[k] : Excuses(k, name, stored, excused)
        <4>1. CASE k = key
          BY <1>2, <3>1, <3>2, <4>1 DEF IInv, KeptOK
        <4>2. CASE k # key
          BY <1>2, <3>2, <3>4, <4>2 DEF IInv, KeptOK
        <4> QED BY <4>1, <4>2
      <3> QED BY <1>5, <3>3, <3>4 DEF IInv, KeptOK, buffer, store
    <2> QED BY <2>1, <2>2
  <1> QED BY <1>6, <1>7, <1>8, <1>9 DEF IInv

LEMMA BeginReportStep ==
    ASSUME IInv, NEW c \in Counter, NEW ns \in Namespace, BeginReport(c, ns)
    PROVE  IInv' /\ Grows /\ Leaves
  <1> DEFINE held_in == {m \in Period : stored[<<ns, m>>] \cup sets[<<ns, m>>] # {}}
             g == Begun("listed", <<ns, 0>>, periods[ns], held_in)
  <1>1. ASSUME NEW m \in held_in
        PROVE  m \in Period /\ (m \in periods[ns] \/ sets[<<ns, m>>] # {})
    <2>1. <<ns, m>> \in SetKey
      BY DEF SetKey
    <2> QED BY <2>1 DEF IInv, StoreOK
  <1>2. periods[ns] \in SUBSET Period /\ held_in \in SUBSET Period
    BY DEF IInv, StoreOK
  <1> HIDE DEF held_in
  <1>3. CountSound(g, sets, stored, periods, excused)
    <2>1. <<ns, 0>> \in CountKey
      BY DEF CountKey
    <2>2. /\ periods[ns] \in CountNames /\ held_in \in CountNames /\ {} \in CountNames
      BY <1>2 DEF CountNames
    <2>3. g \in CountSet
      <3> HIDE DEF CountNames, CountKey
      <3> QED BY <2>1, <2>2 DEF CountSet, Begun
    <2>4. /\ g.pc = "listed" /\ g.key = <<ns, 0>> /\ g.read = periods[ns]
          /\ g.expected = held_in
      BY DEF Begun
    <2> HIDE DEF g
    <2> QED BY <1>1, <1>2, <2>3, <2>4 DEF CountSound
  <1>4. count' = [count EXCEPT ![c] = g]
    BY DEF BeginReport, held_in
  <1> HIDE DEF g
  <1> QED BY <1>3, <1>4, CountOnly DEF BeginReport

LEMMA EndReportStep ==
    ASSUME IInv, NEW c \in Counter, EndReport(c)
    PROVE  IInv' /\ Grows /\ Leaves
  <1> DEFINE buffered == {m \in Period : sets[<<count[c].key[1], m>>] # {}}
             g == [count[c] EXCEPT !.pc = "reported", !.read = {},
                                   !.names = count[c].read \cup buffered]
  <1>1. /\ CountSound(count[c], sets, stored, periods, excused) /\ count[c] \in CountSet
        /\ count[c].pc = "listed"
    BY DEF IInv, CountsSound, CountSound, EndReport
  <1>2. count[c].expected \ (count[c].read \cup buffered) \subseteq periods[count[c].key[1]]
    BY <1>1 DEF CountSound
  <1>3. CountSound(g, sets, stored, periods, excused)
    <2>1. count[c].read \in SUBSET Period /\ buffered \in SUBSET Period
      BY <1>1 DEF CountSound
    <2> HIDE DEF buffered
    <2>2. count[c].read \cup buffered \in CountNames
      BY <2>1 DEF CountNames
    <2>3. g \in CountSet
      <3>1. {} \in CountNames
        BY DEF CountNames
      <3> HIDE DEF CountNames, CountKey
      <3> QED BY <1>1, <2>2, <3>1 DEF CountSet
    <2> QED BY <1>1, <1>2, <2>3 DEF CountSound, CountSet
  <1>4. count' = [count EXCEPT ![c] = g]
    BY <1>1 DEF EndReport, CountSet
  <1> HIDE DEF g
  <1> QED BY <1>3, <1>4, CountOnly DEF EndReport

LEMMA NoteStep ==
    ASSUME IInv, NEW ns \in Namespace, NEW name \in Name, NEW month \in Period,
           Note(ns, name, month)
    PROVE  IInv' /\ Grows /\ Leaves
  <1> DEFINE key == <<ns, month>>
             known == name \in sets[key]
             full == name \in LongName \/ held >= MAX_BUFFERED_NAMES
  <1>1. /\ key \in SetKey /\ key[2] = month
        /\ month <= now /\ TenantOf[ns] \in Tenant
    BY ActiveNamesAssumption DEF SetKey, Note, IInv, WorldOK, Period
  <1>2. /\ answers' = [answers EXCEPT ![<<ns, name>>] = KeepsUntil(month)]
        /\ excused' = IF CacheFiles /\ ~known /\ (full \/ month < now)
                      THEN excused \cup {<<key, name>>} ELSE excused
        /\ UNCHANGED <<now, store, flush, count, since, counts, failures, crashes>>
    BY DEF Note
  <1>3. \/ known /\ CacheFiles /\ UNCHANGED buffer
        \/ ~known /\ full /\ UNCHANGED <<sets, held>>
           /\ dropped' = [dropped EXCEPT ![TenantOf[ns]] = Counted(@ + 1)]
        \/ ~known /\ ~full /\ UNCHANGED dropped
           /\ sets' = [sets EXCEPT ![key] = @ \cup {name}] /\ held' = held + 1
    BY DEF Note
  <1>4. \A k \in SetKey : sets[k] \subseteq sets'[k]
    BY <1>1, <1>3 DEF IInv, BufferOK, buffer
  <1>5. Grows /\ Leaves /\ StoreOK' /\ excused \subseteq excused'
    BY <1>2, <1>4 DEF IInv, StoreOK, Grows, Leaves, store
  <1>6. WorldOK'
    <2>1. dropped' \in [Tenant -> Nat]
      BY <1>1, <1>3, CountedNat DEF IInv, WorldOK, buffer
    <2> QED BY <1>2, <2>1 DEF IInv, WorldOK
  <1>7. BufferOK'
    <2>1. CASE UNCHANGED <<sets, held>>
      BY <2>1 DEF IInv, BufferOK, Pairs
    <2>2. CASE ~known /\ ~full /\ sets' = [sets EXCEPT ![key] = @ \cup {name}]
               /\ held' = held + 1
      <3>1. sets' \in [SetKey -> SUBSET Name]
        BY <1>1, <2>2 DEF IInv, BufferOK
      <3>2. held' = Cardinality(Pairs(sets'))
        BY <1>1, <2>2, PairsAdd DEF IInv, BufferOK
      <3>3. held \in Nat
        BY PairsFinite DEF IInv, BufferOK
      <3>4. held' <= MAX_BUFFERED_NAMES
        BY <2>2, <3>3, ActiveNamesAssumption
      <3> QED BY <3>1, <3>2, <3>4 DEF BufferOK
    <2> QED BY <1>3, <2>1, <2>2 DEF buffer
  <1>8. FlushesSound'
    BY <1>2, <1>5, FlushesStay DEF IInv
  <1>9. CountsSound'
    BY <1>2, <1>5, CountsStay
  <1>10. known \/ full => (CacheFiles => name \in sets[key] \/ <<key, name>> \in excused')
    BY <1>2
  <1>11. AnswersOK'
    <2>1. KeepsUntil(month) \in {0} \cup Period /\ KeepsUntil(month) <= now
      BY <1>1 DEF KeepsUntil, IInv, WorldOK, Period
    <2>2. /\ answers' \in [Namespace \X Name -> {0} \cup Period]
          /\ \A a \in Namespace \X Name : answers'[a] <= now'
      BY <1>2, <2>1 DEF IInv, AnswersOK
    <2>3. ASSUME NEW n \in Namespace, NEW m \in Name, answers'[<<n, m>>] = now'
          PROVE  m \in sets'[<<n, now'>>] \/ Excuses(<<n, now'>>, m, stored', excused')
      <3>1. <<n, now>> \in SetKey /\ now # 0
        BY DEF IInv, WorldOK, SetKey, Period
      <3>2. CASE n = ns /\ m = name
        <4>1. KeepsUntil(month) = now
          BY <1>2, <2>3, <3>2 DEF IInv, AnswersOK
        <4>2. CacheFiles /\ month = now
          BY <3>1, <4>1 DEF KeepsUntil
        <4>3. name \in sets'[key] \/ <<key, name>> \in excused'
          BY <1>1, <1>2, <1>3, <4>2 DEF IInv, BufferOK, buffer
        <4> QED BY <1>2, <3>2, <4>2, <4>3 DEF Excuses
      <3>3. CASE ~(n = ns /\ m = name)
        <4>1. answers[<<n, m>>] = now
          BY <1>2, <2>3, <3>3 DEF IInv, AnswersOK
        <4>2. m \in sets[<<n, now>>] \/ Excuses(<<n, now>>, m, stored, excused)
          BY <4>1 DEF IInv, AnswersOK
        <4> QED BY <1>2, <1>5, <3>1, <4>2, ExcusesStay
      <3> QED BY <3>2, <3>3
    <2> QED BY <2>2, <2>3 DEF AnswersOK
  <1>12. KeptOK'
    <2>1. excused' \subseteq SetKey \X Name
      BY <1>1, <1>2 DEF IInv, KeptOK
    <2>2. ASSUME NEW k \in SetKey, counts[k] # {}, NEW m \in sets'[k]
          PROVE  Excuses(k, m, stored', excused')
      <3>1. CacheFiles /\ k[2] < now /\ \A n \in sets[k] : Excuses(k, n, stored, excused)
        BY <2>2 DEF IInv, KeptOK
      <3>2. CASE m \in sets[k]
        BY <1>5, <3>1, <3>2, ExcusesStay
      <3>3. CASE m \notin sets[k]
        <4>1. k = key /\ m = name /\ ~known
          BY <1>1, <1>3, <2>2, <3>3 DEF IInv, BufferOK, buffer
        <4>2. <<key, name>> \in excused'
          BY <1>1, <1>2, <3>1, <4>1
        <4> QED BY <4>1, <4>2 DEF Excuses
      <3> QED BY <3>2, <3>3
    <2> QED BY <1>2, <2>1, <2>2 DEF IInv, KeptOK, store
  <1> QED BY <1>5, <1>6, <1>7, <1>8, <1>9, <1>11, <1>12 DEF IInv

LEMMA TickStep ==
    ASSUME IInv, Tick
    PROVE  IInv' /\ Grows /\ Leaves
  <1>1. /\ now' = now + 1 /\ now \in Nat /\ Months \in Nat /\ now < Months
        /\ UNCHANGED <<buffer, store, flush, count, cache, failures, crashes>>
    BY ActiveNamesAssumption DEF Tick, IInv, WorldOK, Period
  <1>2. Grows /\ Leaves /\ BufferOK' /\ StoreOK'
    BY <1>1 DEF IInv, Grows, Leaves, BufferOK, StoreOK, Pairs, buffer, store
  <1>3. WorldOK'
    BY <1>1 DEF IInv, WorldOK, Period, buffer, cache
  <1>4. FlushesSound'
    BY <1>1, <1>2, FlushesStay DEF IInv
  <1>5. CountsSound'
    BY <1>1, <1>2, CountsStay DEF cache
  <1>6. AnswersOK'
    <2>1. \A a \in Namespace \X Name : answers[a] \in Nat /\ answers[a] <= now
      BY DEF IInv, AnswersOK, Period
    <2>2. \A a \in Namespace \X Name : answers[a] <= now' /\ answers[a] # now'
      BY <1>1, <2>1
    <2> QED BY <1>1, <2>2 DEF IInv, AnswersOK, cache
  <1>7. KeptOK'
    <2>1. \A k \in SetKey : k[2] < now => k[2] < now'
      BY <1>1 DEF SetKey, Period
    <2> QED BY <1>1, <2>1 DEF IInv, KeptOK, Excuses, buffer, store, cache
  <1> QED BY <1>2, <1>3, <1>4, <1>5, <1>6, <1>7 DEF IInv

\* Memory that is empty satisfies the invariant, whatever is stored.
LEMMA EmptyMemory ==
    /\ Cardinality(Pairs(NoNames)) = 0
    /\ NoNames \in [SetKey -> SUBSET Name]
    /\ \A st, ps, ss, ex : CountSound(IdleCount, ss, st, ps, ex)
    /\ \A st, ps : FlushSound(IdleFlush, st, ps)
  <1>1. Pairs(NoNames) = {}
    BY DEF Pairs, NoNames
  <1>2. \A st, ps, ss, ex : CountSound(IdleCount, ss, st, ps, ex)
    BY DEF CountSound, CountSet, CountKey, CountNames, IdleCount
  <1>3. \A st, ps : FlushSound(IdleFlush, st, ps)
    BY DEF FlushSound, FlushSet, IdleFlush, FlushPc, None, NoNames
  <1> QED BY <1>1, <1>2, <1>3, FS_EmptySet DEF NoNames

LEMMA CrashStep ==
    ASSUME IInv, Crash
    PROVE  IInv' /\ Grows /\ crashes' # crashes
  <1>1. Grows /\ StoreOK'
    BY DEF Crash, IInv, StoreOK, Grows, store
  <1>2. WorldOK' /\ crashes' # crashes
    BY ActiveNamesAssumption DEF Crash, IInv, WorldOK, Period
  <1>3. BufferOK'
    BY EmptyMemory, ActiveNamesAssumption DEF Crash, BufferOK
  <1>4. FlushesSound' /\ CountsSound'
    BY EmptyMemory DEF Crash, FlushesSound, CountsSound
  <1>5. AnswersOK'
    BY DEF Crash, IInv, WorldOK, AnswersOK, NoAnswers, Period
  <1>6. KeptOK'
    BY DEF Crash, IInv, KeptOK, NoNames
  <1> QED BY <1>1, <1>2, <1>3, <1>4, <1>5, <1>6 DEF IInv

LEMMA StutterStep ==
    ASSUME IInv, UNCHANGED vars
    PROVE  IInv' /\ Grows /\ Leaves
  <1>1. UNCHANGED <<now, buffer, store, flush, count, cache, failures, crashes>>
    BY DEF vars, buffer, store, cache
  <1>2. /\ Grows /\ Leaves
        /\ WorldOK' /\ BufferOK' /\ StoreOK' /\ FlushesSound'
    BY <1>1, Quiet DEF cache
  <1>3. CountsSound' /\ AnswersOK' /\ KeptOK'
    BY <1>1, <1>2, CountsStay, AnswersStay, KeptStays DEF buffer, store, cache
  <1> QED BY <1>2, <1>3 DEF IInv

LEMMA InitSound ==
    ASSUME Init
    PROVE  IInv
  <1>1. WorldOK
    BY ActiveNamesAssumption DEF Init, WorldOK, Period
  <1>2. BufferOK
    BY EmptyMemory, ActiveNamesAssumption DEF Init, BufferOK
  <1>3. StoreOK
    BY FS_EmptySet, ActiveNamesAssumption DEF Init, StoreOK, NoNames
  <1>4. FlushesSound /\ CountsSound
    BY EmptyMemory DEF Init, FlushesSound, CountsSound
  <1>5. AnswersOK /\ KeptOK
    BY DEF Init, AnswersOK, KeptOK, NoAnswers, NoNames
  <1> QED BY <1>1, <1>2, <1>3, <1>4, <1>5 DEF IInv

LEMMA NextStep ==
    ASSUME IInv, [Next]_vars
    PROVE  IInv' /\ Grows /\ (crashes' = crashes => Leaves)
  <1>1. ASSUME NEW ns \in Namespace, NEW name \in Name, NEW month \in Period,
               Note(ns, name, month)
        PROVE  IInv' /\ Grows /\ Leaves
    BY <1>1, NoteStep
  <1>2. CASE Tick
    BY <1>2, TickStep
  <1>3. ASSUME NEW f \in Flusher, NEW t \in Tenant, BeginFlush(f, t)
        PROVE  IInv' /\ Grows /\ Leaves
    BY <1>3, BeginFlushStep
  <1>4. ASSUME NEW f \in Flusher, FlushStep(f)
        PROVE  IInv' /\ Grows /\ Leaves
    BY <1>4, NextKeyStep, ReadSetStep, ReadListStep, WriteListStep, WriteSetStep, ForgetStep,
       ReportStep, ClearStep DEF FlushStep
  <1>5. ASSUME NEW c \in Counter, NEW key \in SetKey,
               BeginCount(c, key) \/ CountFromCache(c, key)
        PROVE  IInv' /\ Grows /\ Leaves
    BY <1>5, BeginCountStep, CountFromCacheStep
  <1>6. ASSUME NEW c \in Counter, NEW ns \in Namespace, BeginReport(c, ns)
        PROVE  IInv' /\ Grows /\ Leaves
    BY <1>6, BeginReportStep
  <1>7. ASSUME NEW c \in Counter, EndCount(c) \/ EndReport(c)
        PROVE  IInv' /\ Grows /\ Leaves
    BY <1>7, EndCountStep, EndReportStep
  <1>8. CASE Crash
    BY <1>8, CrashStep
  <1>9. CASE UNCHANGED vars
    BY <1>9, StutterStep
  <1> QED BY <1>1, <1>2, <1>3, <1>4, <1>5, <1>6, <1>7, <1>8, <1>9 DEF Next

LEMMA Invariant == Spec => []IInv
  <1>1. Init => IInv
    BY InitSound
  <1>2. IInv /\ [Next]_vars => IInv'
    BY NextStep
  <1> QED BY <1>1, <1>2, PTL DEF Spec

-----------------------------------------------------------------------------
(* The properties.                                                                          *)

\* The buffer, the store, the caches, every flush and every count hold what the code's
\* types say, for every number of tenants, flushes and counts.
THEOREM Typed == Spec => []TypeOK
  <1>1. IInv => TypeOK
    <2> SUFFICES ASSUME IInv PROVE TypeOK
      OBVIOUS
    <2>1. held \in Nat
      BY PairsFinite DEF IInv, BufferOK
    <2>2. flush \in [Flusher -> FlushSet]
      BY DEF IInv, FlushesSound, FlushSound
    <2>3. count \in [Counter -> CountSet]
      BY DEF IInv, CountsSound, CountSound
    <2> QED BY <2>1, <2>2, <2>3 DEF IInv, WorldOK, BufferOK, StoreOK, AnswersOK, KeptOK, TypeOK,
               FlushSet, CountSet, CountKey, CountNames
  <1> QED BY <1>1, Invariant, PTL

\* Seen's counter is the number of names its sets hold and never passes
\* MAX_BUFFERED_NAMES, however many flushes forget the same names at once.
THEOREM HeldExact == Spec => []HeldIsExact
  <1>1. IInv => HeldIsExact
    BY DEF IInv, BufferOK, Pairs, HeldIsExact
  <1> QED BY <1>1, Invariant, PTL

\* store_names puts the month on the list before the set is written, and nothing takes it
\* off: no stored set is missed by a report, whatever crashes, fails or races.
THEOREM StoredListed == Spec => []StoredIsListed
  <1>1. IInv => StoredIsListed
    BY DEF IInv, StoreOK, StoredIsListed
  <1> QED BY <1>1, Invariant, PTL

\* store_names adds no more names to a set than MAX_SEEN_NAMES leaves room for, and the
\* compare-and-replace keeps two flushes from filling the same room twice.
THEOREM StoredBounded == Spec => []StoredIsBounded
  <1>1. IInv => StoredIsBounded
    BY DEF IInv, StoreOK, StoredIsBounded
  <1> QED BY <1>1, Invariant, PTL

\* A count that overlaps flushes leaves out only what one of them has stored meanwhile, or
\* what its set has no room for: active_names reads the store and the buffer apart.
THEOREM MissedStored == Spec => []MissedIsStored
  <1>1. IInv => MissedIsStored
    BY DEF IInv, CountsSound, CountSound, Excuses, Full, MissedIsStored
  <1> QED BY <1>1, Invariant, PTL

\* A report leaves out only a month that has gone on the list since it read it.
THEOREM UnreportedListed == Spec => []UnreportedIsListed
  <1>1. IInv => UnreportedIsListed
    BY DEF IInv, CountsSound, CountSound, UnreportedIsListed
  <1> QED BY <1>1, Invariant, PTL

\* An answer in the cache was counted in the month that is now: expires_with_month ends it
\* with the month, and a resolution late to the lock is cached no longer than that.
THEOREM CachedCounted == Spec => []CachedIsCounted
  <1>1. IInv => CachedIsCounted
    <2> SUFFICES ASSUME IInv, NEW ns \in Namespace, NEW name \in Name,
                        answers[<<ns, name>>] >= now
                 PROVE  \/ name \in sets[<<ns, now>>] \cup stored[<<ns, now>>]
                        \/ <<<<ns, now>>, name>> \in excused
                        \/ Cardinality(stored[<<ns, now>>]) >= MAX_SEEN_NAMES
      BY DEF CachedIsCounted
    <2>1. answers[<<ns, name>>] <= now /\ answers[<<ns, name>>] \in Nat /\ now \in Nat
      BY DEF IInv, AnswersOK, WorldOK, Period
    <2>2. answers[<<ns, name>>] = now
      BY <2>1
    <2> QED BY <2>2 DEF IInv, AnswersOK, Excuses, Full
  <1> QED BY <1>1, Invariant, PTL

\* A count in the cache is the stored set's, after every write to the set: a write cuts it.
THEOREM CachedCountStored == Spec => []CachedCountIsStored
  <1>1. IInv => CachedCountIsStored
    BY DEF IInv, KeptOK, CachedCountIsStored
  <1> QED BY <1>1, Invariant, PTL

\* No step of any flush takes a name out of a stored set or a month off a list.
THEOREM StoreGrows == Spec => StoreOnlyGrows
  <1>1. IInv /\ [Next]_vars => [Grows]_vars
    BY NextStep
  <1>2. [Grows]_vars <=> [/\ \A k \in SetKey : stored[k] \subseteq stored'[k]
                          /\ \A ns \in Namespace : periods[ns] \subseteq periods'[ns]]_vars
    BY DEF Grows
  <1> QED BY <1>1, <1>2, Invariant, PTL DEF Spec, StoreOnlyGrows

\* While the process lives a name leaves the buffer only by Seen::forget, and what it
\* forgets is stored or has no room: a store that fails loses nothing.
THEOREM BufferLeaves == Spec => LeavesOnlyStored
  <1>1. IInv /\ [Next]_vars => [crashes' = crashes => Leaves]_vars
    BY NextStep
  <1>2. [crashes' = crashes => Leaves]_vars <=>
           [crashes' = crashes =>
              \A k \in SetKey : \A name \in sets[k] \ sets'[k] :
                  name \in stored[k] \/ Cardinality(stored[k]) >= MAX_SEEN_NAMES]_vars
    BY DEF Leaves, Full
  <1> QED BY <1>1, <1>2, Invariant, PTL DEF Spec, LeavesOnlyStored

=============================================================================
