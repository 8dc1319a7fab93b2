--------------------------- MODULE RegistryProofs ---------------------------
(***************************************************************************)
(* Proofs about Registry for every set of clients, prefixes, files and     *)
(* grants.  The argument: an edit in flight is a sound edit of the file it *)
(* was decided on (PendingSound, inductive because a file that loads stays *)
(* a constant once read), and the conditional Sink applies it only to that *)
(* very file.                                                              *)
(***************************************************************************)
EXTENDS Registry, TLAPS

\* Loads, entry by entry: every segment, check and pair the claim rule looks at.
LEMMA LoadsEntrywise ==
    ASSUME NEW file \in File
    PROVE  Loads(file) <=>
               \A i \in DOMAIN file :
                   /\ Segments(file[i].prefix) # << >>
                   /\ Check(file[i])
                   /\ \A j \in 1..(i - 1) :
                         ~Overlaps(Segments(file[j].prefix), Segments(file[i].prefix))
BY DEF Loads, Claimable, MayClaim, File

LEMMA OverlapsSymmetric ==
    ASSUME NEW a, NEW b
    PROVE  Overlaps(a, b) <=> Overlaps(b, a)
BY DEF Overlaps

LEMMA OverlapsSelf ==
    ASSUME NEW a
    PROVE  Overlaps(a, a)
BY DEF Overlaps

\* Two prefixes that cover one path overlap.
LEMMA CoveringOverlap ==
    ASSUME NEW a, NEW b, NEW path, Covers(a, path), Covers(b, path)
    PROVE  Overlaps(a, b)
BY DEF Covers, Overlaps

\* In a file that loads, no two places hold overlapping prefixes.
LEMMA LoadsDisjoint ==
    ASSUME NEW file \in File, Loads(file),
           NEW i \in DOMAIN file, NEW j \in DOMAIN file, i # j
    PROVE  ~Overlaps(Segments(file[i].prefix), Segments(file[j].prefix))
<1>1. CASE i < j
  BY <1>1, LoadsEntrywise DEF File
<1>2. CASE j < i
  BY <1>2, LoadsEntrywise, OverlapsSymmetric DEF File
<1>3. QED
  BY <1>1, <1>2 DEF File

\* Claiming keeps a file loadable and adds exactly the entry claimed.
LEMMA AppendLoads ==
    ASSUME NEW file \in File, NEW entry \in Namespace,
           Loads(file), Claimable(Entries(file), entry)
    PROVE  /\ Append(file, entry) \in File
           /\ Loads(Append(file, entry))
           /\ Entries(Append(file, entry)) = Entries(file) \cup {entry}
<1> DEFINE next == Append(file, entry)
<1>1. /\ next \in File
      /\ DOMAIN next = 1..(Len(file) + 1)
      /\ \A i \in DOMAIN file : next[i] = file[i]
      /\ next[Len(file) + 1] = entry
      /\ DOMAIN file = 1..Len(file)
      /\ Len(file) \in Nat
  BY DEF File
<1>2. Entries(next) = Entries(file) \cup {entry}
  <2>1. DOMAIN next = DOMAIN file \cup {Len(file) + 1}
    BY <1>1
  <2>2. QED
    BY <1>1, <2>1 DEF Entries
<1>3. ASSUME NEW i \in DOMAIN next
      PROVE  /\ Segments(next[i].prefix) # << >>
             /\ Check(next[i])
             /\ \A j \in 1..(i - 1) :
                   ~Overlaps(Segments(next[j].prefix), Segments(next[i].prefix))
  <2>1. CASE i \in DOMAIN file
    <3>1. \A j \in 1..(i - 1) : j \in DOMAIN file
      BY <1>1, <2>1
    <3>2. QED
      BY <1>1, <2>1, <3>1, LoadsEntrywise
  <2>2. CASE i = Len(file) + 1
    <3>1. \A j \in 1..(i - 1) : j \in DOMAIN file
      BY <1>1, <2>2
    <3>2. QED
      BY <1>1, <2>2, <3>1 DEF Claimable, MayClaim, Entries
  <2>3. QED
    BY <1>1, <2>1, <2>2
<1>4. Loads(next)
  BY <1>1, <1>3, LoadsEntrywise
<1>5. QED
  BY <1>1, <1>2, <1>4

\* Replacing an entry by one with the same prefix keeps a file loadable and
\* changes that entry alone.
LEMMA ReplaceLoads ==
    ASSUME NEW file \in File, NEW i \in DOMAIN file, NEW entry \in Namespace,
           Loads(file), Check(entry), entry.prefix = file[i].prefix
    PROVE  /\ [file EXCEPT ![i] = entry] \in File
           /\ Loads([file EXCEPT ![i] = entry])
           /\ Entries([file EXCEPT ![i] = entry]) = (Entries(file) \ {file[i]}) \cup {entry}
<1> DEFINE next == [file EXCEPT ![i] = entry]
<1>1. /\ next \in File
      /\ DOMAIN next = DOMAIN file
      /\ \A j \in DOMAIN file : next[j] = IF j = i THEN entry ELSE file[j]
      /\ \A j \in DOMAIN file : next[j].prefix = file[j].prefix
      /\ DOMAIN file = 1..Len(file)
      /\ Len(file) \in Nat
  BY DEF File
<1>2. ASSUME NEW j \in DOMAIN file, j # i
      PROVE  file[j] # file[i]
  BY <1>2, LoadsDisjoint, OverlapsSelf
<1>3. Entries(next) = (Entries(file) \ {file[i]}) \cup {entry}
  BY <1>1, <1>2 DEF Entries
<1>4. ASSUME NEW j \in DOMAIN next
      PROVE  /\ Segments(next[j].prefix) # << >>
             /\ Check(next[j])
             /\ \A k \in 1..(j - 1) :
                   ~Overlaps(Segments(next[k].prefix), Segments(next[j].prefix))
  <2>1. \A k \in 1..(j - 1) : k \in DOMAIN file
    BY <1>1
  <2>2. QED
    BY <1>1, <2>1, LoadsEntrywise
<1>5. Loads(next)
  BY <1>1, <1>4, LoadsEntrywise
<1>6. QED
  BY <1>1, <1>3, <1>5

\* Changing how an entry answers gives an entry under the same prefix and owner.
LEMMA ChangedEntry ==
    ASSUME NEW file \in File, NEW i \in DOMAIN file,
           NEW strategy \in Strategy, NEW repository \in Repository
    PROVE  LET entry == [file[i] EXCEPT !.strategy = strategy, !.repository = repository]
           IN  /\ entry \in Namespace
               /\ entry.prefix = file[i].prefix
               /\ entry.owner = file[i].owner
<1>1. file[i] \in Namespace
  BY DEF File
<1>2. QED
  BY <1>1 DEF Namespace

-----------------------------------------------------------------------------
(* What an edit in flight does to the file it was decided on. *)

\* A sound edit of a file that loads gives a file that loads.
LEMMA SoundEditLoads ==
    ASSUME NEW c, NEW token \in File, NEW next, Loads(token),
           IsClaim(c, token, next) \/ IsChange(c, token, next)
    PROVE  next \in File /\ Loads(next)
<1>1. CASE IsClaim(c, token, next)
  BY <1>1, AppendLoads DEF IsClaim
<1>2. CASE IsChange(c, token, next)
  <2>1. PICK i \in DOMAIN token, strategy \in Strategy, repository \in Repository :
          LET entry == [token[i] EXCEPT !.strategy = strategy, !.repository = repository]
          IN  Check(entry) /\ next = [token EXCEPT ![i] = entry]
    BY <1>2 DEF IsChange
  <2> DEFINE entry == [token[i] EXCEPT !.strategy = strategy, !.repository = repository]
  <2>2. entry \in Namespace /\ entry.prefix = token[i].prefix
    BY <2>1, ChangedEntry
  <2>3. QED
    BY <2>1, <2>2, ReplaceLoads
<1>3. QED
  BY <1>1, <1>2

\* A sound edit keeps every entry at its place, under its prefix and its owner.
LEMMA SoundEditKeeps ==
    ASSUME NEW c, NEW token \in File, NEW next,
           IsClaim(c, token, next) \/ IsChange(c, token, next),
           NEW i \in DOMAIN token
    PROVE  /\ i \in DOMAIN next
           /\ next[i].prefix = token[i].prefix
           /\ next[i].owner = token[i].owner
<1>1. CASE IsClaim(c, token, next)
  BY <1>1 DEF IsClaim, File
<1>2. CASE IsChange(c, token, next)
  <2>1. PICK j \in DOMAIN token, strategy \in Strategy, repository \in Repository :
          next = [token EXCEPT ![j] =
                     [token[j] EXCEPT !.strategy = strategy, !.repository = repository]]
    BY <1>2 DEF IsChange
  <2> DEFINE entry == [token[j] EXCEPT !.strategy = strategy, !.repository = repository]
  <2>a. entry.prefix = token[j].prefix /\ entry.owner = token[j].owner
    BY <2>1, ChangedEntry
  <2>2. CASE i = j
    BY <2>1, <2>2, <2>a DEF File
  <2>3. CASE i # j
    BY <2>1, <2>3 DEF File
  <2>4. QED
    BY <2>2, <2>3
<1>3. QED
  BY <1>1, <1>2

-----------------------------------------------------------------------------
(* The inductive invariant. *)

IInv == TypeOK /\ PendingSound

LEMMA InitIInv == Init => IInv
BY RegistryAssumption DEF Init, IInv, TypeOK, PendingSound, Idle

\* Deciding on an edit puts a sound one in flight and leaves the others alone.
LEMMA DecideIInv ==
    ASSUME IInv, NEW c \in Client, NEW next, Loads(store),
           next \in File,
           IsClaim(c, store, next) \/ IsChange(c, store, next),
           pending' = [pending EXCEPT ![c] = Edit(store, next)],
           UNCHANGED <<store, edits>>
    PROVE  IInv'
<1>1. TypeOK'
  BY DEF IInv, TypeOK, Edit
<1>2. PendingSound'
  <2> SUFFICES ASSUME NEW d \in Client, pending'[d].busy
               PROVE  /\ Loads(pending'[d].token)
                      /\ \/ IsClaim(d, pending'[d].token, pending'[d].next)
                         \/ IsChange(d, pending'[d].token, pending'[d].next)
    BY DEF PendingSound, IsClaim, IsChange
  <2>1. CASE d = c
    BY <2>1 DEF IInv, TypeOK, Edit
  <2>2. CASE d # c
    BY <2>2 DEF IInv, TypeOK, PendingSound
  <2>3. QED
    BY <2>1, <2>2
<1>3. QED
  BY <1>1, <1>2 DEF IInv

LEMMA ClaimIInv ==
    ASSUME IInv, NEW c \in Client, NEW prefix \in Prefix,
           NEW owner \in Owner \cup {admin_scope(prefix)},
           NEW strategy \in Asked, NEW repository \in Repository,
           Claim(c, prefix, owner, strategy, repository)
    PROVE  IInv'
<1> DEFINE entry == [prefix |-> prefix, owner |-> owner,
                     strategy |-> strategy, repository |-> repository]
<1>1. entry \in Namespace
  BY RegistryAssumption DEF Namespace
<1>2. IsClaim(c, store, Append(store, entry))
  BY <1>1 DEF Claim, IsClaim
<1>3. store \in File
  BY DEF IInv, TypeOK
<1>4. Append(store, entry) \in File
  BY <1>1, <1>3 DEF File
<1>5. QED
  BY <1>2, <1>4, DecideIInv DEF Claim

\* Both verbs of urn:name:admin decide on a change of one entry.
LEMMA ChangeIInv ==
    ASSUME IInv, NEW c \in Client, NEW prefix \in Prefix, NEW i \in DOMAIN store,
           NEW strategy \in Strategy, NEW repository \in Repository,
           Administers(c, prefix, i),
           Check([store[i] EXCEPT !.strategy = strategy, !.repository = repository]),
           pending' = [pending EXCEPT ![c] = Edit(store, [store EXCEPT ![i] =
               [store[i] EXCEPT !.strategy = strategy, !.repository = repository]])],
           UNCHANGED <<store, edits>>
    PROVE  IInv'
<1> DEFINE entry == [store[i] EXCEPT !.strategy = strategy, !.repository = repository]
<1>1. store \in File
  BY DEF IInv, TypeOK
<1>2. entry \in Namespace
  BY <1>1, ChangedEntry
<1>3. [store EXCEPT ![i] = entry] \in File
  BY <1>1, <1>2 DEF File
<1>4. IsChange(c, store, [store EXCEPT ![i] = entry])
  BY DEF IsChange, Administers
<1>5. Loads(store)
  BY DEF Administers
<1>6. QED
  BY <1>3, <1>4, <1>5, DecideIInv

LEMMA UpdateIInv ==
    ASSUME IInv, NEW c \in Client, NEW prefix \in Prefix,
           NEW strategy \in Asked, NEW repository \in Repository,
           Update(c, prefix, strategy, repository)
    PROVE  IInv'
<1>1. strategy \in Strategy
  BY RegistryAssumption
<1>2. QED
  BY <1>1, ChangeIInv DEF Update

LEMMA RetireIInv ==
    ASSUME IInv, NEW c \in Client, NEW prefix \in Prefix, Retire(c, prefix)
    PROVE  IInv'
<1>1. Retired \in Strategy /\ "none" \in Repository
  BY RegistryAssumption DEF Strategy
<1>2. PICK i \in DOMAIN store :
        LET entry == [store[i] EXCEPT !.strategy = Retired, !.repository = "none"]
        IN  /\ Administers(c, prefix, i)
            /\ pending' = [pending EXCEPT ![c] = Edit(store, [store EXCEPT ![i] = entry])]
            /\ UNCHANGED <<store, edits>>
  BY DEF Retire
<1>3. Check([store[i] EXCEPT !.strategy = Retired, !.repository = "none"])
  BY DEF Check, Retired, IInv, TypeOK, File, Namespace
<1>4. QED
  BY <1>1, <1>2, <1>3, ChangeIInv

\* Taking an edit out of flight, whatever the store becomes.
LEMMA DoneIInv ==
    ASSUME IInv, NEW c \in Client, store' \in File, UNCHANGED edits,
           pending' = [pending EXCEPT ![c] = Idle]
    PROVE  IInv'
<1>1. TypeOK'
  BY DEF IInv, TypeOK
<1>2. \A d \in Client : pending'[d].busy => pending'[d] = pending[d] /\ pending[d].busy
  BY DEF IInv, TypeOK, Idle
<1>3. QED
  BY <1>1, <1>2 DEF IInv, PendingSound

LEMMA StoreIInv ==
    ASSUME IInv, NEW c \in Client, Store(c)
    PROVE  IInv'
<1>1. pending[c] \in [busy : {TRUE}, token : File, next : File]
  <2>1. pending[c] \in {Idle} \cup [busy : {TRUE}, token : File, next : File]
    BY DEF IInv, TypeOK
  <2>2. pending[c] # Idle
    BY DEF Store, Idle
  <2>3. QED
    BY <2>1, <2>2
<1>2. QED
  BY <1>1, DoneIInv DEF Store, IInv, TypeOK

LEMMA OperatorEditIInv ==
    ASSUME IInv, OperatorEdit
    PROVE  IInv'
<1>1. TypeOK'
  <2>1. store' \in File
    BY RegistryAssumption DEF OperatorEdit
  <2>2. MaxEdits \in Nat
    BY RegistryAssumption
  <2>3. edits' \in 0..MaxEdits
    BY <2>2 DEF IInv, TypeOK, OperatorEdit
  <2>4. QED
    BY <2>1, <2>3 DEF IInv, TypeOK, OperatorEdit
<1>2. QED
  BY <1>1 DEF IInv, OperatorEdit, PendingSound

LEMMA NextIInv == IInv /\ [Next]_vars => IInv'
<1> SUFFICES ASSUME IInv, [Next]_vars
             PROVE  IInv'
  OBVIOUS
<1>1. ASSUME NEW c \in Client, ClientStep(c)
      PROVE  IInv'
  <2>1. ASSUME NEW prefix \in Prefix, NEW strategy \in Asked, NEW repository \in Repository,
               NEW owner \in Owner \cup {admin_scope(prefix)},
               Claim(c, prefix, owner, strategy, repository)
        PROVE  IInv'
    BY <2>1, ClaimIInv
  <2>2. ASSUME NEW prefix \in Prefix, NEW strategy \in Asked, NEW repository \in Repository,
               Update(c, prefix, strategy, repository)
        PROVE  IInv'
    BY <2>2, UpdateIInv
  <2>3. ASSUME NEW prefix \in Prefix, Retire(c, prefix)
        PROVE  IInv'
    BY <2>3, RetireIInv
  <2>4. CASE Store(c)
    BY <2>4, StoreIInv
  <2>5. CASE Abandon(c)
    BY <2>5, DoneIInv DEF Abandon, IInv, TypeOK
  <2>6. QED
    BY <1>1, <2>1, <2>2, <2>3, <2>4, <2>5 DEF ClientStep
<1>2. CASE OperatorEdit
  BY <1>2, OperatorEditIInv
<1>3. CASE UNCHANGED vars
  BY <1>3 DEF vars, IInv, TypeOK, PendingSound
<1>4. QED
  BY <1>1, <1>2, <1>3 DEF Next

\* Every reachable state is well typed and has only sound edits in flight.
THEOREM InvariantHolds == Spec => []IInv
BY InitIInv, NextIInv, PTL DEF Spec

\* TypeOK is an invariant: the store and the edits in flight are registry files.
THEOREM TypeCorrect == Spec => []TypeOK
<1>1. IInv => TypeOK
  BY DEF IInv
<1>2. QED
  BY <1>1, InvariantHolds, PTL

\* PendingSound is an invariant: no edit is ever decided on without authority for
\* it, nor against the claim rule of the registry it read.
THEOREM EditsSound == Spec => []PendingSound
<1>1. IInv => PendingSound
  BY DEF IInv
<1>2. QED
  BY <1>1, InvariantHolds, PTL

\* OneAnswer is an invariant: a registry that loads never has two candidates.
THEOREM AnswersUnique == Spec => []OneAnswer
<1>1. TypeOK => OneAnswer
  <2> SUFFICES ASSUME TypeOK, Loads(store), NEW path \in Wanted,
                      NEW i \in Covering(store, path), NEW j \in Covering(store, path),
                      i # j
               PROVE  FALSE
    BY DEF OneAnswer
  <2>1. Overlaps(Segments(store[i].prefix), Segments(store[j].prefix))
    BY CoveringOverlap DEF Covering
  <2>2. QED
    BY <2>1, LoadsDisjoint DEF TypeOK, Covering
<1>2. QED
  BY <1>1, TypeCorrect, PTL

-----------------------------------------------------------------------------
(* What a step that is not the operator's may do to the store. *)

LEMMA StoreStep ==
    ASSUME IInv, [Next]_vars, edits' = edits, store' # store
    PROVE  /\ Loads(store)
           /\ \E c \in Client : IsClaim(c, store, store') \/ IsChange(c, store, store')
<1>1. ~OperatorEdit
  BY DEF IInv, TypeOK, OperatorEdit
<1>2. PICK c \in Client : Store(c)
  BY <1>1 DEF Next, ClientStep, Claim, Update, Retire, Abandon, vars
<1>3. store = pending[c].token /\ store' = pending[c].next /\ pending[c].busy
  BY <1>2 DEF Store
<1>4. QED
  BY <1>3 DEF IInv, PendingSound

\* EditsStayLoadable: claims and edits, however they interleave, never leave a
\* file that from_json refuses.
THEOREM LoadableKept == Spec => EditsStayLoadable
<1>1. IInv /\ [Next]_vars => [edits' = edits /\ Loads(store) => Loads(store')]_vars
  <2> SUFFICES ASSUME IInv, [Next]_vars, edits' = edits, Loads(store), store' # store
               PROVE  Loads(store')
    OBVIOUS
  <2>1. QED
    BY StoreStep, SoundEditLoads DEF IInv, TypeOK
<1>2. QED
  BY <1>1, InvariantHolds, PTL DEF Spec, EditsStayLoadable

\* A place a sound edit adds comes after every place there was.
LEMMA SoundEditAppends ==
    ASSUME NEW c, NEW token \in File, NEW next,
           IsClaim(c, token, next) \/ IsChange(c, token, next),
           NEW i \in DOMAIN token, NEW j \in DOMAIN next, j \notin DOMAIN token
    PROVE  i <= j
<1>1. CASE IsClaim(c, token, next)
  BY <1>1 DEF IsClaim, File
<1>2. CASE IsChange(c, token, next)
  BY <1>2 DEF IsChange
<1>3. QED
  BY <1>1, <1>2

\* A sound edit leaves the answer for a path where it was.
LEMMA SoundEditAnswers ==
    ASSUME NEW c, NEW token \in File, NEW next,
           IsClaim(c, token, next) \/ IsChange(c, token, next),
           NEW path, NEW i \in DOMAIN token, IsAnswer(token, path, i)
    PROVE  /\ IsAnswer(next, path, i)
           /\ next[i].prefix = token[i].prefix
           /\ next[i].owner = token[i].owner
<1>1. \A j \in DOMAIN token :
          j \in DOMAIN next /\ next[j].prefix = token[j].prefix /\ next[j].owner = token[j].owner
  BY SoundEditKeeps
<1>2. \A j \in DOMAIN next : j \notin DOMAIN token => i <= j
  BY SoundEditAppends
<1>3. QED
  BY <1>1, <1>2 DEF IsAnswer, Covering

\* NoHijack: no interleaving of claims, edits and retirements changes which
\* namespace, and under which owner, answers for a path.
THEOREM NeverHijacked == Spec => NoHijack
<1> DEFINE Kept == edits' = edits /\ Loads(store) =>
             \A path \in Wanted : \A i \in DOMAIN store :
                 IsAnswer(store, path, i) =>
                     /\ IsAnswer(store', path, i)
                     /\ store'[i].prefix = store[i].prefix
                     /\ store'[i].owner = store[i].owner
<1>1. IInv /\ [Next]_vars => [Kept]_vars
  <2> SUFFICES ASSUME IInv, [Next]_vars, edits' = edits
               PROVE  \A path \in Wanted : \A i \in DOMAIN store :
                          IsAnswer(store, path, i) =>
                              /\ IsAnswer(store', path, i)
                              /\ store'[i].prefix = store[i].prefix
                              /\ store'[i].owner = store[i].owner
    OBVIOUS
  <2>1. CASE store' = store
    BY <2>1
  <2>2. CASE store' # store
    BY <2>2, StoreStep, SoundEditAnswers DEF IInv, TypeOK
  <2>3. QED
    BY <2>1, <2>2
<1>2. QED
  BY <1>1, InvariantHolds, PTL DEF Spec, NoHijack

-----------------------------------------------------------------------------
(* Registry implements Claims. *)

\* The entries in force in a file.
InForce(file) == IF Loads(file) THEN Entries(file) ELSE {}

LEMMA InForceDisjoint ==
    ASSUME NEW file \in File
    PROVE  InForce(file) \in SUBSET Namespace /\ AtomicClaims!Disjoint(InForce(file))
<1>1. InForce(file) \in SUBSET Namespace
  BY DEF InForce, Entries, File
<1>2. AtomicClaims!Disjoint(InForce(file))
  BY LoadsDisjoint DEF InForce, Entries, AtomicClaims!Disjoint, AtomicClaims!Overlaps,
     AtomicClaims!Segments, Overlaps, Segments
<1>3. QED
  BY <1>1, <1>2

LEMMA ClaimsInit == Init => AtomicClaims!Init
<1> SUFFICES ASSUME Init
             PROVE  AtomicClaims!Init
  OBVIOUS
<1>1. store \in File
  BY RegistryAssumption DEF Init
<1>2. Loads(store) \in BOOLEAN
  BY DEF Loads
<1>3. QED
  BY <1>1, <1>2, InForceDisjoint DEF Init, InForce, AtomicClaims!Init

\* A claim landing in the store is one atomic claim.
LEMMA ClaimRefines ==
    ASSUME IInv, NEW c \in Client, Loads(store), IsClaim(c, store, store'), edits' = edits
    PROVE  AtomicClaims!Next
<1>1. PICK entry \in Namespace :
        Claimable(Entries(store), entry) /\ store' = Append(store, entry)
  BY DEF IsClaim
<1>2. Loads(store') /\ Entries(store') = Entries(store) \cup {entry}
  BY <1>1, AppendLoads DEF IInv, TypeOK
<1>3. \A old \in Entries(store) :
        ~AtomicClaims!Overlaps(AtomicClaims!Segments(old.prefix),
                               AtomicClaims!Segments(entry.prefix))
  BY <1>1 DEF Claimable, MayClaim, Overlaps, Segments, AtomicClaims!Overlaps,
     AtomicClaims!Segments
<1>4. AtomicClaims!Claim(c, entry)
  BY <1>1, <1>2, <1>3 DEF IsClaim, AtomicClaims!Claim
<1>5. QED
  BY <1>4 DEF AtomicClaims!Next

\* An edit or a retirement landing in the store is one atomic change of one entry.
LEMMA ChangeRefines ==
    ASSUME IInv, NEW c \in Client, Loads(store), IsChange(c, store, store'), edits' = edits
    PROVE  AtomicClaims!Next
<1>1. PICK i \in DOMAIN store, strategy \in Strategy, repository \in Repository :
        LET entry == [store[i] EXCEPT !.strategy = strategy, !.repository = repository]
        IN  /\ admin_scope(store[i].prefix) \in Grants[c]
            /\ Check(entry)
            /\ store' = [store EXCEPT ![i] = entry]
  BY DEF IsChange
<1> DEFINE entry == [store[i] EXCEPT !.strategy = strategy, !.repository = repository]
<1>2. store \in File
  BY DEF IInv, TypeOK
<1>3. entry \in Namespace /\ entry.prefix = store[i].prefix
  BY <1>2, ChangedEntry
<1>4. Loads(store') /\ Entries(store') = (Entries(store) \ {store[i]}) \cup {entry}
  BY <1>1, <1>2, <1>3, ReplaceLoads
<1>5. store[i] \in Entries(store)
  BY DEF Entries
<1>6. AtomicClaims!Administer(c, store[i], strategy, repository)
  BY <1>1, <1>4, <1>5 DEF AtomicClaims!Administer
<1>7. QED
  BY <1>5, <1>6 DEF AtomicClaims!Next

LEMMA ClaimsStep == IInv /\ [Next]_vars => [AtomicClaims!Next]_(AtomicClaims!vars)
<1> SUFFICES ASSUME IInv, [Next]_vars
             PROVE  [AtomicClaims!Next]_(AtomicClaims!vars)
  OBVIOUS
<1>1. CASE OperatorEdit
  <2>1. store' \in File /\ edits' = edits + 1
    BY <1>1, RegistryAssumption DEF OperatorEdit
  <2>2. InForce(store') \in SUBSET Namespace /\ AtomicClaims!Disjoint(InForce(store'))
    BY <2>1, InForceDisjoint
  <2>3. Loads(store') \in BOOLEAN
    BY DEF Loads
  <2>4. AtomicClaims!Edit
    BY <2>1, <2>2, <2>3 DEF InForce, AtomicClaims!Edit
  <2>5. QED
    BY <2>4 DEF AtomicClaims!Next
<1>2. CASE ~OperatorEdit /\ store' = store
  <2>1. edits' = edits
    BY <1>2 DEF Next, ClientStep, Claim, Update, Retire, Abandon, Store, vars
  <2>2. QED
    BY <1>2, <2>1 DEF AtomicClaims!vars
<1>3. CASE ~OperatorEdit /\ store' # store
  <2>1. edits' = edits
    BY <1>3 DEF Next, ClientStep, Claim, Update, Retire, Abandon, Store, vars
  <2>2. QED
    BY <1>3, <2>1, StoreStep, ClaimRefines, ChangeRefines
<1>4. QED
  BY <1>1, <1>2, <1>3

\* ImplementsClaims: the read-then-conditional-Sink protocol of the two endpoints is
\* an implementation of atomic claims.
THEOREM RegistryImplementsClaims == Spec => ImplementsClaims
BY ClaimsInit, ClaimsStep, InvariantHolds, PTL DEF Spec, ImplementsClaims, AtomicClaims!Spec
=============================================================================
