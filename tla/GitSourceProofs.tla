-------------------------- MODULE GitSourceProofs --------------------------
(***************************************************************************)
(* Theorems about GitSource, for every set of versions, deliveries and     *)
(* reads and every bound.  The inductive invariant follows a version from  *)
(* the check to the store: what a refresh holds as good conforms, what it  *)
(* is about to tell the status has been stored, and the status it is about *)
(* to write is its finding recorded on the status it read.                 *)
(***************************************************************************)
EXTENDS GitSource, TLAPS

\* What a refresh under way holds, when the store has held the versions `k`.
RefreshSound(f, k) ==
    /\ f \in RefreshSet
    /\ f.pc = "check" => f.found.version \in Version
    /\ f.pc \in {"document", "write document"} => f.found.kind = "good"
    /\ f.found.kind = "good" => f.found.version \in Conforming
    /\ f.pc \in {"status", "write status"} /\ f.found.kind = "good" => f.found.version \in k
    /\ f.pc = "write status" => f.new = Recorded(f.held, f.found)

\* What a read under way holds.
ReadSound(d, k, s) ==
    /\ d \in ReadSet
    /\ d.answer \in Version => d.answer \in k
    /\ d.pc # "idle" /\ d.kept => k # {}
    /\ d.pc = "answered" /\ d.kept /\ s = "mirror" => d.answer \in Version

StoreSound ==
    /\ kept \subseteq Conforming
    /\ document \in kept \cup {None}
    /\ kept # {} => document # None
    /\ status.serving \in kept \cup {None}

WorldOK ==
    /\ strategy \in Strategies
    /\ repo \in Head
    /\ pushes \in 0..MaxPushes
    /\ status \in StatusSet
    /\ newest \in 0..MaxPushes
    /\ failures \in 0..MaxFailures
    /\ crashes \in 0..MaxCrashes

RefreshesSound ==
    /\ refresh = [r \in Refresher |-> refresh[r]]
    /\ \A r \in Refresher : RefreshSound(refresh[r], kept)

ReadsSound ==
    /\ read = [d \in Reader |-> read[d]]
    /\ \A d \in Reader : ReadSound(read[d], kept, strategy)

IInv == WorldOK /\ StoreSound /\ RefreshesSound /\ ReadsSound

-----------------------------------------------------------------------------
(* The pieces of a step. *)

LEMMA IdleSound ==
    ASSUME NEW k
    PROVE  RefreshSound(IdleRefresh, k)
  BY GitSourceAssumption DEF RefreshSound, IdleRefresh, RefreshSet, FindingSet, StatusSet,
     Unread, NoStatus, Copy, Why, None

\* What is recorded on a status is a status.
LEMMA RecordedType ==
    ASSUME NEW held \in StatusSet, NEW found \in FindingSet
    PROVE  Recorded(held, found) \in StatusSet
  <1>1. CASE found.kind = "good"
    BY <1>1, GitSourceAssumption DEF Recorded, StatusSet, FindingSet, NoStatus, Copy, Why
  <1>2. CASE found.kind = "refused"
    BY <1>2, GitSourceAssumption DEF Recorded, StatusSet, FindingSet, Copy, Why
  <1>3. CASE found.kind \notin {"good", "refused"}
    BY <1>3 DEF Recorded, StatusSet, FindingSet
  <1> QED BY <1>1, <1>2, <1>3

\* A status that records a finding serves what the finding stored, or what it served.
LEMMA RecordedServes ==
    ASSUME NEW held \in StatusSet, NEW found \in FindingSet
    PROVE  Recorded(held, found).serving =
              IF found.kind = "good" THEN found.version ELSE held.serving
  BY DEF Recorded, StatusSet, FindingSet, NoStatus

\* A refresh stays sound as the store comes to have held more.
LEMMA RefreshSoundGrows ==
    ASSUME NEW f, NEW k, NEW l, k \subseteq l, RefreshSound(f, k)
    PROVE  RefreshSound(f, l)
  BY DEF RefreshSound

LEMMA ReadSoundGrows ==
    ASSUME NEW d, NEW k, NEW l, NEW s, k \subseteq l, ReadSound(d, k, s)
    PROVE  ReadSound(d, l, s)
  BY DEF ReadSound

\* One refresh moves and the others stay as they were.
LEMMA OneMoves ==
    ASSUME RefreshesSound, NEW r \in Refresher, NEW f, RefreshSound(f, kept'),
           kept \subseteq kept', refresh' = [refresh EXCEPT ![r] = f]
    PROVE  RefreshesSound'
  <1>1. \A q \in Refresher : RefreshSound(refresh[q], kept')
    BY RefreshSoundGrows DEF RefreshesSound
  <1>2. \A q \in Refresher : RefreshSound(refresh'[q], kept')
    BY <1>1 DEF RefreshesSound
  <1>3. refresh' = [q \in Refresher |-> refresh'[q]]
    BY DEF RefreshesSound
  <1> QED BY <1>2, <1>3 DEF RefreshesSound

LEMMA ReadsStay ==
    ASSUME ReadsSound, kept \subseteq kept', UNCHANGED <<read, strategy>>
    PROVE  ReadsSound'
  <1>1. \A d \in Reader : ReadSound(read[d], kept', strategy)
    BY ReadSoundGrows DEF ReadsSound
  <1> QED BY <1>1 DEF ReadsSound

\* A refresh that records a finding other than a good one, or a good one it has checked.
LEMMA RecordSound ==
    ASSUME NEW f, NEW k, RefreshSound(f, k), NEW found \in FindingSet,
           found.kind # "fetched",
           found.kind = "good" => found.version \in Conforming
    PROVE  RefreshSound([f EXCEPT !.pc = IF found.kind = "good" THEN "document" ELSE "status",
                                  !.found = found], k)
  BY DEF RefreshSound, RefreshSet

LEMMA UnreadFinding ==
    ASSUME NEW why \in Why
    PROVE  /\ Unread(why) \in FindingSet
           /\ Unread(why).kind = "unread"
  BY DEF Unread, FindingSet, Copy

LEMMA VersionFinding ==
    ASSUME NEW kind \in {"fetched", "good", "refused"}, NEW version \in Version
    PROVE  /\ Found(kind, version) \in FindingSet
           /\ Found(kind, version).kind = kind
           /\ Found(kind, version).version = version
  BY DEF Found, FindingSet, Copy, Why

\* What a refresh under way becomes when it records such a finding.
LEMMA RecordMoves ==
    ASSUME RefreshesSound, NEW r \in Refresher, NEW found \in FindingSet,
           Record(r, found), found.kind # "fetched",
           found.kind = "good" => found.version \in Conforming
    PROVE  \E f : RefreshSound(f, kept) /\ refresh' = [refresh EXCEPT ![r] = f]
  <1>1. RefreshSound(refresh[r], kept)
    BY DEF RefreshesSound
  <1>2. RefreshSound([refresh[r] EXCEPT
                         !.pc = IF found.kind = "good" THEN "document" ELSE "status",
                         !.found = found], kept)
    BY <1>1, RecordSound
  <1> QED BY <1>2 DEF Record, Goes

\* The bound on failures holds, of a step that may be one.
LEMMA FailuresBounded ==
    ASSUME WorldOK, UNCHANGED failures \/ Fails
    PROVE  failures' \in 0..MaxFailures
  <1>1. failures \in 0..MaxFailures /\ MaxFailures \in Nat
    BY GitSourceAssumption DEF WorldOK
  <1> QED BY <1>1 DEF Fails

\* A step that moves one refresh and changes neither document.
LEMMA RefreshMoves ==
    ASSUME IInv, NEW r \in Refresher,
           \E f : RefreshSound(f, kept) /\ refresh' = [refresh EXCEPT ![r] = f],
           UNCHANGED <<world, store, read, crashes>>,
           UNCHANGED failures \/ Fails
    PROVE  IInv'
  <1>1. PICK f : RefreshSound(f, kept) /\ refresh' = [refresh EXCEPT ![r] = f]
    OBVIOUS
  <1>2. WorldOK'
    BY FailuresBounded DEF IInv, WorldOK, world, store
  <1>3. StoreSound'
    BY DEF IInv, StoreSound, store
  <1>4. RefreshesSound'
    BY <1>1, OneMoves DEF IInv, store
  <1>5. ReadsSound'
    BY ReadsStay DEF IInv, world, store
  <1> QED BY <1>2, <1>3, <1>4, <1>5 DEF IInv

-----------------------------------------------------------------------------
(* One lemma for each action. *)

LEMMA InitSound == Init => IInv
  <1> SUFFICES ASSUME Init PROVE IInv
    OBVIOUS
  <1>1. WorldOK
    BY GitSourceAssumption DEF Init, WorldOK, Head, StatusSet, NoStatus, Copy, Why
  <1>2. StoreSound
    BY DEF Init, StoreSound, NoStatus
  <1>3. RefreshesSound
    BY IdleSound DEF Init, RefreshesSound
  <1>4. ReadsSound
    BY GitSourceAssumption DEF Init, ReadsSound, ReadSound, ReadSet, IdleRead, Copy, None
  <1> QED BY <1>1, <1>2, <1>3, <1>4 DEF IInv

LEMMA PushSound ==
    ASSUME IInv, NEW version \in Head, Push(version)
    PROVE  IInv'
  <1>1. WorldOK'
    BY GitSourceAssumption DEF IInv, WorldOK, Push, store
  <1>2. StoreSound'
    BY DEF IInv, StoreSound, Push, store
  <1>3. RefreshesSound'
    BY DEF IInv, RefreshesSound, Push, store
  <1>4. ReadsSound'
    BY ReadsStay DEF IInv, Push, store
  <1> QED BY <1>1, <1>2, <1>3, <1>4 DEF IInv

LEMMA BeginSound ==
    ASSUME IInv, NEW r \in Refresher, Begin(r)
    PROVE  IInv'
  <1> DEFINE f == [IdleRefresh EXCEPT !.pc = IF Private THEN "token" ELSE "fetch"]
  <1>1. RefreshSound(f, kept)
    BY IdleSound DEF RefreshSound, RefreshSet, IdleRefresh, Unread
  <1>2. refresh' = [refresh EXCEPT ![r] = f]
    BY DEF Begin, Goes
  <1> HIDE DEF f
  <1> QED BY <1>1, <1>2, RefreshMoves DEF Begin

LEMMA ReadTokenSound ==
    ASSUME IInv, NEW r \in Refresher, ReadToken(r)
    PROVE  IInv'
  <1>1. RefreshSound(refresh[r], kept)
    BY DEF IInv, RefreshesSound
  <1>2. CASE Goes(r, [refresh[r] EXCEPT !.pc = "fetch"])
    <2>1. RefreshSound([refresh[r] EXCEPT !.pc = "fetch"], kept)
      BY <1>1 DEF RefreshSound, RefreshSet
    <2> QED BY <1>2, <2>1, RefreshMoves DEF ReadToken, Goes
  <1>3. CASE Record(r, Unread("token"))
    <2>1. Unread("token") \in FindingSet /\ Unread("token").kind = "unread"
      BY UnreadFinding DEF Why
    <2>2. \E f : RefreshSound(f, kept) /\ refresh' = [refresh EXCEPT ![r] = f]
      BY <1>3, <2>1, RecordMoves DEF IInv
    <2> QED BY <2>2, RefreshMoves DEF ReadToken
  <1> QED BY <1>2, <1>3 DEF ReadToken

\* A refresh that ends is idle.
LEMMA EndsMoves ==
    ASSUME NEW r \in Refresher, Ends(r)
    PROVE  \E f : RefreshSound(f, kept) /\ refresh' = [refresh EXCEPT ![r] = f]
  BY IdleSound DEF Ends, Goes

LEMMA FetchSound ==
    ASSUME IInv, NEW r \in Refresher, Fetch(r)
    PROVE  IInv'
  <1>1. RefreshSound(refresh[r], kept)
    BY DEF IInv, RefreshesSound
  <1>2. ASSUME NEW found \in FindingSet, found.kind \in {"unread", "refused"}, Record(r, found)
        PROVE  \E f : RefreshSound(f, kept) /\ refresh' = [refresh EXCEPT ![r] = f]
    BY <1>2, RecordMoves DEF IInv
  <1>3. \A why \in {"unreadable", "gone"} :
           Unread(why) \in FindingSet /\ Unread(why).kind = "unread"
    BY UnreadFinding DEF Why
  <1>4. CASE Record(r, Unread("unreadable")) \/ Record(r, Unread("gone"))
    <2>1. \E f : RefreshSound(f, kept) /\ refresh' = [refresh EXCEPT ![r] = f]
      BY <1>2, <1>3, <1>4
    <2> QED BY <2>1, RefreshMoves DEF Fetch
  <1>5. CASE repo \in Unservable /\ Record(r, Found("refused", repo))
    <2>1. Found("refused", repo) \in FindingSet /\ Found("refused", repo).kind = "refused"
      BY <1>5, GitSourceAssumption, VersionFinding
    <2>2. \E f : RefreshSound(f, kept) /\ refresh' = [refresh EXCEPT ![r] = f]
      BY <1>2, <1>5, <2>1
    <2> QED BY <2>2, RefreshMoves DEF Fetch
  <1>6. CASE /\ repo \in Version \ Unservable
             /\ Goes(r, [refresh[r] EXCEPT !.pc = "check", !.found = Found("fetched", repo),
                                           !.at = pushes])
    <2> DEFINE f == [refresh[r] EXCEPT !.pc = "check", !.found = Found("fetched", repo),
                                       !.at = pushes]
    <2>1. /\ Found("fetched", repo) \in FindingSet
          /\ Found("fetched", repo).kind = "fetched"
          /\ Found("fetched", repo).version = repo
      BY <1>6, VersionFinding
    <2>2. pushes \in 0..MaxPushes
      BY DEF IInv, WorldOK
    <2>3. RefreshSound(f, kept)
      BY <1>1, <1>6, <2>1, <2>2 DEF RefreshSound, RefreshSet
    <2>4. refresh' = [refresh EXCEPT ![r] = f]
      BY <1>6 DEF Goes
    <2> HIDE DEF f
    <2> QED BY <2>3, <2>4, RefreshMoves DEF Fetch
  <1>7. CASE Ends(r)
    <2>1. \E f : RefreshSound(f, kept) /\ refresh' = [refresh EXCEPT ![r] = f]
      BY <1>7, EndsMoves
    <2> QED BY <2>1, RefreshMoves DEF Fetch
  <1> QED BY <1>4, <1>5, <1>6, <1>7 DEF Fetch

LEMMA CheckSound ==
    ASSUME IInv, NEW r \in Refresher, Check(r)
    PROVE  IInv'
  <1> DEFINE version == refresh[r].found.version
             found == Found(IF version \in Conforming THEN "good" ELSE "refused", version)
  <1>1. version \in Version
    BY DEF IInv, RefreshesSound, RefreshSound, Check
  <1>2. CASE Record(r, Unread("unchecked"))
    <2>1. Unread("unchecked") \in FindingSet /\ Unread("unchecked").kind = "unread"
      BY UnreadFinding DEF Why
    <2>2. \E f : RefreshSound(f, kept) /\ refresh' = [refresh EXCEPT ![r] = f]
      BY <1>2, <2>1, RecordMoves DEF IInv
    <2> QED BY <2>2, RefreshMoves DEF Check
  <1>3. CASE Record(r, found)
    <2>1. /\ found \in FindingSet
          /\ found.kind # "fetched"
          /\ found.kind = "good" => found.version \in Conforming
      BY <1>1, VersionFinding
    <2> HIDE DEF found
    <2>2. \E f : RefreshSound(f, kept) /\ refresh' = [refresh EXCEPT ![r] = f]
      BY <1>3, <2>1, RecordMoves DEF IInv
    <2> QED BY <2>2, RefreshMoves DEF Check
  <1> QED BY <1>2, <1>3 DEF Check

LEMMA ReadDocumentSound ==
    ASSUME IInv, NEW r \in Refresher, ReadDocument(r)
    PROVE  IInv'
  <1> DEFINE f == [refresh[r] EXCEPT
                !.pc = IF document = refresh[r].found.version THEN "status" ELSE "write document",
                !.copy = document]
  <1>1. CASE Ends(r)
    <2>1. \E g : RefreshSound(g, kept) /\ refresh' = [refresh EXCEPT ![r] = g]
      BY <1>1, EndsMoves
    <2> QED BY <2>1, RefreshMoves DEF ReadDocument
  <1>2. CASE Goes(r, f)
    <2>1. /\ RefreshSound(refresh[r], kept)
          /\ refresh[r].pc = "document"
      BY DEF IInv, RefreshesSound, ReadDocument
    <2>2. refresh[r].found.kind = "good" /\ refresh[r].found.version \in Conforming
      BY <2>1 DEF RefreshSound
    <2>3. document \in Copy
      BY GitSourceAssumption DEF IInv, StoreSound, Copy
    <2>4. document = refresh[r].found.version => refresh[r].found.version \in kept
      BY <2>2, GitSourceAssumption DEF IInv, StoreSound
    <2>5. RefreshSound(f, kept)
      BY <2>1, <2>2, <2>3, <2>4 DEF RefreshSound, RefreshSet
    <2>6. refresh' = [refresh EXCEPT ![r] = f]
      BY <1>2 DEF Goes
    <2> HIDE DEF f
    <2> QED BY <2>5, <2>6, RefreshMoves DEF ReadDocument
  <1> QED BY <1>1, <1>2 DEF ReadDocument

\* The store takes the version a refresh has checked.
LEMMA StoresSound ==
    ASSUME IInv, NEW r \in Refresher, refresh[r].pc = "write document", StoresDocument(r),
           UNCHANGED <<world, status, read, crashes>>,
           UNCHANGED failures \/ Fails,
           refresh' = [refresh EXCEPT ![r] = IdleRefresh]
              \/ refresh' = [refresh EXCEPT ![r] = [refresh[r] EXCEPT !.pc = "status"]]
    PROVE  IInv'
  <1>1. RefreshSound(refresh[r], kept) /\ refresh[r].pc = "write document"
    BY DEF IInv, RefreshesSound
  <1>2. /\ refresh[r].found.version \in Conforming
        /\ refresh[r].at \in 0..MaxPushes
    BY <1>1 DEF RefreshSound, RefreshSet
  <1>3. kept \subseteq kept' /\ refresh[r].found.version \in kept'
    BY DEF StoresDocument
  <1>4. WorldOK'
    BY <1>2, FailuresBounded DEF IInv, WorldOK, StoresDocument, world
  <1>5. StoreSound'
    BY <1>2, <1>3, GitSourceAssumption DEF IInv, StoreSound, StoresDocument
  <1>6. RefreshSound([refresh[r] EXCEPT !.pc = "status"], kept')
    BY <1>1, <1>3 DEF RefreshSound, RefreshSet
  <1>7. RefreshesSound'
    BY <1>3, <1>6, IdleSound, OneMoves DEF IInv
  <1>8. ReadsSound'
    BY <1>3, ReadsStay DEF IInv, world
  <1> QED BY <1>4, <1>5, <1>7, <1>8 DEF IInv

LEMMA WriteDocumentSound ==
    ASSUME IInv, NEW r \in Refresher, WriteDocument(r)
    PROVE  IInv'
  <1>1. CASE StoresDocument(r)
    BY <1>1, StoresSound DEF WriteDocument, Goes, Ends
  <1>2. CASE Ends(r) /\ UNCHANGED <<document, kept, newest>>
    <2>1. \E f : RefreshSound(f, kept) /\ refresh' = [refresh EXCEPT ![r] = f]
      BY <1>2, EndsMoves
    <2> QED BY <1>2, <2>1, RefreshMoves DEF WriteDocument, store
  <1> QED BY <1>1, <1>2 DEF WriteDocument

LEMMA ReadStatusSound ==
    ASSUME IInv, NEW r \in Refresher, ReadStatus(r)
    PROVE  IInv'
  <1> DEFINE new == Recorded(status, refresh[r].found)
             f == [refresh[r] EXCEPT !.pc = "write status", !.held = status, !.new = new]
  <1>1. CASE Ends(r) \/ Goes(r, IdleRefresh)
    <2>1. \E g : RefreshSound(g, kept) /\ refresh' = [refresh EXCEPT ![r] = g]
      BY <1>1, EndsMoves DEF Ends
    <2> QED BY <2>1, RefreshMoves DEF ReadStatus
  <1>2. CASE Goes(r, f)
    <2>1. /\ RefreshSound(refresh[r], kept)
          /\ refresh[r].pc = "status"
      BY DEF IInv, RefreshesSound, ReadStatus
    <2>2. status \in StatusSet
      BY DEF IInv, WorldOK
    <2>3. new \in StatusSet
      BY <2>1, <2>2, RecordedType DEF RefreshSound, RefreshSet
    <2>4. RefreshSound(f, kept)
      BY <2>1, <2>2, <2>3 DEF RefreshSound, RefreshSet
    <2>5. refresh' = [refresh EXCEPT ![r] = f]
      BY <1>2 DEF Goes
    <2> HIDE DEF f
    <2> QED BY <2>4, <2>5, RefreshMoves DEF ReadStatus
  <1> QED BY <1>1, <1>2 DEF ReadStatus

\* The status a refresh writes is its finding recorded on the status it replaces.
LEMMA WrittenSound ==
    ASSUME IInv, NEW r \in Refresher, refresh[r].pc = "write status",
           status = refresh[r].held
    PROVE  /\ refresh[r].new = Recorded(status, refresh[r].found)
           /\ refresh[r].new \in StatusSet
           /\ refresh[r].new.serving \in kept \cup {None}
  <1>1. RefreshSound(refresh[r], kept)
    BY DEF IInv, RefreshesSound
  <1>2. refresh[r].found \in FindingSet /\ refresh[r].new \in StatusSet
    BY <1>1 DEF RefreshSound, RefreshSet
  <1>3. refresh[r].new = Recorded(status, refresh[r].found)
    BY <1>1 DEF RefreshSound
  <1>4. refresh[r].new.serving =
           IF refresh[r].found.kind = "good" THEN refresh[r].found.version ELSE status.serving
    BY <1>2, <1>3, RecordedServes DEF IInv, WorldOK
  <1>5. refresh[r].found.kind = "good" => refresh[r].found.version \in kept
    BY <1>1 DEF RefreshSound
  <1> QED BY <1>2, <1>3, <1>4, <1>5 DEF IInv, StoreSound

LEMMA WriteStatusSound ==
    ASSUME IInv, NEW r \in Refresher, WriteStatus(r)
    PROVE  IInv'
  <1>1. status' = status \/ (status' = refresh[r].new /\ status = refresh[r].held)
    BY DEF WriteStatus
  <1>2. status' \in StatusSet /\ status'.serving \in kept \cup {None}
    BY <1>1, WrittenSound DEF WriteStatus, IInv, WorldOK, StoreSound
  <1>3. UNCHANGED <<world, document, kept, newest, read, crashes>>
    BY DEF WriteStatus
  <1>4. WorldOK'
    BY <1>2, <1>3, FailuresBounded DEF IInv, WorldOK, WriteStatus, world
  <1>5. StoreSound'
    BY <1>2, <1>3 DEF IInv, StoreSound
  <1>6. RefreshesSound'
    BY <1>3, IdleSound, OneMoves DEF IInv, WriteStatus, Ends, Goes
  <1>7. ReadsSound'
    BY <1>3, ReadsStay DEF IInv, world
  <1> QED BY <1>4, <1>5, <1>6, <1>7 DEF IInv

\* A step that moves one read and changes nothing else.
LEMMA ReadMoves ==
    ASSUME IInv, NEW d \in Reader, NEW f, ReadSound(f, kept, strategy),
           read' = [read EXCEPT ![d] = f],
           UNCHANGED <<world, store, refresh, failures, crashes>>
    PROVE  IInv'
  <1>1. WorldOK' /\ StoreSound' /\ RefreshesSound'
    BY DEF IInv, WorldOK, StoreSound, RefreshesSound, world, store
  <1>2. ReadsSound'
    BY DEF IInv, ReadsSound, world, store
  <1> QED BY <1>1, <1>2 DEF IInv

LEMMA ReadsStatusSound ==
    ASSUME IInv, NEW d \in Reader, ReadsStatus(d)
    PROVE  IInv'
  <1> DEFINE notFound == [pc |-> "answered", kept |-> kept # {}, answer |-> "not found"]
             goesOn == [pc |-> "document", kept |-> kept # {}, answer |-> None]
  <1>1. ReadSound(goesOn, kept, strategy)
    BY GitSourceAssumption DEF ReadSound, ReadSet, Copy
  <1>2. strategy = "hosted" => ReadSound(notFound, kept, strategy)
    BY AnswerAssumption DEF ReadSound, ReadSet
  <1> QED BY <1>1, <1>2, ReadMoves DEF ReadsStatus

LEMMA ReadsDocumentSound ==
    ASSUME IInv, NEW d \in Reader, ReadsDocument(d)
    PROVE  IInv'
  <1> DEFINE answer == IF document = None THEN "unavailable" ELSE document
             f == [read[d] EXCEPT !.pc = "answered", !.answer = answer]
  <1>1. ReadSound(read[d], kept, strategy) /\ read[d].pc = "document"
    BY DEF IInv, ReadsSound, ReadsDocument
  <1>2. /\ answer \in Version \cup {"unavailable"}
        /\ answer \in Version => answer \in kept
        /\ kept # {} => answer \in Version
    BY GitSourceAssumption, AnswerAssumption DEF IInv, StoreSound
  <1>3. read' = [read EXCEPT ![d] = f]
    BY DEF IInv, ReadsSound, ReadsDocument
  <1> HIDE DEF answer
  <1>4. ReadSound(f, kept, strategy)
    BY <1>1, <1>2 DEF ReadSound, ReadSet, Copy
  <1> HIDE DEF f
  <1> QED BY <1>3, <1>4, ReadMoves DEF ReadsDocument

LEMMA CrashSound ==
    ASSUME IInv, Crash
    PROVE  IInv'
  <1>1. crashes' \in 0..MaxCrashes
    BY GitSourceAssumption DEF IInv, WorldOK, Crash
  <1>2. WorldOK'
    BY <1>1 DEF IInv, WorldOK, Crash, world, store
  <1>3. StoreSound'
    BY DEF IInv, StoreSound, Crash, store
  <1>4. RefreshesSound'
    BY IdleSound DEF RefreshesSound, Crash
  <1>5. ReadSound(IdleRead, kept', strategy')
    BY GitSourceAssumption DEF ReadSound, ReadSet, IdleRead, Copy, None
  <1>6. ReadsSound'
    BY <1>5 DEF ReadsSound, Crash
  <1> QED BY <1>2, <1>3, <1>4, <1>6 DEF IInv

LEMMA StepSound == IInv /\ [Next]_vars => IInv'
  <1> SUFFICES ASSUME IInv, [Next]_vars PROVE IInv'
    OBVIOUS
  <1>1. ASSUME NEW version \in Head, Push(version) PROVE IInv'
    BY <1>1, PushSound
  <1>2. ASSUME NEW r \in Refresher, Begin(r) PROVE IInv'
    BY <1>2, BeginSound
  <1>3. ASSUME NEW r \in Refresher, RefreshStep(r) PROVE IInv'
    BY <1>3, ReadTokenSound, FetchSound, CheckSound, ReadDocumentSound, WriteDocumentSound,
       ReadStatusSound, WriteStatusSound DEF RefreshStep
  <1>4. ASSUME NEW d \in Reader, ReadsStatus(d) \/ ReadsDocument(d) PROVE IInv'
    BY <1>4, ReadsStatusSound, ReadsDocumentSound
  <1>5. CASE UNCHANGED vars
    BY <1>5 DEF IInv, WorldOK, StoreSound, RefreshesSound, ReadsSound, vars, world, store
  <1> QED BY <1>1, <1>2, <1>3, <1>4, <1>5, CrashSound DEF Next

-----------------------------------------------------------------------------
(* The theorems. *)

\* What every version, refresh, read and document of every run is bound by.
THEOREM AlwaysIInv == Spec => []IInv
  BY InitSound, StepSound, PTL DEF Spec

\* Every variable keeps the type the code gives it, whatever fails, races or dies.
THEOREM AlwaysTypeOK == Spec => []TypeOK
  <1>1. IInv => TypeOK
    <2> SUFFICES ASSUME IInv PROVE TypeOK
      OBVIOUS
    <2>1. document \in Copy /\ kept \subseteq Version
      BY GitSourceAssumption DEF IInv, StoreSound, Copy
    <2>2. refresh \in [Refresher -> RefreshSet]
      BY DEF IInv, RefreshesSound, RefreshSound
    <2>3. read \in [Reader -> ReadSet]
      BY DEF IInv, ReadsSound, ReadSound
    <2> QED BY <2>1, <2>2, <2>3 DEF IInv, WorldOK, TypeOK
  <1> QED BY <1>1, AlwaysIInv, PTL

\* A version the shapes have not accepted is never stored and never answered, of any
\* number of pushes, refreshes and reads.
THEOREM AlwaysOnlyCheckedServed == Spec => []OnlyCheckedServed
  <1>1. IInv => OnlyCheckedServed
    BY DEF IInv, StoreSound, ReadsSound, ReadSound, OnlyCheckedServed
  <1> QED BY <1>1, AlwaysIInv, PTL

\* The status never runs ahead of the store.
THEOREM AlwaysServingWasStored == Spec => []ServingWasStored
  <1>1. IInv => ServingWasStored
    BY DEF IInv, StoreSound, ServingWasStored
  <1> QED BY <1>1, AlwaysIInv, PTL

\* Once a mirror has served, every read of it answers a version.
THEOREM AlwaysMirrorKeepsServing == Spec => []MirrorKeepsServing
  <1>1. IInv => MirrorKeepsServing
    BY DEF IInv, ReadsSound, ReadSound, MirrorKeepsServing
  <1> QED BY <1>1, AlwaysIInv, PTL

\* Each status is the one before it with one refresh's finding recorded on it.
THEOREM NeverLosesFinding == Spec => NoFindingLost
  <1>1. IInv /\ [Next]_vars =>
           [status' # status =>
               \E r \in Refresher : status' = Recorded(status, refresh[r].found)]_vars
    <2> SUFFICES ASSUME IInv, Next, status' # status
                 PROVE  \E r \in Refresher : status' = Recorded(status, refresh[r].found)
      OBVIOUS
    <2>1. PICK r \in Refresher : WriteStatus(r)
      BY DEF Next, RefreshStep, Push, Begin, ReadToken, Fetch, Check, ReadDocument,
         WriteDocument, ReadStatus, ReadsStatus, ReadsDocument, Crash, store
    <2>2. status' = refresh[r].new /\ status = refresh[r].held
      BY <2>1 DEF WriteStatus
    <2> QED BY <2>1, <2>2, WrittenSound DEF WriteStatus
  <1> QED BY <1>1, AlwaysIInv, PTL DEF Spec, NoFindingLost
=============================================================================
