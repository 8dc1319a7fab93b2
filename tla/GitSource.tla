----------------------------- MODULE GitSource -----------------------------
(***************************************************************************)
(* A namespace served from a file in a git repository.  A refresh reads    *)
(* the file, judges it and records what it found in two stored documents:  *)
(* the last good copy and the status the owner reads.  The host's timer    *)
(* and every signed push run one, at once; the store compares and replaces *)
(* each document as one operation, but a refresh reads and writes each at  *)
(* an instant of its own.  Reads answer from the store alone.              *)
(* From src/src/git.rs and src/src/bin/server/git.rs.                      *)
(*                                                                         *)
(* Abstractions.  One namespace: two share only the lock that makes a      *)
(* compare-and-replace one operation.  A version is its bytes, and so its  *)
(* content id.  The reasons and times a status holds are left out but for  *)
(* why the file could not be read.  A file is written whole or not at all. *)
(***************************************************************************)
EXTENDS Naturals

CONSTANTS
    Version,      \* the contents the file takes
    Unservable,   \* active by type, over the ceiling, not UTF-8, or empty
    Conforming,   \* what the shapes accept
    Strategies,   \* the strategies the namespace may have been claimed with
    Private,      \* whether reading the repository takes a token
    Timer,        \* the host's background task
    Hook,         \* deliveries of signed pushes, each one at a time
    Reader,       \* reads of the namespace's document, each one at a time
    MaxPushes,    \* bound on the changes of the repository
    MaxFailures,  \* bound on the reads and writes that fail
    MaxCrashes    \* bound on the crashes

None == "none"
Gone == "gone"   \* the repository, branch or file is not there
Head == Version \cup {Gone}
Copy == Version \cup {None}
Refresher == {Timer} \cup Hook

ASSUME GitSourceAssumption ==
    /\ None \notin Version /\ Gone \notin Version
    /\ Unservable \subseteq Version
    /\ Conforming \subseteq Version \ Unservable
    /\ Strategies \subseteq {"hosted", "mirror"}
    /\ Private \in BOOLEAN
    /\ Timer \notin Hook
    /\ MaxPushes \in Nat /\ MaxFailures \in Nat /\ MaxCrashes \in Nat

\* An answer that refuses is not a version.
ASSUME AnswerAssumption == "not found" \notin Version /\ "unavailable" \notin Version

VARIABLES
    strategy,  \* the namespace's, as the registry holds it
    repo,      \* the file at the branch's head
    pushes,    \* how many times the head has changed
    document,  \* the stored last good copy
    status,    \* the stored status
    refresh,   \* per refresher, how far its refresh has got
    read,      \* per reader, how far its read has got
    kept,      \* for the properties: every version the store has held
    newest,    \* for the properties: the push the stored copy was read after
    failures,  \* how many reads and writes have failed
    crashes    \* how many times the process has died

world == <<strategy, repo, pushes>>
store == <<document, status, kept, newest>>
vars == <<world, store, refresh, read, failures, crashes>>

NoStatus == [serving |-> None, refused |-> None, unread |-> None]

\* What a refresh finds: a good version, a refused one, or nothing to judge and why.
Found(kind, version) == [kind |-> kind, version |-> version, why |-> None]
Unread(why) == [kind |-> "unread", version |-> None, why |-> why]

IdleRefresh == [pc |-> "idle", found |-> Unread(None), at |-> 0,
                copy |-> None, held |-> NoStatus, new |-> NoStatus]
IdleRead == [pc |-> "idle", kept |-> FALSE, answer |-> None]

Init ==
    /\ strategy \in Strategies
    /\ repo = Gone
    /\ pushes = 0
    /\ document = None
    /\ status = NoStatus
    /\ refresh = [r \in Refresher |-> IdleRefresh]
    /\ read = [d \in Reader |-> IdleRead]
    /\ kept = {}
    /\ newest = 0
    /\ failures = 0
    /\ crashes = 0

\* The owner pushes another version, or deletes the file.
Push(version) ==
    /\ pushes < MaxPushes
    /\ version # repo
    /\ repo' = version
    /\ pushes' = pushes + 1
    /\ UNCHANGED <<strategy, store, refresh, read, failures, crashes>>

-----------------------------------------------------------------------------
(* A refresh. *)

Goes(r, changes) == refresh' = [refresh EXCEPT ![r] = changes]

Fails ==
    /\ failures < MaxFailures
    /\ failures' = failures + 1

\* A refresh ends with an error that is answered and not recorded.
Ends(r) == Goes(r, IdleRefresh)

\* A push to another branch ends here, with nothing read, and is no step.
Begin(r) ==
    /\ refresh[r].pc = "idle"
    /\ Goes(r, [IdleRefresh EXCEPT !.pc = IF Private THEN "token" ELSE "fetch"])
    /\ UNCHANGED <<world, store, read, failures, crashes>>

\* What was found goes to the status, or to the document first when it is good.
Record(r, found) ==
    Goes(r, [refresh[r] EXCEPT
                !.pc = IF found.kind = "good" THEN "document" ELSE "status",
                !.found = found])

ReadToken(r) ==
    /\ refresh[r].pc = "token"
    /\ \/ /\ Goes(r, [refresh[r] EXCEPT !.pc = "fetch"])
          /\ UNCHANGED failures
       \/ Fails /\ Record(r, Unread("token"))
    /\ UNCHANGED <<world, store, read, crashes>>

\* FAULT: a file that is not there is read as an empty one.
FetchMissing(r) ==
    /\ refresh[r].pc = "fetch"
    /\ IF repo \in Version \ Unservable
       THEN Goes(r, [refresh[r] EXCEPT !.pc = "check", !.found = Found("fetched", repo),
                                      !.at = pushes])
       ELSE Record(r, Found("refused", repo))
    /\ UNCHANGED <<world, store, read, failures, crashes>>

\* The file as it is now; only "not there" counts as gone, a host with no reader is not the
\* repository's failure, and bytes that may never be served are refused before the shapes
\* are read.
Fetch(r) ==
    /\ refresh[r].pc = "fetch"
    /\ \/ Fails /\ (Record(r, Unread("unreadable")) \/ Ends(r))
       \/ /\ repo = Gone
          /\ Record(r, Unread("gone"))
          /\ UNCHANGED failures
       \/ /\ repo \in Unservable
          /\ Record(r, Found("refused", repo))
          /\ UNCHANGED failures
       \/ /\ repo \in Version \ Unservable
          /\ Goes(r, [refresh[r] EXCEPT !.pc = "check", !.found = Found("fetched", repo),
                                        !.at = pushes])
          /\ UNCHANGED failures
    /\ UNCHANGED <<world, store, read, crashes>>

\* FAULT: a version that could not be checked is accepted.
CheckUnchecked(r) ==
    LET version == refresh[r].found.version
    IN  /\ refresh[r].pc = "check"
        /\ \/ Fails /\ Record(r, Found("good", version))
           \/ /\ Record(r, Found(IF version \in Conforming THEN "good" ELSE "refused", version))
              /\ UNCHANGED failures
        /\ UNCHANGED <<world, store, read, crashes>>

\* Reads the shapes, validates nothing by them and then the version, in one step as nothing
\* shared is read after the shapes: a check that cannot run says nothing of the version.
Check(r) ==
    LET version == refresh[r].found.version
    IN  /\ refresh[r].pc = "check"
        /\ \/ Fails /\ Record(r, Unread("unchecked"))
           \/ /\ Record(r, Found(IF version \in Conforming THEN "good" ELSE "refused", version))
              /\ UNCHANGED failures
        /\ UNCHANGED <<world, store, read, crashes>>

\* record_good reads the stored copy, and writes only another version than it.
ReadDocument(r) ==
    /\ refresh[r].pc = "document"
    /\ \/ Fails /\ Ends(r)
       \/ /\ Goes(r, [refresh[r] EXCEPT
                !.pc = IF document = refresh[r].found.version THEN "status" ELSE "write document",
                !.copy = document])
          /\ UNCHANGED failures
    /\ UNCHANGED <<world, store, read, crashes>>

StoresDocument(r) ==
    /\ document' = refresh[r].found.version
    /\ kept' = kept \cup {refresh[r].found.version}
    /\ newest' = refresh[r].at

\* FAULT: a conflict is taken for success.
WriteDocumentAnyway(r) ==
    /\ refresh[r].pc = "write document"
    /\ Goes(r, [refresh[r] EXCEPT !.pc = "status"])
    /\ IF document = refresh[r].copy THEN StoresDocument(r)
       ELSE UNCHANGED <<document, kept, newest>>
    /\ UNCHANGED <<world, status, read, failures, crashes>>

\* The store's Sink, of a document it still holds as it was read, a conflict, or an
\* error, which may hide a write that was made.
WriteDocument(r) ==
    LET match == document = refresh[r].copy
    IN  /\ refresh[r].pc = "write document"
        /\ \/ /\ match
              /\ StoresDocument(r)
              /\ Goes(r, [refresh[r] EXCEPT !.pc = "status"])
              /\ UNCHANGED failures
           \/ /\ ~match
              /\ Ends(r)
              /\ UNCHANGED <<document, kept, newest, failures>>
           \/ /\ Fails /\ Ends(r)
              /\ \/ match /\ StoresDocument(r)
                 \/ UNCHANGED <<document, kept, newest>>
        /\ UNCHANGED <<world, status, read, crashes>>

\* FAULT: a failure is recorded only when none is.
RecordedFirst(held, found) ==
    CASE found.kind = "good" -> [NoStatus EXCEPT !.serving = found.version]
      [] found.kind = "refused" -> [held EXCEPT !.refused = found.version, !.unread = None]
      [] OTHER -> IF held.unread = None THEN [held EXCEPT !.unread = found.why] ELSE held

\* What a finding makes of the status: a good version clears what was wrong, a refused
\* one says the file was read, and a failure keeps what serves and what was refused.
Recorded(held, found) ==
    CASE found.kind = "good" -> [NoStatus EXCEPT !.serving = found.version]
      [] found.kind = "refused" -> [held EXCEPT !.refused = found.version, !.unread = None]
      [] OTHER -> [held EXCEPT !.unread = found.why]

\* Reads the status and works out the next; with nothing new the refresh is done.
ReadStatus(r) ==
    LET new == Recorded(status, refresh[r].found)
    IN  /\ refresh[r].pc = "status"
        /\ \/ Fails /\ Ends(r)
           \/ /\ Goes(r, IF new = status THEN IdleRefresh
                         ELSE [refresh[r] EXCEPT !.pc = "write status",
                                                 !.held = status, !.new = new])
              /\ UNCHANGED failures
        /\ UNCHANGED <<world, store, read, crashes>>

\* FAULT: the status is replaced whatever it has become.
WriteStatusBlind(r) ==
    /\ refresh[r].pc = "write status"
    /\ status' = refresh[r].new
    /\ Ends(r)
    /\ UNCHANGED <<world, document, kept, newest, read, failures, crashes>>

WriteStatus(r) ==
    LET match == status = refresh[r].held
    IN  /\ refresh[r].pc = "write status"
        /\ Ends(r)
        /\ \/ /\ match
              /\ status' = refresh[r].new
              /\ UNCHANGED failures
           \/ /\ ~match
              /\ UNCHANGED <<status, failures>>
           \/ /\ Fails
              /\ status' \in IF match THEN {status, refresh[r].new} ELSE {status}
        /\ UNCHANGED <<world, document, kept, newest, read, crashes>>

RefreshStep(r) ==
    \/ ReadToken(r)
    \/ Fetch(r)
    \/ Check(r)
    \/ ReadDocument(r)
    \/ WriteDocument(r)
    \/ ReadStatus(r)
    \/ WriteStatus(r)

-----------------------------------------------------------------------------
(* Reading the namespace. *)

\* FAULT: a mirror is withdrawn as a hosted namespace is.
ReadsStatusAlike(d) ==
    /\ read[d].pc # "document"
    /\ read' = [read EXCEPT ![d] =
          IF status.unread = "gone"
          THEN [pc |-> "answered", kept |-> kept # {}, answer |-> "not found"]
          ELSE [pc |-> "document", kept |-> kept # {}, answer |-> None]]
    /\ UNCHANGED <<world, store, refresh, failures, crashes>>

\* The face reads the status first: a hosted namespace whose file is gone is not found.
ReadsStatus(d) ==
    /\ read[d].pc # "document"
    /\ read' = [read EXCEPT ![d] =
          IF status.unread = "gone" /\ strategy = "hosted"
          THEN [pc |-> "answered", kept |-> kept # {}, answer |-> "not found"]
          ELSE [pc |-> "document", kept |-> kept # {}, answer |-> None]]
    /\ UNCHANGED <<world, store, refresh, failures, crashes>>

\* ... and then the copy; with none yet it is unavailable.
ReadsDocument(d) ==
    /\ read[d].pc = "document"
    /\ read' = [read EXCEPT ![d].pc = "answered",
                  ![d].answer = IF document = None THEN "unavailable" ELSE document]
    /\ UNCHANGED <<world, store, refresh, failures, crashes>>

-----------------------------------------------------------------------------

\* The process dies and restarts: the store survives, what was under way does not.
Crash ==
    /\ crashes < MaxCrashes
    /\ crashes' = crashes + 1
    /\ refresh' = [r \in Refresher |-> IdleRefresh]
    /\ read' = [d \in Reader |-> IdleRead]
    /\ UNCHANGED <<world, store, failures>>

Next ==
    \/ \E version \in Head : Push(version)
    \/ \E r \in Refresher : Begin(r) \/ RefreshStep(r)
    \/ \E d \in Reader : ReadsStatus(d) \/ ReadsDocument(d)
    \/ Crash

Spec == Init /\ [][Next]_vars

\* The timer's task goes round for ever, and each of its refreshes runs to its end: every
\* read has a time limit.  A push may never arrive, and its refresh may be cut off.
Fairness == WF_vars(Begin(Timer)) /\ WF_vars(RefreshStep(Timer))

FairSpec == Spec /\ Fairness

-----------------------------------------------------------------------------
(* Properties. *)

Why == {None, "token", "unreadable", "gone", "unchecked"}
StatusSet == [serving : Copy, refused : Copy, unread : Why]
FindingSet == [kind : {"fetched", "good", "refused", "unread"}, version : Copy, why : Why]
RefreshSet ==
    [pc : {"idle", "token", "fetch", "check", "document", "write document",
           "status", "write status"},
     found : FindingSet, at : 0..MaxPushes, copy : Copy, held : StatusSet, new : StatusSet]
ReadSet == [pc : {"idle", "document", "answered"}, kept : BOOLEAN,
            answer : Copy \cup {"not found", "unavailable"}]

\* The store and every refresh and read hold what the code's types say.
TypeOK ==
    /\ strategy \in Strategies
    /\ repo \in Head
    /\ pushes \in 0..MaxPushes
    /\ document \in Copy
    /\ status \in StatusSet
    /\ refresh \in [Refresher -> RefreshSet]
    /\ read \in [Reader -> ReadSet]
    /\ kept \subseteq Version
    /\ newest \in 0..MaxPushes
    /\ failures \in 0..MaxFailures
    /\ crashes \in 0..MaxCrashes

\* An unchecked version is never served: whatever fails or races, the store holds only
\* versions the shapes accepted, and so a read answers only those.
OnlyCheckedServed ==
    /\ kept \subseteq Conforming
    /\ \A d \in Reader : read[d].answer \in Version => read[d].answer \in Conforming

\* The status never names a version as serving before the store has held it: a crash or
\* a failure between the two writes leaves the status behind, never ahead.
ServingWasStored == status.serving \in kept \cup {None}

\* No refresh's finding is lost under another's: each status is the one before it with
\* one refresh's finding recorded on it.
NoFindingLost ==
    [][status' # status =>
          \E r \in Refresher : status' = Recorded(status, refresh[r].found)]_vars

\* A mirror keeps serving: once a version has been stored, every read answers one.
MirrorKeepsServing ==
    \A d \in Reader :
        read[d].pc = "answered" /\ read[d].kept /\ strategy = "mirror" =>
            read[d].answer \in Version

\* What the store holds once the repository has stayed as it is and nothing fails.
Settled(head) ==
    CASE head = Gone -> status.unread = "gone"
      [] head \in Conforming -> document = head /\ status = [NoStatus EXCEPT !.serving = head]
      [] OTHER -> status.refused = head /\ status.unread = None

\* The timer heals every missed push, race, failure and crash: if the repository stays
\* as it is, the store comes to say so, and stays so.
Converges == <>[][FALSE]_repo => <>[]Settled(repo)

\* What a read answers that finds the status and the copy as they are.
Answer == IF status.unread = "gone" /\ strategy = "hosted" THEN "not found"
          ELSE IF document = None THEN "unavailable" ELSE document

\* What the README says of a withdrawn hosted namespace, that it comes back when the file
\* does: while the file is gone, one that answers "not found" answers its copy again only
\* when a refresh records that it read the file before that, as good, as refused or as one
\* it could not check.
StaysWithdrawn ==
    [][repo = Gone /\ Answer = "not found" /\ Answer' \in Version
          => status'.unread \in {None, "unchecked"}]_vars

\* What the README says of a push that passes: it is stored and the next read serves it;
\* a refresh that read the file before the push does not store over it.
PushedStaysStored == [][newest' >= newest]_vars
=============================================================================
