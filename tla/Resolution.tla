----------------------------- MODULE Resolution -----------------------------
(***************************************************************************)
(* Answering a path, now or as of a date: urn:name:resolve and             *)
(* urn:name:document.  The present is read from the registry and the       *)
(* vocabulary as they are.  The past is read from the history of the       *)
(* repository holding both, in four requests, of which two read a log that *)
(* commits keep being added to.  From src/src/lib.rs, src/src/document.rs, *)
(* src/src/history.rs, src/src/registry.rs and src/src/rules.rs.           *)
(*                                                                         *)
(* Abstractions.  One request, as answering changes nothing for another.   *)
(* One namespace, claimed or not, held in no repository of its own.  What  *)
(* the files hold now is what the newest commits hold.  Documents are      *)
(* asked for as they are stored, and are below the ceiling.                *)
(***************************************************************************)
EXTENDS Dates, Rules

CONSTANTS
    Prefix,      \* the namespace's, as segments
    Registries,  \* what a commit of the registry may hold
    Texts,       \* the versions of the vocabulary
    Years,       \* the years whose days are counted
    Starts,      \* the dates the model's day 0 may be
    LastDay,     \* bound on the days
    Seconds,     \* the times of day at which something happens
    Offsets,     \* the offsets commits are dated with
    Questions,   \* what is asked
    LogLimit,    \* LOG_LIMIT, the commits a log is asked for
    FirstCommits, \* file and content of the commits made at the first moment
    MaxCommits   \* bound on the commits after them

Gone == [kind |-> "gone"]
Text(text) == [kind |-> "text", text |-> text]
Contents(file) == {Gone} \cup IF file = "registry" THEN Registries ELSE {Text(t) : t \in Texts}
Files == {"registry", "vocabulary"}
Moments == [day : 1..LastDay, second : Seconds]
Question ==
    [face : {"resolve", "document"}, path : Path,
     form : {"none", "date", "stretched", "instant"}, day : 0..LastDay,
     second : 0..(DaySeconds - 1), offset : -MaxOffset..MaxOffset]

ASSUME ResolutionAssumption ==
    /\ Prefix \in Path
    /\ LastDay \in Nat \ {0} /\ LogLimit \in Nat \ {0} /\ MaxCommits \in Nat
    /\ Starts \subseteq [year : Int, month : 1..12, day : 1..31]
    /\ \A date \in Starts :
          /\ IsDate(date) /\ date.year # 0
          /\ Civil(EpochDays(date) + LastDay + 2).year <= MaxYear
    /\ Seconds \subseteq 0..(DaySeconds - 1) /\ Seconds # {}
    /\ Offsets \subseteq -MaxOffset..MaxOffset
    /\ Years \subseteq Int
    /\ Questions \subseteq Question
    /\ FirstCommits \in Seq([file : Files, content : UNION {Contents(file) : file \in Files}])
    /\ \A i \in DOMAIN FirstCommits : FirstCommits[i].content \in Contents(FirstCommits[i].file)
    /\ \A registry \in Registries :
          /\ registry.kind \in {"unclaimed", "hosted", "redirect", "retired"}
          /\ registry.kind = "redirect" =>
                /\ registry.target \in Seq(TargetPart)
                /\ registry.rules \in Seq([match : Seq(Piece), target : Seq(TargetPart)])

VARIABLES
    start,  \* the date of day 0
    clock,  \* the moment it is
    log,    \* every commit, the newest first
    asked   \* the request under way, or the last one answered

vars == <<start, clock, log, asked>>

-----------------------------------------------------------------------------
(* The days of the model, which follow the date it starts at. *)

Calendar[day \in -1..(LastDay + 1)] ==
    IF day = -1 THEN start ELSE Tomorrow(Calendar[day - 1])

\* A moment as it is written at an offset.
Written(moment, offset) ==
    LET local == Moment(moment.day, moment.second + offset)
    IN  [form |-> "instant", date |-> Calendar[local.day], second |-> local.second,
         offset |-> offset]

\* The moment a question is about, and how it is written: `stretched` is a date one past
\* another in the same month, which may be no date at all.
Meant(question) ==
    CASE question.form = "date" -> [day |-> question.day, second |-> DaySeconds - 1]
      [] question.form = "stretched" -> [day |-> question.day + 1, second |-> DaySeconds - 1]
      [] OTHER -> [day |-> question.day, second |-> question.second]

AsOf(question) ==
    CASE question.form = "date" -> [form |-> "date", date |-> Calendar[question.day]]
      [] question.form = "stretched" ->
            [form |-> "date", date |-> [Calendar[question.day] EXCEPT !.day = @ + 1]]
      [] OTHER -> Written(Meant(question), question.offset)

-----------------------------------------------------------------------------
(* The repository. *)

Made(file, content, authored, offset) ==
    [file |-> file, content |-> content, when |-> authored, date |-> Written(authored, offset)]

FirstMoment == CHOOSE first \in Moments : \A moment \in Moments : NotAfter(first, moment)
FirstLog ==
    [i \in DOMAIN FirstCommits |->
        Made(FirstCommits[i].file, FirstCommits[i].content, FirstMoment, 0)]

\* A commit lands, authored at any time before.
Commit(file, content, authored, offset) ==
    /\ Len(log) < Len(FirstCommits) + MaxCommits
    /\ NotAfter(authored, clock)
    /\ log' = <<Made(file, content, authored, offset)>> \o log
    /\ UNCHANGED <<start, clock, asked>>

Tick(moment) ==
    /\ NotAfter(clock, moment) /\ moment # clock
    /\ clock' = moment
    /\ UNCHANGED <<start, log, asked>>

\* The commits that touch a file, by their places in the log, and the newest of some.
Touching(file) == {i \in DOMAIN log : log[i].file = file}
Newest(places) == CHOOSE i \in places : \A j \in places : i <= j

\* What a file holds now.
Current(file) == IF Touching(file) = {} THEN Gone ELSE log[Newest(Touching(file))].content

\* urn:repo:log, which answers no more commits than it is asked for.
Listed(file) ==
    {i \in Touching(file) : Cardinality({j \in Touching(file) : j < i}) < LogLimit}

\* commit_at takes the first of these, in the order of the log.
OldEnough(file, at) == {i \in Listed(file) : NotAfter(Read(log[i].date), at)}

-----------------------------------------------------------------------------
(* Answering. *)

Answer(kind) == [kind |-> kind, url |-> << >>, text |-> Gone]
NoMoment == [day |-> 0, second |-> 0]
NoCommit == [file |-> "registry", content |-> Gone]
Answers(answer) ==
    asked' = [asked EXCEPT !.pc = "answered", !.answer = answer, !.commit = NoCommit]

\* A question is read first: one whose date cannot be read is refused.  Then the document
\* is answered within the limits of today's registry, and a path from the one asked for.
Ask(question) ==
    LET past == question.form # "none"
    IN  /\ asked.pc \in {"idle", "answered"}
        /\ asked' = [pc |-> IF past /\ ~Parses(AsOf(question)) THEN "answered"
                            ELSE IF past /\ question.face = "resolve" THEN "log"
                            ELSE "load",
                     question |-> question,
                     at |-> IF past /\ Parses(AsOf(question)) THEN Read(AsOf(question))
                            ELSE NoMoment,
                     file |-> "registry", commit |-> NoCommit,
                     answer |-> Answer(IF past /\ ~Parses(AsOf(question)) THEN "refused" ELSE "none"),
                     commits |-> Len(log)]
        /\ UNCHANGED <<start, clock, log>>

\* Registry::from_json: a rule that fails its check takes the file down.
Loads(registry) ==
    registry.kind = "redirect" =>
        \A i \in DOMAIN registry.rules : CheckRule(registry.rules[i])

\* resolve_path and the strategy's answer.
Resolved(registry, path) ==
    IF ~Loads(registry) THEN Answer("error")
    ELSE IF registry.kind = "unclaimed" \/ ~Covers(Prefix, path) THEN Answer("not found")
    ELSE IF registry.kind = "redirect"
    THEN [Answer("redirect") EXCEPT
            !.url = Redirection(registry.rules, registry.target,
                                SubSeq(path, Len(Prefix) + 1, Len(path)))]
    ELSE Answer(registry.kind)

\* A hosted document is one read more.
Resolves(registry) ==
    LET answer == Resolved(registry, asked.question.path)
    IN  IF answer.kind = "hosted" /\ asked.question.face = "document"
        THEN asked' = [asked EXCEPT !.file = "vocabulary", !.commit = NoCommit,
                          !.pc = IF asked.question.form = "none" THEN "source" ELSE "log"]
        ELSE Answers(answer)

\* load: today's registry, which a past document is answered within the limits of.
Load ==
    LET registry == Current("registry")
    IN  /\ asked.pc = "load"
        /\ IF registry = Gone \/ ~Loads(registry) THEN Answers(Answer("error"))
           ELSE IF asked.question.form = "none" THEN Resolves(registry)
           ELSE asked' = [asked EXCEPT !.pc = "log"]
        /\ UNCHANGED <<start, clock, log>>

\* The document as it is now.
Source ==
    /\ asked.pc = "source"
    /\ IF Current("vocabulary") = Gone THEN Answers(Answer("error"))
       ELSE Answers([Answer("text") EXCEPT !.text = Current("vocabulary")])
    /\ UNCHANGED <<start, clock, log>>

\* FAULT: a log cut at its limit is taken for the whole of it.
ReadLogWhole ==
    LET old == OldEnough(asked.file, Read(FormatUtc(asked.at)))
    IN  /\ asked.pc = "log"
        /\ IF old = {} THEN Answers(Answer("absent"))
           ELSE asked' = [asked EXCEPT !.pc = "show",
                    !.commit = [file |-> asked.file, content |-> log[Newest(old)].content]]
        /\ UNCHANGED <<start, clock, log>>

\* repo_history picks the commit, for the instant as it was sent to it.
ReadLog ==
    LET old == OldEnough(asked.file, Read(FormatUtc(asked.at)))
        cut == Cardinality(Listed(asked.file)) >= LogLimit
    IN  /\ asked.pc = "log"
        /\ IF old = {} THEN Answers(Answer(IF cut THEN "unreadable" ELSE "absent"))
           ELSE asked' = [asked EXCEPT !.pc = "show",
                    !.commit = [file |-> asked.file, content |-> log[Newest(old)].content]]
        /\ UNCHANGED <<start, clock, log>>

\* ... and then reads the file at that commit, which no later commit changes.
Show ==
    /\ asked.pc = "show"
    /\ IF asked.commit.content = Gone THEN Answers(Answer("absent"))
       ELSE IF asked.file = "registry" THEN Resolves(asked.commit.content)
       ELSE Answers([Answer("text") EXCEPT !.text = asked.commit.content])
    /\ UNCHANGED <<start, clock, log>>

-----------------------------------------------------------------------------

Init ==
    /\ start \in Starts
    /\ clock = FirstMoment
    /\ log = FirstLog
    /\ asked = [pc |-> "idle"]

Next ==
    \/ \E file \in Files, authored \in Moments, offset \in Offsets :
          \E content \in Contents(file) : Commit(file, content, authored, offset)
    \/ \E moment \in Moments : Tick(moment)
    \/ \E question \in Questions : Ask(question)
    \/ Load
    \/ Source
    \/ ReadLog
    \/ Show

Spec == Init /\ [][Next]_vars

-----------------------------------------------------------------------------
(* Properties. *)

\* The request under way holds a moment of the model's days, and an answer only once.
TypeOK ==
    /\ start \in Starts
    /\ clock \in Moments
    /\ Len(log) <= Len(FirstCommits) + MaxCommits
    /\ \A i \in DOMAIN log :
          /\ log[i].file \in Files
          /\ log[i].content \in Contents(log[i].file)
          /\ log[i].when \in Moments
          /\ IsText(log[i].date)
    /\ asked.pc \in {"idle", "load", "log", "show", "source", "answered"}
    /\ asked.pc # "idle" =>
          /\ asked.question \in Questions
          /\ asked.at.second \in 0..(DaySeconds - 1)
          /\ asked.commit.content \in Contents(asked.file)
          /\ asked.answer.kind = "none" <=> asked.pc # "answered"

\* What a file held at a moment, by the true times and not the dates that are written.
AsItStood(file, moment) ==
    LET old == {i \in DOMAIN log : log[i].file = file /\ NotAfter(log[i].when, moment)}
    IN  IF old = {} THEN Gone ELSE log[Newest(old)].content

\* What a question about the past is answered when both files are read at once.
Expected(question) ==
    LET registry == AsItStood("registry", Meant(question))
        vocabulary == AsItStood("vocabulary", Meant(question))
        answer == Resolved(registry, question.path)
    IN  IF registry = Gone THEN Answer("absent")
        ELSE IF answer.kind # "hosted" \/ question.face = "resolve" THEN answer
        ELSE IF vocabulary = Gone THEN Answer("absent")
        ELSE [Answer("text") EXCEPT !.text = vocabulary]

\* No commit dated at or before the moment asked about has landed since it was asked.
Undisturbed ==
    \A i \in 1..(Len(log) - asked.commits) : ~NotAfter(log[i].when, Meant(asked.question))

\* An answer about the past is the one of that moment, registry and document alike,
\* whatever offset it was asked in, however commits are dated, and whatever lands while
\* the four reads are made or ever after; or it says that it cannot be given.
PastIsExact ==
    (asked.pc = "answered" /\ asked.question.form # "none" /\ Undisturbed) =>
        \/ asked.answer = Expected(asked.question)
        \/ asked.answer.kind = "refused"
        \/ asked.answer.kind = "unreadable" /\ Cardinality(Touching(asked.file)) >= LogLimit
        \/ asked.answer.kind = "error" /\ asked.question.face = "document"

\* Every day of the years of the model is counted once, and is written as it is read:
\* the sums agree with a calendar that goes from each day to the next.
DaysAreCounted ==
    (asked.pc = "idle" /\ log = FirstLog) =>
        /\ EpochDays([year |-> 1970, month |-> 1, day |-> 1]) = 0
        /\ \A year \in Years, month \in 1..12 : \A day \in 1..Longest(year, month) :
              LET date == [year |-> year, month |-> month, day |-> day]
              IN  /\ EpochDays(Tomorrow(date)) = EpochDays(date) + 1
                  /\ Civil(EpochDays(date)) = date

\* A date is refused exactly when the calendar does not have it.
OnlyFalseDatesRefused ==
    (asked.pc = "answered" /\ asked.question.form = "stretched") =>
        (asked.answer.kind = "refused"
            <=> AsOf(asked.question).date # Calendar[asked.question.day + 1])

\* A capture cannot change where a target points: the host of every redirect is what the
\* registry spells, and no dot segment of a request reaches it.
CapturesStayPut ==
    (asked.pc = "answered" /\ asked.answer.kind = "redirect") =>
        /\ \A part \in Host(asked.answer.url) : part.kind # "encoded"
        /\ DotSegments(asked.answer.url) = {}
=============================================================================
