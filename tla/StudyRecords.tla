---------------------------- MODULE StudyRecords ----------------------------
(***************************************************************************)
(* What a candidate's study leaves behind outside coding practice: pull    *)
(* request reviews (pr_review_routes.py, pr_review_domain.py), tutor       *)
(* sessions (tutor_routes.py, tutor_chat_routes.py, tutor_provider.py),    *)
(* progress in the knowledge bank (knowledge_progress_routes.py) and       *)
(* bookmarks and notes (question_engagement.py).                           *)
(*                                                                         *)
(* Every request is one transaction that starts by locking the candidate's *)
(* users row, so requests take effect one after another, the provider call *)
(* of a tutor message included; but clients repeat them and they arrive    *)
(* late.  CURRENT_TIMESTAMP is the time a transaction began to wait for    *)
(* that lock, so created_at need not follow the order of the commits.      *)
(***************************************************************************)
EXTENDS Integers, FiniteSets, SequencesExt

CONSTANTS
    DiffLine,       \* lines of the challenge's diff: [file, line]
    Finding,        \* the findings graded, in order: [file, line, severity]
    Severity,       \* severities of comments
    StudySession,   \* ids of review and tutor sessions
    MessageKey,     \* idempotency keys of tutor messages
    EventKey,       \* idempotency keys of other tutor events; a message's are <<key, role>>
    Reply,          \* replies the provider or its fallback may give
    Problem,        \* knowledge-bank problems
    ActivityKey,    \* idempotency keys of activity events
    Note,           \* bodies of notes
    NoStudy,        \* nothing
    MaxComments,    \* bound: comments of a review
    MaxActivity     \* bound: recorded activity events

ASSUME StudyAssumption ==
    /\ {MaxComments, MaxActivity} \subseteq Nat
    /\ NoStudy \notin [type : {"event", "message.user", "message.assistant"},
                      text : MessageKey \cup Reply \cup {NoStudy}]
    /\ \A d \in DiffLine : d.line \in Nat
    /\ Len(Finding) \in Nat /\ DOMAIN Finding = 1..Len(Finding)
    /\ \A n \in DOMAIN Finding : Finding[n].line \in Nat

VARIABLES
    prReview,     \* pr_review_sessions: status, verdict and grade
    comments,   \* pr_review_comments by created_at
    tutor,      \* tutor_sessions.status
    said,       \* tutor_events by key
    activity,   \* knowledge_activity_events, in the order recorded
    progress,   \* knowledge_candidate_problem_state
    engaged     \* candidate_question_bookmarks and _notes

studyVars == <<prReview, comments, tutor, said, activity, progress, engaged>>

prVars == <<prReview, comments>>
tutorVars == <<tutor, said>>
progressVars == <<activity, progress>>

NoPrReview == [status |-> "absent", verdict |-> "none", grade |-> NoStudy]
NoProgress == [status |-> "none", views |-> 0, attempts |-> 0, solved |-> 0, failed |-> 0,
               bookmarked |-> FALSE]
MessageEvents == MessageKey \X {"user", "assistant"}

StudyInit ==
    /\ prReview = [s \in StudySession |-> NoPrReview]
    /\ comments = [s \in StudySession |-> <<>>]
    /\ tutor = [s \in StudySession |-> "absent"]
    /\ said = [s \in StudySession |-> [k \in EventKey \cup MessageEvents |-> NoStudy]]
    /\ activity = <<>>
    /\ progress = [p \in Problem |-> NoProgress]
    /\ engaged = [bookmarked |-> FALSE, note |-> NoStudy]

-----------------------------------------------------------------------------
(* Grading a review.                                                       *)

Distance(c, f) == IF c.line >= f.line THEN c.line - f.line ELSE f.line - c.line

(* The findings of the one challenge are in three files.                   *)
ASSUME FindingsApart ==
    \A m, n \in DOMAIN Finding :
        m # n /\ Finding[m].file = Finding[n].file => Distance(Finding[m], Finding[n]) > 2

(* _matching_finding: the nearest finding of the file within a line that   *)
(* no earlier comment took, the first of equally near ones; 0 if none.     *)
MatchingFinding(c, available) ==
    LET near == {n \in available : Finding[n].file = c.file /\ Distance(c, Finding[n]) <= 1}
        nearest == {n \in near : \A m \in near : Distance(c, Finding[n]) <= Distance(c, Finding[m])}
    IN  IF near = {} THEN 0 ELSE Min(nearest)

GradeComment(grade, c) ==
    LET n == MatchingFinding(c, DOMAIN Finding \ grade.caught)
    IN  IF n = 0 THEN [grade EXCEPT !.false = @ + 1]
        ELSE [grade EXCEPT !.caught = @ \cup {n},
                           !.rated = @ + (IF c.severity = Finding[n].severity THEN 1 ELSE 0)]

(* grade_review; the score is a function of this and of the messages.      *)
GradeReview(given, verdict) ==
    FoldLeft(GradeComment,
             [caught |-> {}, false |-> 0, rated |-> 0, right |-> verdict = "request_changes"], given)

-----------------------------------------------------------------------------
(* Review sessions.                                                        *)

CreateReview(s) ==
    /\ prReview[s] = NoPrReview
    /\ prReview' = [prReview EXCEPT ![s].status = "active"]
    /\ UNCHANGED <<comments, tutorVars, progressVars, engaged>>

ReviewActive(s) == prReview[s].status = "active"

(* A comment on a line of the diff (review_location_is_valid).             *)
CreateComment(s, c, n) ==
    /\ ReviewActive(s)
    /\ [file |-> c.file, line |-> c.line] \in DiffLine
    /\ Len(comments[s]) < MaxComments /\ n \in 1..Len(comments[s]) + 1
    /\ comments' = [comments EXCEPT ![s] = InsertAt(@, n, c)]
    /\ UNCHANGED <<prReview, tutorVars, progressVars, engaged>>

DeleteComment(s, n) ==
    /\ ReviewActive(s)
    /\ n \in DOMAIN comments[s]
    /\ comments' = [comments EXCEPT ![s] = RemoveAt(@, n)]
    /\ UNCHANGED <<prReview, tutorVars, progressVars, engaged>>

SubmitReview(s, verdict) ==
    /\ ReviewActive(s)
    /\ comments[s] # <<>>
    /\ prReview' = [prReview EXCEPT ![s] = [status |-> "submitted", verdict |-> verdict,
                                        grade |-> GradeReview(comments[s], verdict)]]
    /\ UNCHANGED <<comments, tutorVars, progressVars, engaged>>

-----------------------------------------------------------------------------
(* Tutor sessions.                                                         *)

CreateTutor(s) ==
    /\ tutor[s] = "absent"
    /\ tutor' = [tutor EXCEPT ![s] = "active"]
    /\ UNCHANGED <<said, prVars, progressVars, engaged>>

(* Ending it again returns the ended session.                              *)
EndTutor(s) ==
    /\ tutor[s] = "active"
    /\ tutor' = [tutor EXCEPT ![s] = "ended"]
    /\ UNCHANGED <<said, prVars, progressVars, engaged>>

(* INSERT ... ON CONFLICT: the event stored first keeps its key.           *)
InsertEvent(stored, key, event) ==
    IF stored[key] = NoStudy THEN [stored EXCEPT ![key] = event] ELSE stored

AppendTutorEvent(s, key) ==
    /\ tutor[s] = "active"
    /\ said' = [said EXCEPT ![s] = InsertEvent(@, key, [type |-> "event", text |-> NoStudy])]
    /\ UNCHANGED <<tutor, prVars, progressVars, engaged>>

(* _existing_response: a message answered before gets the stored answer.   *)
ExistingResponse(s, m) ==
    /\ said[s][<<m, "assistant">>] # NoStudy
    /\ said[s][<<m, "assistant">>].type = "message.assistant"

(* send_tutor_message: the session's context, the provider's reply or the  *)
(* fallback's, both events in one transaction.                             *)
SendTutorMessage(s, m, reply) ==
    /\ ~ExistingResponse(s, m)
    /\ tutor[s] = "active"
    /\ LET asked == InsertEvent(said[s], <<m, "user">>, [type |-> "message.user", text |-> m])
       IN  said' = [said EXCEPT ![s] =
                      InsertEvent(asked, <<m, "assistant">>, [type |-> "message.assistant", text |-> reply])]
    /\ UNCHANGED <<tutor, prVars, progressVars, engaged>>

-----------------------------------------------------------------------------
(* Progress in the knowledge bank.                                         *)

Attempting == {"session_started", "draft_saved", "public_tests_run", "submission_completed",
               "problem_failed"}
ActivityType == Attempting \cup {"problem_viewed", "problem_solved", "session_time_recorded"}

(* The types ActivityInput offers that a candidate's own request may       *)
(* insert (policy knowledge_activity_owner_insert): the outcomes of runs   *)
(* and submissions need rigor.trusted_evidence, which nothing turns on.    *)
InteractionEvents == ActivityType \ {"public_tests_run", "submission_completed",
                                     "problem_solved", "problem_failed"}

(* _ensure_state.                                                          *)
EnsureState(p) ==
    IF progress[p] = NoProgress THEN [NoProgress EXCEPT !.status = "viewed"] ELSE progress[p]

GetProgress(p) ==
    /\ progress' = [progress EXCEPT ![p] = EnsureState(p)]
    /\ UNCHANGED <<activity, prVars, tutorVars, engaged>>

(* patch_candidate_problem_state appends an event without a key.           *)
PatchProgress(p, bookmarked) ==
    /\ Len(activity) < MaxActivity
    /\ progress' = [progress EXCEPT ![p] = [EnsureState(p) EXCEPT !.bookmarked = bookmarked]]
    /\ activity' = Append(activity, [problem |-> p, type |-> "bookmark_changed", key |-> NoStudy])
    /\ UNCHANGED <<prVars, tutorVars, engaged>>

(* Mutant: a repeated key is appended again.                            *)
AppendsAlways(key) == TRUE

(* _append_event: a key the candidate used before inserts nothing; events  *)
(* without a key always do.                                                *)
AppendsActivity(key) ==
    key = NoStudy \/ \A n \in DOMAIN activity : activity[n].key # key

(* _apply_event_projection.                                                *)
ApplyEvent(state, type) ==
    [state EXCEPT
        !.status = CASE type = "problem_solved" -> "solved"
                     [] type # "problem_solved" /\ @ = "solved" -> "solved"
                     [] type = "problem_failed" /\ @ # "solved" -> "failed"
                     [] type \in Attempting \ {"problem_failed"} /\ @ # "solved" -> "attempted"
                     [] OTHER -> @,
        !.views = IF type = "problem_viewed" THEN @ + 1 ELSE @,
        !.attempts = IF type \in {"public_tests_run", "submission_completed"} THEN @ + 1 ELSE @,
        !.solved = IF type = "problem_solved" THEN @ + 1 ELSE @,
        !.failed = IF type = "problem_failed" THEN @ + 1 ELSE @]

(* An event the policy refuses, its key used before or not, fails the      *)
(* request, which leaves nothing behind.                                   *)
RecordActivity(p, type, key) ==
    /\ type \in InteractionEvents
    /\ Len(activity) < MaxActivity
    /\ LET event == [problem |-> p, type |-> type, key |-> key]
       IN  IF AppendsActivity(key)
           THEN /\ activity' = Append(activity, event)
                /\ progress' = [progress EXCEPT ![p] = ApplyEvent(EnsureState(p), type)]
           ELSE /\ activity' = activity
                /\ progress' = [progress EXCEPT ![p] = EnsureState(p)]
    /\ UNCHANGED <<prVars, tutorVars, engaged>>

-----------------------------------------------------------------------------
(* question_engagement.                                                    *)

Bookmark(on) ==
    /\ engaged' = [engaged EXCEPT !.bookmarked = on]
    /\ UNCHANGED <<prVars, tutorVars, progressVars>>

(* create, update and delete_question_note, of one note.                   *)
WriteNote(body) ==
    /\ engaged' = [engaged EXCEPT !.note = body]
    /\ UNCHANGED <<prVars, tutorVars, progressVars>>

DeleteNote ==
    /\ engaged.note # NoStudy
    /\ engaged' = [engaged EXCEPT !.note = NoStudy]
    /\ UNCHANGED <<prVars, tutorVars, progressVars>>

Comment == [file : {d.file : d \in DiffLine}, line : {d.line : d \in DiffLine}, severity : Severity]

ReviewPractice ==
    \E s \in StudySession :
        \/ CreateReview(s)
        \/ \E c \in Comment, n \in 1..MaxComments : CreateComment(s, c, n)
        \/ \E n \in 1..MaxComments : DeleteComment(s, n)
        \/ \E verdict \in {"approve", "request_changes"} : SubmitReview(s, verdict)

Tutoring ==
    \E s \in StudySession :
        \/ CreateTutor(s) \/ EndTutor(s)
        \/ \E key \in EventKey : AppendTutorEvent(s, key)
        \/ \E m \in MessageKey, reply \in Reply : SendTutorMessage(s, m, reply)

Progressing ==
    \E p \in Problem :
        \/ GetProgress(p)
        \/ \E on \in BOOLEAN : PatchProgress(p, on)
        \/ \E type \in ActivityType, key \in ActivityKey \cup {NoStudy} : RecordActivity(p, type, key)

Engaging ==
    \/ \E on \in BOOLEAN : Bookmark(on)
    \/ \E body \in Note : WriteNote(body)
    \/ DeleteNote

StudySpec ==
    StudyInit /\ [][ReviewPractice \/ Tutoring \/ Progressing \/ Engaging]_studyVars

-----------------------------------------------------------------------------
(* Correctness.                                                            *)

RecordedEvents(p, types) == Cardinality({n \in DOMAIN activity : activity[n].problem = p /\ activity[n].type \in types})

(* A problem's progress is what its recorded events say and no retry       *)
(* counts twice: it was viewed as often as was recorded, and it is         *)
(* attempted once a session or a draft of it was (_append_event,           *)
(* _apply_event_projection).  No request of a candidate manufactures the   *)
(* outcome of a run or a submission, in whatever order and however often   *)
(* requests come (knowledge_activity_owner_insert).                        *)
(* A submitted review's grade is that of the comments it still has, and    *)
(* catches every finding some comment is within a line of, in whatever     *)
(* order they are read (submit_review_session, grade_review).  A tutor's   *)
(* stored answer has its question beside it (send_tutor_message).          *)
StudyRecordsAgree ==
    /\ \A p \in Problem :
          /\ progress[p].views = RecordedEvents(p, {"problem_viewed"})
          /\ progress[p].status = "attempted" <=> RecordedEvents(p, {"session_started", "draft_saved"}) > 0
          /\ progress[p].status \notin {"solved", "failed"}
          /\ progress[p].attempts = 0 /\ progress[p].solved = 0 /\ progress[p].failed = 0
    /\ \A m, n \in DOMAIN activity :
          activity[m].key = activity[n].key /\ activity[m].key # NoStudy => m = n
    /\ \A s \in StudySession : prReview[s].status = "submitted" =>
          LET given == comments[s] IN
          /\ prReview[s].grade = GradeReview(given, prReview[s].verdict)
          /\ prReview[s].grade.caught =
                {n \in DOMAIN Finding : \E i \in DOMAIN given :
                    given[i].file = Finding[n].file /\ Distance(given[i], Finding[n]) <= 1}
    /\ \A s \in StudySession, m \in MessageKey :
          ExistingResponse(s, m) => said[s][<<m, "user">>] # NoStudy
=============================================================================
