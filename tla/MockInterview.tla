---------------------------- MODULE MockInterview ----------------------------
(***************************************************************************)
(* Mock interviews (mock_interview_routes.py over the templates and the    *)
(* rubric of mock_interview_domain.py).  A candidate creates a session     *)
(* under an idempotency key, answers its phases one by one, pauses,        *)
(* resumes or cancels; the answer to the last phase writes the report and  *)
(* the competency evidence in its own transaction.                         *)
(*                                                                         *)
(* Every request may reach the server several times, late and out of       *)
(* order.  A request is one transaction; the transactions of a candidate   *)
(* follow one another, for each locks the candidate's users row first      *)
(* (principal_transaction) and the session row FOR UPDATE after it.  An    *)
(* answer is its key; the score it gets is the rubric's.                   *)
(***************************************************************************)
EXTENDS Naturals, Sequences, FiniteSets

CONSTANTS
    Template,       \* templates: Template[f] is the sequence of phases of focus f
    CreateKey,      \* idempotency keys of create requests
    AnswerKey,      \* idempotency keys of answers
    Session,        \* sessions the database may hold
    RubricScore,    \* RubricScore[key, phase]: evaluate_response of that answer, in percent
    NoSession       \* no session, no key

ASSUME InterviewAssumption ==
    /\ \A f \in DOMAIN Template :
          /\ Len(Template[f]) \in Nat \ {0} /\ DOMAIN Template[f] = 1..Len(Template[f])
          /\ \A m, n \in DOMAIN Template[f] : Template[f][m] = Template[f][n] => m = n
    /\ NoSession \notin Session

VARIABLES
    interview,   \* mock_interview_sessions: focus, status, current phase, key of its first message
    answers,     \* the candidate's mock_interview_messages of each session
    report,      \* mock_interview_reports: the rubric evidence and the overall score
    evidenced    \* sessions with competency evidence

interviewVars == <<interview, answers, report, evidenced>>

NoInterview == [focus |-> "none", status |-> "none", phase |-> "none", key |-> NoSession]
NoReport == [rubric |-> <<>>, score |-> 0]

InterviewInit ==
    /\ interview = [s \in Session |-> NoInterview]
    /\ answers = [s \in Session |-> <<>>]
    /\ report = [s \in Session |-> NoReport]
    /\ evidenced = {}

-----------------------------------------------------------------------------
(* create_mock_interview, under the advisory lock of its key: a key used   *)
(* before returns its session, or 409 for another request.                 *)
CreateInterview(key, f, s) ==
    /\ ~\E o \in Session : interview[o].key = key
    /\ interview[s] = NoInterview
    /\ interview' = [interview EXCEPT ![s] = [focus |-> f, status |-> "IN_PROGRESS",
                                              phase |-> Template[f][1], key |-> key]]
    /\ UNCHANGED <<answers, report, evidenced>>

(* update_mock_interview_state.                                            *)
InterviewTransition(status, action) ==
    CASE action = "pause" /\ status = "IN_PROGRESS" -> "PAUSED"
      [] action = "resume" /\ status = "PAUSED" -> "IN_PROGRESS"
      [] action = "cancel" /\ status \in {"IN_PROGRESS", "PAUSED"} -> "CANCELLED"
      [] OTHER -> "invalid"

UpdateInterview(s, action) ==
    /\ InterviewTransition(interview[s].status, action) # "invalid"
    /\ interview' = [interview EXCEPT ![s].status = InterviewTransition(@, action)]
    /\ UNCHANGED <<answers, report, evidenced>>

-----------------------------------------------------------------------------
(* answer_mock_interview.                                                  *)

(* Mutant: a key is only looked up in the current phase.                *)
AnsweredInPhase(s, key) ==
    \E n \in DOMAIN answers[s] : answers[s][n].key = key /\ answers[s][n].phase = interview[s].phase
Answered(s, key) == \E n \in DOMAIN answers[s] : answers[s][n].key = key

PhaseIndex(s) == CHOOSE n \in DOMAIN Template[interview[s].focus] :
                    Template[interview[s].focus][n] = interview[s].phase

(* evaluate_response: the rubric's score of an answer to the current phase.*)
EvaluateResponse(s, key) == RubricScore[key, interview[s].phase]

(* build_report over the evidence of the stored answers                    *)
(* (_phase_evidence_from_messages): the mean of the phases' scores.        *)
TotalScore(rubric) ==
    LET Total[n \in 0..Len(rubric)] == IF n = 0 THEN 0 ELSE Total[n - 1] + rubric[n].score
    IN  Total[Len(rubric)]
BuildReport(rubric) == [rubric |-> rubric, score |-> TotalScore(rubric) \div Len(rubric)]

(* _complete_session: the report, which an earlier one would outlive, the  *)
(* status and the competency evidence.                                     *)
CompleteSession(s, given) ==
    /\ interview' = [interview EXCEPT ![s].phase = "COMPLETE", ![s].status = "COMPLETED"]
    /\ report' = [report EXCEPT ![s] = IF @ = NoReport THEN BuildReport(given) ELSE @]
    /\ evidenced' = evidenced \cup {s}

(* A repeated key only returns the session.  Otherwise the answer to the   *)
(* current phase is stored and the next phase follows, or the report.      *)
AnswerInterview(s, key) ==
    LET phases == Template[interview[s].focus]
        next == PhaseIndex(s) + 1
        given == Append(answers[s], [key |-> key, phase |-> interview[s].phase,
                                     score |-> EvaluateResponse(s, key)])
    IN
    /\ interview[s].status = "IN_PROGRESS" /\ ~Answered(s, key)
    /\ answers' = [answers EXCEPT ![s] = given]
    /\ IF next <= Len(phases)
       THEN /\ interview' = [interview EXCEPT ![s].phase = phases[next]]
            /\ UNCHANGED <<report, evidenced>>
       ELSE CompleteSession(s, given)

InterviewNext ==
    \/ \E s \in Session :
         \/ \E key \in CreateKey, f \in DOMAIN Template : CreateInterview(key, f, s)
         \/ \E a \in {"pause", "resume", "cancel"} : UpdateInterview(s, a)
         \/ \E key \in AnswerKey : AnswerInterview(s, key)

InterviewSpec == InterviewInit /\ [][InterviewNext]_interviewVars

-----------------------------------------------------------------------------
(* Correctness.                                                            *)

(* However requests are repeated, delayed and interleaved with pauses and  *)
(* cancellations, a session records each answer once and for consecutive   *)
(* phases from the first; it is completed exactly when every phase has its *)
(* answer, and only then has a report, of just those answers, and evidence *)
(* (answer_mock_interview, _complete_session).                             *)
ReportCoversInterview ==
    \A s \in Session :
        LET given == answers[s] IN
        /\ \A m, n \in DOMAIN given : given[m].key = given[n].key => m = n
        /\ interview[s] # NoInterview =>
              LET phases == Template[interview[s].focus]
                  complete == Len(given) = Len(phases)
              IN  /\ Len(given) <= Len(phases)
                  /\ \A n \in DOMAIN given : given[n].phase = phases[n]
                  /\ (interview[s].status = "COMPLETED") = complete
                  /\ (s \in evidenced) = complete
                  /\ complete => report[s].rubric = given
                  /\ ~complete => report[s] = NoReport /\ interview[s].phase = phases[Len(given) + 1]
=============================================================================
