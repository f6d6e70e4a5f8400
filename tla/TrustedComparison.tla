------------------------- MODULE TrustedComparison -------------------------
(***************************************************************************)
(* How an execution gets its verdict.  The API sends the sandbox the tests *)
(* of a question without their answers (execution_api.py), the runner      *)
(* executes them one after the other (runner.py of python-runner and       *)
(* sql-runner), and the controller compares what the runner printed with   *)
(* the answers it loads from the database (execution_results.py) and       *)
(* grades a submission (execution_submission.py).  The controller does not *)
(* trust the runner, so beside an honest runner there is one that prints   *)
(* anything.                                                               *)
(***************************************************************************)
EXTENDS Naturals, SequencesExt

CONSTANTS
    TestId,      \* test identifiers; a question has its tests in their order
    Alien,       \* an identifier no question has
    Item,        \* elements of an answer, ordered as their JSON
    MaxItems,    \* bound on the elements of an answer
    Columns,     \* column lists of SQL answers; Python answers have <<>>
    Question,    \* the published question versions, with language and tests
    MaxTests,    \* MAX_TESTS of the runner of each language
    MaxResultTests,  \* MAX_RESULT_TESTS of the controller
    MaxReport    \* bound on the tests a dishonest runner reports

VARIABLES
    language,   \* of the question
    question,   \* its tests
    kind,       \* ExecutionType
    request,    \* the tests of the sandbox's request.json
    log,        \* the runner's result line
    honest,     \* was it run_request that produced it?
    stage,      \* how far the execution is
    outcome     \* what is stored for the candidate

cvars == <<language, question, kind, request, log, honest, stage, outcome>>

Visibility == {"public", "hidden", "edge"}
Answer(l) == [columns : IF l = "sql" THEN Columns ELSE {<<>>}, rows : BoundedSeq(Item, MaxItems)]
NoAnswer == [columns |-> <<"null">>, rows |-> <<>>]
\* An expected_output that ends in "Error" names an exception.
KeyError == [columns |-> <<"KeyError">>, rows |-> <<>>]
\* Comparison strategies: two of those the controller supports, a tolerance that
\* is not a number, and any other text.
Strategy == {"exact", "unordered", "bad_tolerance", "unsupported"}
NoTest == [visibility |-> "none", strategy |-> "none", expected |-> NoAnswer]
TestsOf(q) == {t \in TestId : q[t] # NoTest}

\* What validate_package lets through: there is a test, and ids are unique. It
\* bounds neither the number of tests nor the strategies; "property" tests are
\* treated as "edge" tests are.
Validated(q) ==
    /\ q.language \in {"python", "sql"}
    /\ q.tests \in [TestId -> {NoTest} \cup [visibility : Visibility, strategy : Strategy,
                                            expected : Answer(q.language) \cup {KeyError}]]
    /\ TestsOf(q.tests) # {}

ASSUME ComparisonAssumption ==
    /\ TestId \subseteq Nat /\ Item \subseteq Nat /\ Alien \in Nat \ TestId
    /\ {MaxItems, MaxResultTests, MaxReport} \subseteq Nat
    /\ MaxTests \in [{"python", "sql"} -> Nat]
    /\ \A q \in Question : Validated(q) /\ IsFiniteSet(TestsOf(q.tests))

\* fresh: the line names this execution and attempt; long: the log is larger
\* than MAX_RESULT_LOG_BYTES.
NoLog == [status |-> "RUNNING", fresh |-> TRUE, long |-> FALSE, tests |-> <<>>]
NoOutcome == [status |-> "NONE", public |-> {}, hidden_total |-> 0, hidden_passed |-> 0,
              passed |-> 0, total |-> 0, grade |-> "none"]
Refused == [NoOutcome EXCEPT !.status = "REFUSED"]

ComparisonInit ==
    /\ \E q \in Question : language = q.language /\ question = q.tests
    /\ kind \in {"RUN", "SUBMIT"}
    /\ request = <<>>
    /\ log = NoLog
    /\ honest = TRUE
    /\ stage = "draft"
    /\ outcome = NoOutcome

-----------------------------------------------------------------------------
(* The API.                                                                *)

\* Whatever is not public is hidden.
Sanitized(v) == IF v = "public" THEN "public" ELSE "hidden"

InOrder(T) == CHOOSE s \in [1..Cardinality(T) -> T] : \A i, j \in DOMAIN s : i < j => s[i] < s[j]

CandidateTests(q, public_only) ==
    LET chosen == InOrder({t \in TestsOf(q) : public_only => q[t].visibility = "public"}) IN
    [i \in 1..Len(chosen) |->
        [id |-> chosen[i], visibility |-> Sanitized(q[chosen[i]].visibility)]]

\* "Question has no executable tests." otherwise.
QueueExecution ==
    /\ stage = "draft"
    /\ CandidateTests(question, kind = "RUN") # <<>>
    /\ request' = CandidateTests(question, kind = "RUN")
    /\ stage' = "running"
    /\ UNCHANGED <<language, question, kind, log, honest, outcome>>

-----------------------------------------------------------------------------
(* The runner: parse_request, then run_request, test after test, until one *)
(* times out.                                                              *)

InputAccepted == Len(request) <= MaxTests[language]

\* parse_request refuses: too many tests, or a request, source or fixture that
\* is too large or ill-formed. The attempt is not known yet and printed as 0.
RefuseInput ==
    /\ stage = "running" /\ log = NoLog
    /\ log' = [NoLog EXCEPT !.status = "FAILED", !.fresh = FALSE]
    /\ stage' = "logged"
    /\ UNCHANGED <<language, question, kind, request, honest, outcome>>

Report(ok, actual, error) ==
    LET test == request[Len(log.tests) + 1] IN
    [id |-> test.id, visibility |-> test.visibility, ok |-> ok, actual |-> actual, error |-> error]

Remaining == stage = "running" /\ InputAccepted /\ Len(log.tests) < Len(request)

\* The candidate's program returns an answer, raises, or exceeds the runner's
\* limits with what it prints or returns.
ExecuteTest ==
    /\ Remaining
    /\ \E report \in {Report(TRUE, a, "none") : a \in Answer(language)}
                     \cup {Report(FALSE, NoAnswer, e) : e \in {"KeyError", "limit"}} :
          log' = [log EXCEPT !.tests = Append(@, report)]
    /\ UNCHANGED <<language, question, kind, request, honest, stage, outcome>>

\* The answers and the output of tests that ended may make the log too long.
Printed(l) ==
    {[l EXCEPT !.long = b] : b \in {FALSE, \E i \in 1..Len(l.tests) : l.tests[i].error # "timeout"}}

\* The test is stopped and reported, or the deadline passed before it started.
TestTimesOut ==
    /\ Remaining
    /\ log' \in Printed([log EXCEPT !.status = "TIMEOUT"])
                 \cup Printed([log EXCEPT !.status = "TIMEOUT",
                                         !.tests = Append(@, Report(FALSE, NoAnswer, "timeout"))])
    /\ stage' = "logged"
    /\ UNCHANGED <<language, question, kind, request, honest, outcome>>

PrintResult ==
    /\ stage = "running" /\ InputAccepted /\ ~Remaining
    /\ log' \in Printed([log EXCEPT !.status = "COMPLETED"])
    /\ stage' = "logged"
    /\ UNCHANGED <<language, question, kind, request, honest, outcome>>

\* main's handler: run_request failed, whatever it had executed.
PrintFailure ==
    /\ stage = "running" /\ InputAccepted
    /\ log' = [NoLog EXCEPT !.status = "FAILED"]
    /\ stage' = "logged"
    /\ UNCHANGED <<language, question, kind, request, honest, outcome>>

\* Any other result line with correct answers in it: tests left out, repeated,
\* unknown or relabelled, a line of another attempt or one that is too long.
Misreport ==
    /\ stage = "running" /\ log = NoLog /\ MaxReport > 0
    /\ \E status \in {"COMPLETED", "FAILED", "TIMEOUT"}, fresh \in BOOLEAN, long \in BOOLEAN :
       \E tests \in BoundedSeq([id : TestId \cup {Alien}, visibility : {"public", "hidden"},
                                ok : {TRUE}, error : {"none"},
                                actual : {question[t].expected : t \in TestsOf(question)}],
                               MaxReport) :
          /\ ~fresh \/ long => tests = <<>>
          /\ log' = [status |-> status, fresh |-> fresh, long |-> long, tests |-> tests]
    /\ honest' = FALSE
    /\ stage' = "logged"
    /\ UNCHANGED <<language, question, kind, request, outcome>>

-----------------------------------------------------------------------------
(* The controller.                                                         *)

\* Mutant: an identifier may come twice.
ParsesRepeated(l) == l.fresh /\ ~l.long /\ Len(l.tests) <= MaxResultTests

\* parse_runner_result: the line is of this execution and attempt and neither
\* too long nor of too many tests, and its identifiers are unique.
Parses(l) ==
    /\ l.fresh /\ ~l.long
    /\ Len(l.tests) <= MaxResultTests
    /\ \A i, j \in 1..Len(l.tests) : l.tests[i].id = l.tests[j].id => i = j

\* "unordered" is another comparison for a SQL question.
ComparisonPolicy(strategy) ==
    IF language = "sql" /\ strategy = "unordered" THEN "sql_unordered" ELSE strategy

\* load_expected_tests raises for an empty or too large set of tests and
\* _comparison_policy for a strategy it does not support.
Loads(q) ==
    /\ Cardinality(TestsOf(q)) \in 1..MaxResultTests
    /\ \A t \in TestsOf(q) : q[t].strategy # "unsupported"

\* Mutant: only public and hidden are known.
LoadRawTests(q) ==
    [t \in TestsOf(q) |-> [q[t] EXCEPT !.strategy = ComparisonPolicy(@)]]

LoadExpectedTests(q) ==
    [t \in TestsOf(q) |-> [q[t] EXCEPT !.visibility = Sanitized(@), !.strategy = ComparisonPolicy(@)]]

Sorted(s) ==
    CHOOSE u \in BoundedSeq(Item, MaxItems) :
        /\ ToBag(u) = ToBag(s)
        /\ \A i, j \in DOMAIN u : i < j => u[i] <= u[j]

\* _compare_value and _compare_sql_result; sql_ordered, the default for SQL, is
\* "exact" on results that have columns and rows. Without regard to order
\* both must be lists, whose columns are <<>>, or results with the same columns.
CompareValue(actual, expected, strategy) ==
    IF strategy = "exact" THEN actual = expected
    ELSE /\ actual.columns = expected.columns
         /\ Sorted(actual.rows) = Sorted(expected.rows)

\* _compare_value raises: it needs a tolerance that is none.
Raises(actual, expected) ==
    actual.ok /\ expected.expected # KeyError /\ expected.strategy = "bad_tolerance"

TestPassed(actual, expected) ==
    IF expected.expected = KeyError
      THEN actual.error = "KeyError"
      ELSE actual.ok /\ CompareValue(actual.actual, expected.expected, expected.strategy)

\* The projection's counts; label is the visibility of each result.
Projected(l, expected, label) ==
    LET of(v) == {i \in 1..Len(l.tests) : label[i] = v}
        passed(v) == Cardinality({i \in of(v) : TestPassed(l.tests[i], expected[l.tests[i].id])})
        hidden_total == Cardinality({t \in DOMAIN expected : expected[t].visibility = "hidden"})
    IN  [NoOutcome EXCEPT
            !.status = l.status,
            !.public = {l.tests[i].id : i \in of("public")},
            !.hidden_total = hidden_total,
            !.hidden_passed = passed("hidden"),
            !.passed = passed("public") + passed("hidden"),
            !.total = Cardinality(of("public")) + hidden_total]

\* Mutant: the runner's label decides what the candidate sees.
CompareRelabelled(l, expected) ==
    LET returned == {r.id : r \in ToSet(l.tests)} IN
    IF \/ ~(returned \subseteq DOMAIN expected)
       \/ l.status = "COMPLETED" /\ returned # DOMAIN expected
       \/ \E r \in ToSet(l.tests) : Raises(r, expected[r.id])
      THEN Refused
      ELSE Projected(l, expected, [i \in 1..Len(l.tests) |-> l.tests[i].visibility])

\* trusted_compare: refused for an unknown test, for a test that is missing in
\* a completed result, for a changed visibility and for an unusable tolerance.
TrustedCompare(l, expected) ==
    LET returned == {r.id : r \in ToSet(l.tests)} IN
    IF \/ ~(returned \subseteq DOMAIN expected)
       \/ l.status = "COMPLETED" /\ returned # DOMAIN expected
       \/ \E r \in ToSet(l.tests) : \/ r.visibility # expected[r.id].visibility
                                   \/ Raises(r, expected[r.id])
      THEN Refused
      ELSE Projected(l, expected,
                     [i \in 1..Len(l.tests) |-> expected[l.tests[i].id].visibility])

\* _legacy_status, stored by finalize_submission for a submission.
LegacyStatus(p) ==
    IF p.status # "COMPLETED" THEN "error"
    ELSE IF p.total > 0 /\ p.passed = p.total THEN "passed" ELSE "failed"

\* _persist_observation: a refused result goes to _defer_infrastructure_retry.
PersistObservation ==
    LET projection == IF Parses(log) /\ Loads(question)
                        THEN TrustedCompare(log, LoadExpectedTests(question)) ELSE Refused
    IN  /\ stage = "logged"
        /\ outcome' = IF projection # Refused /\ kind = "SUBMIT"
                        THEN [projection EXCEPT !.grade = LegacyStatus(projection)]
                        ELSE projection
        /\ stage' = "over"
        /\ UNCHANGED <<language, question, kind, request, log, honest>>

-----------------------------------------------------------------------------
ComparisonNext ==
    \/ QueueExecution \/ RefuseInput \/ ExecuteTest \/ TestTimesOut \/ PrintResult \/ PrintFailure
    \/ Misreport \/ PersistObservation

ComparisonSpec == ComparisonInit /\ [][ComparisonNext]_cvars

-----------------------------------------------------------------------------
(* Properties.                                                             *)

\* What it means to answer a test: the exception it asks for, or the expected
\* answer up to the order of rows where that does not matter.
Answers(r, t) ==
    LET want == question[t] IN
    /\ r.id = t
    /\ \/ want.expected = KeyError /\ r.error = "KeyError"
       \/ /\ want.expected # KeyError /\ r.ok
          /\ \/ r.actual = want.expected
             \/ /\ want.strategy = "unordered"
                /\ r.actual.columns = want.expected.columns
                /\ ToBag(r.actual.rows) = ToBag(want.expected.rows)

Answered == {t \in TestsOf(question) : \E i \in 1..Len(log.tests) : Answers(log.tests[i], t)}

\* Whatever the runner prints, the stored count is the number of the question's
\* tests that were answered, and a submission passes exactly when its execution
\* completed and every test of the question was.
VerdictIsEarned ==
    outcome.status \notin {"NONE", "REFUSED"} =>
        /\ outcome.passed = Cardinality(Answered)
        /\ outcome.grade = "passed" <=>
              kind = "SUBMIT" /\ log.status = "COMPLETED" /\ Answered = TestsOf(question)

\* "Candidate result may expose public expected/actual details and only hidden
\* aggregate counts", whatever label the runner gives a test; and a run does
\* not even take a hidden test into the sandbox.
HiddenStaysHidden ==
    /\ \A t \in outcome.public : question[t].visibility = "public"
    /\ kind = "RUN" => \A i \in 1..Len(request) : question[request[i].id].visibility = "public"

\* What the code refuses an honest result for: the runner did not take its
\* request, the log is longer than the controller reads, or the question has
\* too many tests or a comparison that cannot be made.
Unusable ==
    \/ ~log.fresh \/ log.long
    \/ ~Loads(question)
    \/ \E t \in TestsOf(question) : question[t].strategy = "bad_tolerance"

\* An honest runner's result of a submission is refused for these reasons only:
\* the identifiers and visibilities the API sent (_candidate_tests), the runner
\* repeated and the controller loads (load_expected_tests) agree, for a result
\* that was cut short by a timeout or a failure as well.
HonestSubmitCounts == honest /\ kind = "SUBMIT" /\ outcome = Refused => Unusable

\* "Run executes public tests through the existing durable execution API": the
\* honest result of a run is refused for these reasons only, too.
HonestRunCounts == honest /\ kind = "RUN" /\ outcome = Refused => Unusable
=============================================================================
