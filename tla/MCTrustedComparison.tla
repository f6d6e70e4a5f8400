------------------------ MODULE MCTrustedComparison ------------------------
(* Small instances of TrustedComparison for TLC.                           *)
EXTENDS TrustedComparison

ColumnLists == {<<"id">>, <<"name">>}

RunnerLimits == [python |-> 2, sql |-> 1]

\* Every question with one test, in either language.
OneTest ==
    UNION {{[language |-> l, tests |-> [t \in TestId |-> IF t = 1 THEN test ELSE NoTest]] :
               test \in [visibility : Visibility, strategy : {"exact", "unordered"},
                         expected : Answer(l) \cup {KeyError}]} :
           l \in {"python", "sql"}}

\* Two tests of any visibility: one asks for an exception, one for no rows.
Simple(v) == {[visibility |-> v, strategy |-> "exact", expected |-> a] :
                 a \in {KeyError, [columns |-> <<>>, rows |-> <<>>]}}
TwoTests == {[language |-> "python", tests |-> q] :
                q \in {[t \in TestId |-> IF t \in {1, 2} THEN f[t] ELSE NoTest] :
                          f \in [{1, 2} -> UNION {Simple(v) : v \in Visibility}]}}

\* Tests with a comparison that cannot be made, one test more than a runner
\* takes, and one more than the controller loads.
OfTests(l, T, strategy) ==
    [language |-> l,
     tests |-> [t \in TestId |-> IF t \in T THEN [visibility |-> "edge", strategy |-> strategy,
                                                 expected |-> [columns |-> <<>>, rows |-> <<1>>]]
                                           ELSE NoTest]]
Unfit == {OfTests("python", {1}, "bad_tolerance"), OfTests("python", {1}, "unsupported"),
          OfTests("python", TestId, "exact")}
         \cup {[OfTests("sql", {1, 2}, "exact") EXCEPT
                   !.tests = [t \in TestId |-> IF t = 3 THEN NoTest
                                              ELSE [@[t] EXCEPT !.expected.columns = <<"id">>]]]}

SmallQuestions == OneTest \cup TwoTests \cup Unfit
=============================================================================
