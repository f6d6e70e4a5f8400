---------------------- MODULE TrustedComparisonProofs ----------------------
(***************************************************************************)
(* Proofs about TrustedComparison: what is sent, what is accepted and how  *)
(* it is counted, for every set of questions, answers of any length and    *)
(* any line a runner prints.                                               *)
(***************************************************************************)
EXTENDS TrustedComparison, FiniteSetTheorems, TLAPS

-----------------------------------------------------------------------------
(* Sorting.                                                                *)

\* A finite set that R orders can be listed in that order: a member goes to the
\* place that is the number of members up to it.
LEMMA Listed ==
    ASSUME NEW S, IsFiniteSet(S), NEW R,
           \A a, b, c \in S : <<a, b>> \in R /\ <<b, c>> \in R => <<a, c>> \in R,
           \A a \in S : <<a, a>> \notin R,
           \A a, b \in S : a # b => <<a, b>> \in R \/ <<b, a>> \in R
    PROVE  \E f \in Bijection(1..Cardinality(S), S) :
              \A i, j \in 1..Cardinality(S) : i < j => <<f[i], f[j]>> \in R
  <1> DEFINE upto(a) == {u \in S : u = a \/ <<u, a>> \in R}
             place == [a \in S |-> Cardinality(upto(a))]
             size == Cardinality(S)
             f == [i \in 1..size |-> CHOOSE a \in S : place[a] = i]
  <1>1. size \in Nat /\ IsFiniteSet(1..size) /\ Cardinality(1..size) = size
    BY FS_CardinalityType, FS_Interval
  <1>2. ASSUME NEW a \in S
        PROVE  IsFiniteSet(upto(a)) /\ Cardinality(upto(a)) \in 1..size
    <2>1. upto(a) \in SUBSET S /\ a \in upto(a)
      OBVIOUS
    <2>2. IsFiniteSet(upto(a)) /\ Cardinality(upto(a)) <= size
      BY <2>1, FS_Subset
    <2>3. Cardinality(upto(a)) \in Nat /\ Cardinality(upto(a)) # 0
      BY <2>1, <2>2, FS_CardinalityType, FS_EmptySet
    <2> QED
      BY <1>1, <2>2, <2>3
  <1>3. ASSUME NEW a \in S, NEW b \in S, <<a, b>> \in R
        PROVE  place[a] < place[b]
    <2>1. upto(a) \in SUBSET upto(b) /\ b \in upto(b) /\ b \notin upto(a)
      BY <1>3
    <2>2. Cardinality(upto(a)) <= Cardinality(upto(b)) /\ Cardinality(upto(a)) # Cardinality(upto(b))
      BY <1>2, <2>1, FS_Subset
    <2> QED
      BY <1>2, <2>2
  <1>4. place \in [S -> 1..size]
    BY <1>2
  <1> HIDE DEF upto, place, size
  <1>5. ASSUME NEW a \in S, NEW b \in S, place[a] = place[b]
        PROVE  a = b
    <2>1. place[a] \in 1..size /\ place[b] \in 1..size
      BY <1>4
    <2>2. ~(place[a] < place[b]) /\ ~(place[b] < place[a])
      BY <1>1, <1>5, <2>1
    <2> QED
      BY <1>3, <2>2
  <1>6. \A i \in 1..size : \E a \in S : place[a] = i
    <2>1. place \in Injection(S, 1..size)
      BY <1>4, <1>5 DEF Injection, IsInjective
    <2>2. place \in Surjection(S, 1..size)
      BY <1>1, <2>1, FS_Injection DEF size
    <2> QED
      BY <2>2 DEF Surjection
  <1>7. f \in [1..size -> S] /\ \A i \in 1..size : place[f[i]] = i
    BY <1>6
  <1> HIDE DEF f
  <1>8. f \in Bijection(1..size, S)
    <2>1. IsInjective(f)
      BY <1>7 DEF IsInjective
    <2>2. \A a \in S : \E i \in 1..size : f[i] = a
      BY <1>4, <1>5, <1>7
    <2> QED
      BY <1>7, <2>1, <2>2 DEF Bijection, Injection, Surjection
  <1>9. ASSUME NEW i \in 1..size, NEW j \in 1..size, i < j
        PROVE  <<f[i], f[j]>> \in R
    <2>1. f[i] \in S /\ f[j] \in S /\ f[i] # f[j]
      BY <1>1, <1>7, <1>9
    <2>2. ~(place[f[j]] < place[f[i]])
      BY <1>1, <1>7, <1>9
    <2> QED
      BY <1>3, <2>1, <2>2
  <1> QED
    BY <1>8, <1>9 DEF size

\* The tests of a question in their order: each of them once.
LEMMA InOrderLists ==
    ASSUME NEW T \in SUBSET Nat, IsFiniteSet(T)
    PROVE  /\ Cardinality(T) \in Nat
           /\ InOrder(T) \in [1..Cardinality(T) -> T] /\ InOrder(T) \in Seq(T)
           /\ Len(InOrder(T)) = Cardinality(T)
           /\ \A i, j \in 1..Cardinality(T) : InOrder(T)[i] = InOrder(T)[j] => i = j
           /\ \A t \in T : \E i \in 1..Cardinality(T) : InOrder(T)[i] = t
  <1> DEFINE size == Cardinality(T)
             R == {p \in T \X T : p[1] < p[2]}
  <1>0. \A t \in T : t \in Int
    OBVIOUS
  <1>1. size \in Nat /\ IsFiniteSet(1..size) /\ Cardinality(1..size) = size
    BY FS_CardinalityType, FS_Interval
  <1>2. PICK f \in Bijection(1..size, T) : \A i, j \in 1..size : i < j => <<f[i], f[j]>> \in R
    <2>1. \A a, b \in T : <<a, b>> \in R <=> a < b
      OBVIOUS
    <2>2. \A a, b, c \in T : <<a, b>> \in R /\ <<b, c>> \in R => <<a, c>> \in R
      BY <2>1
    <2>3. \A a \in T : <<a, a>> \notin R
      BY <2>1
    <2>4. \A a, b \in T : a # b => <<a, b>> \in R \/ <<b, a>> \in R
      BY <2>1
    <2> HIDE DEF R
    <2> QED
      BY <2>2, <2>3, <2>4, Listed
  <1>3. f \in [1..size -> T] /\ \A i, j \in DOMAIN f : i < j => f[i] < f[j]
    BY <1>2 DEF Bijection, Injection
  <1>4. InOrder(T) \in [1..size -> T] /\ \A i, j \in 1..size : i < j => InOrder(T)[i] < InOrder(T)[j]
    <2> DEFINE Increasing(s) == \A i, j \in DOMAIN s : i < j => s[i] < s[j]
    <2>1. f \in [1..size -> T] /\ Increasing(f)
      BY <1>3
    <2>2. InOrder(T) = CHOOSE s \in [1..size -> T] : Increasing(s)
      BY DEF InOrder
    <2>3. InOrder(T) \in [1..size -> T] /\ Increasing(InOrder(T))
      <3> HIDE DEF Increasing, size
      <3> QED
        BY <2>1, <2>2
    <2> QED
      BY <2>3
  <1> DEFINE g == InOrder(T)
  <1> HIDE DEF g, size
  <1>5. g \in [1..size -> T] /\ \A i, j \in 1..size : i < j => g[i] < g[j]
    BY <1>4 DEF g
  <1>6. ASSUME NEW i \in 1..size, NEW j \in 1..size, g[i] = g[j]
        PROVE  i = j
    <2>1. g[i] \in T /\ g[j] \in T
      BY <1>5
    <2>2. i \in Int /\ j \in Int
      BY <1>1
    <2>3. g[i] \in Int /\ g[j] \in Int
      BY <1>0, <2>1
    <2>4. ~(i < j) /\ ~(j < i)
      BY <1>5, <1>6, <2>3
    <2> QED
      BY <2>2, <2>4
  <1>7. \A t \in T : \E i \in 1..size : g[i] = t
    <2>1. g \in Injection(1..size, T)
      BY <1>5, <1>6 DEF Injection, IsInjective
    <2>2. g \in Surjection(1..size, T)
      BY <1>1, <2>1, FS_Injection DEF size
    <2> QED
      BY <2>2 DEF Surjection
  <1> QED
    BY <1>1, <1>5, <1>6, <1>7 DEF g, size

\* Sorting keeps how often every element occurs.
LEMMA SortedSame ==
    ASSUME NEW s \in BoundedSeq(Item, MaxItems)
    PROVE  ToBag(Sorted(s)) = ToBag(s)
  <1>1. PICK size \in 0..MaxItems : s \in [1..size -> Item]
    BY ComparisonAssumption DEF BoundedSeq, SeqOf
  <1> DEFINE R == {p \in (1..size) \X (1..size) :
                     s[p[1]] < s[p[2]] \/ (s[p[1]] = s[p[2]] /\ p[1] < p[2])}
  <1>2. size \in Nat /\ IsFiniteSet(1..size) /\ Cardinality(1..size) = size
    BY ComparisonAssumption, FS_Interval
  <1>3. \A i \in 1..size : s[i] \in Nat
    BY <1>1, ComparisonAssumption
  <1>4. PICK f \in Bijection(1..size, 1..size) : \A i, j \in 1..size : i < j => <<f[i], f[j]>> \in R
    <2>1. \A a, b \in 1..size : <<a, b>> \in R <=> s[a] < s[b] \/ (s[a] = s[b] /\ a < b)
      OBVIOUS
    <2> HIDE DEF R
    <2>2. \A a, b, c \in 1..size : <<a, b>> \in R /\ <<b, c>> \in R => <<a, c>> \in R
      BY <1>2, <1>3, <2>1
    <2>3. \A a \in 1..size : <<a, a>> \notin R
      BY <1>3, <2>1
    <2>4. ASSUME NEW a \in 1..size, NEW b \in 1..size, a # b
          PROVE  <<a, b>> \in R \/ <<b, a>> \in R
      <3>1. a \in Nat /\ b \in Nat /\ s[a] \in Nat /\ s[b] \in Nat
        BY <1>2, <1>3
      <3>2. s[a] < s[b] \/ s[b] < s[a] \/ (s[a] = s[b] /\ (a < b \/ b < a))
        BY <2>4, <3>1
      <3> QED
        BY <2>1, <3>2
    <2> QED
      BY <1>2, <2>2, <2>3, <2>4, Listed
  <1>5. /\ f \in [1..size -> 1..size]
        /\ \A i, j \in 1..size : f[i] = f[j] => i = j
        /\ \A k \in 1..size : \E i \in 1..size : f[i] = k
    BY <1>4 DEF Bijection, Injection, Surjection, IsInjective
  <1> DEFINE u == [i \in 1..size |-> s[f[i]]]
  <1>6. u \in BoundedSeq(Item, MaxItems)
    <2>1. u \in [1..size -> Item]
      BY <1>1, <1>5
    <2> HIDE DEF u
    <2> QED
      BY <1>1, <2>1 DEF BoundedSeq, SeqOf
  <1>7. ASSUME NEW i \in DOMAIN u, NEW j \in DOMAIN u, i < j
        PROVE  u[i] <= u[j]
    <2>1. f[i] \in 1..size /\ f[j] \in 1..size /\ <<f[i], f[j]>> \in R
      BY <1>4, <1>5, <1>7
    <2>2. s[f[i]] < s[f[j]] \/ s[f[i]] = s[f[j]]
      BY <2>1
    <2> QED
      BY <1>3, <2>1, <2>2
  <1>8. ToBag(u) = ToBag(s)
    <2>1. Range(u) = Range(s)
      <3>1. Range(u) = {s[f[i]] : i \in 1..size} /\ Range(s) = {s[i] : i \in 1..size}
        BY <1>1 DEF Range
      <3>2. \A i \in 1..size : s[f[i]] \in Range(s)
        BY <1>5, <3>1
      <3>3. \A i \in 1..size : \E k \in 1..size : s[i] = s[f[k]]
        BY <1>5
      <3>4. Range(u) \subseteq Range(s)
        BY <3>1, <3>2
      <3>5. Range(s) \subseteq Range(u)
        BY <3>1, <3>3
      <3> QED
        BY <3>4, <3>5
    <2>2. ASSUME NEW x
          PROVE  Cardinality({i \in DOMAIN u : u[i] = x}) = Cardinality({i \in DOMAIN s : s[i] = x})
      <3> DEFINE U == {i \in 1..size : s[f[i]] = x}
                 V == {i \in 1..size : s[i] = x}
                 h == [i \in U |-> f[i]]
      <3>1. U \in SUBSET (1..size) /\ IsFiniteSet(U)
        BY <1>2, FS_Subset
      <3>2. h \in Bijection(U, V)
        BY <1>5 DEF Bijection, Injection, Surjection, IsInjective
      <3>3. Cardinality(V) = Cardinality(U)
        <4>1. ExistsBijection(U, V)
          BY <3>2 DEF ExistsBijection
        <4> HIDE DEF U, V, h
        <4> QED
          BY <3>1, <4>1, FS_Bijection
      <3>4. U = {i \in DOMAIN u : u[i] = x} /\ V = {i \in DOMAIN s : s[i] = x}
        BY <1>1
      <3> QED
        BY <3>3, <3>4
    <2> HIDE DEF u
    <2> QED
      BY <2>1, <2>2 DEF ToBag
  <1> DEFINE Right(v) == ToBag(v) = ToBag(s) /\ \A i, j \in DOMAIN v : i < j => v[i] <= v[j]
  <1>9. Sorted(s) = CHOOSE v \in BoundedSeq(Item, MaxItems) : Right(v)
    BY DEF Sorted
  <1>10. Right(u)
    BY <1>7, <1>8
  <1>11. Right(Sorted(s))
    <2> HIDE DEF Right, u
    <2> QED
      BY <1>6, <1>9, <1>10
  <1> QED
    BY <1>11

\* Two answers sort alike exactly when every row is in both as often.
LEMMA SortAlike ==
    ASSUME NEW s \in BoundedSeq(Item, MaxItems), NEW t \in BoundedSeq(Item, MaxItems)
    PROVE  Sorted(s) = Sorted(t) <=> ToBag(s) = ToBag(t)
  <1>1. ASSUME ToBag(s) = ToBag(t)
        PROVE  Sorted(s) = Sorted(t)
    BY <1>1 DEF Sorted
  <1> QED
    BY <1>1, SortedSame

-----------------------------------------------------------------------------
(* The inductive invariant.                                                *)

\* What is stored is what the controller makes of the log, and nothing before.
Projection ==
    IF Parses(log) /\ Loads(question) THEN TrustedCompare(log, LoadExpectedTests(question)) ELSE Refused
Stored ==
    IF Projection # Refused /\ kind = "SUBMIT"
      THEN [Projection EXCEPT !.grade = LegacyStatus(Projection)]
      ELSE Projection
StoredOK == outcome = IF stage = "over" THEN Stored ELSE NoOutcome

Results == [columns : {<<>>, NoAnswer.columns, KeyError.columns} \cup Columns,
            rows : BoundedSeq(Item, MaxItems)]
Tests == [visibility : Visibility, strategy : Strategy, expected : Results]
QuestionOK ==
    /\ language \in {"python", "sql"}
    /\ TestsOf(question) # {} /\ IsFiniteSet(TestsOf(question))
    /\ \A t \in TestsOf(question) : question[t] \in Tests

Errors == {"none", "KeyError", "limit", "timeout"}
Reports == [id : TestId \cup {Alien}, visibility : {"public", "hidden"}, ok : BOOLEAN,
            actual : Results, error : Errors]
Logs == [status : {"RUNNING", "COMPLETED", "FAILED", "TIMEOUT"}, fresh : BOOLEAN, long : BOOLEAN,
         tests : Seq(Reports)]
LogOK ==
    /\ log \in Logs
    /\ stage \in {"draft", "running"} => log.status = "RUNNING"
    /\ stage = "draft" => log.tests = <<>>

RequestOK ==
    /\ kind \in {"RUN", "SUBMIT"}
    /\ request = IF stage = "draft" THEN <<>> ELSE CandidateTests(question, kind = "RUN")

\* An honest log reports the tests of the request in their order, and all of
\* them when it is complete.
Reported(i) == log.tests[i].id = request[i].id /\ log.tests[i].visibility = request[i].visibility
HonestOK ==
    honest => /\ Len(log.tests) <= Len(request)
              /\ \A i \in 1..Len(log.tests) : Reported(i)
              /\ log.status = "COMPLETED" => Len(log.tests) = Len(request)

ComparisonInv == QuestionOK /\ LogOK /\ RequestOK /\ HonestOK /\ StoredOK

-----------------------------------------------------------------------------
(* What is sent.                                                           *)

Chosen(public_only) == {t \in TestsOf(question) : public_only => question[t].visibility = "public"}

LEMMA Sent ==
    ASSUME QuestionOK, NEW public_only \in BOOLEAN
    PROVE  LET sent == CandidateTests(question, public_only)
               size == Cardinality(Chosen(public_only))
           IN  /\ size \in Nat
               /\ sent \in Seq([id : Chosen(public_only), visibility : {"public", "hidden"}])
               /\ Len(sent) = size
               /\ \A i \in 1..size : sent[i].visibility = Sanitized(question[sent[i].id].visibility)
               /\ \A i, j \in 1..size : sent[i].id = sent[j].id => i = j
               /\ \A t \in Chosen(public_only) : \E i \in 1..size : sent[i].id = t
  <1> DEFINE T == Chosen(public_only)
             size == Cardinality(T)
             order == InOrder(T)
             sent == [i \in 1..Len(order) |->
                        [id |-> order[i], visibility |-> Sanitized(question[order[i]].visibility)]]
  <1>1. T \in SUBSET Nat /\ IsFiniteSet(T)
    <2>1. T \in SUBSET TestsOf(question) /\ TestsOf(question) \subseteq Nat
      BY ComparisonAssumption DEF Chosen, TestsOf
    <2> QED
      BY <2>1, FS_Subset DEF QuestionOK
  <1>2. /\ size \in Nat /\ order \in [1..size -> T] /\ Len(order) = size
        /\ \A i, j \in 1..size : order[i] = order[j] => i = j
        /\ \A t \in T : \E i \in 1..size : order[i] = t
    <2> HIDE DEF T
    <2> QED
      BY <1>1, InOrderLists
  <1>3. CandidateTests(question, public_only) = sent
    BY DEF CandidateTests, Chosen
  <1> HIDE DEF T, size, order
  <1>4. \A i \in 1..size : /\ sent[i].id = order[i] /\ order[i] \in T
                           /\ sent[i].visibility = Sanitized(question[order[i]].visibility)
                           /\ sent[i] \in [id : T, visibility : {"public", "hidden"}]
    <2> SUFFICES ASSUME NEW i \in 1..size
                 PROVE  /\ sent[i].id = order[i] /\ order[i] \in T
                        /\ sent[i].visibility = Sanitized(question[order[i]].visibility)
                        /\ sent[i] \in [id : T, visibility : {"public", "hidden"}]
      OBVIOUS
    <2>1. sent[i] = [id |-> order[i], visibility |-> Sanitized(question[order[i]].visibility)]
      BY <1>2
    <2>2. order[i] \in T /\ Sanitized(question[order[i]].visibility) \in {"public", "hidden"}
      BY <1>2 DEF Sanitized
    <2> HIDE DEF sent
    <2> QED
      BY <2>1, <2>2
  <1>5. sent \in Seq([id : T, visibility : {"public", "hidden"}]) /\ Len(sent) = size
    <2>1. DOMAIN sent = 1..size
      BY <1>2
    <2>2. sent = [i \in 1..size |-> sent[i]]
      BY <1>2
    <2> DEFINE X == [id : T, visibility : {"public", "hidden"}]
    <2> HIDE DEF sent
    <2>3. \A i \in 1..size : sent[i] \in X
      BY <1>4
    <2> HIDE DEF X
    <2>4. sent \in [1..size -> X]
      BY <2>1, <2>2, <2>3
    <2>5. sent \in Seq(X)
      BY <1>2, <2>4
    <2> QED
      BY <1>2, <2>1, <2>5 DEF X
  <1> HIDE DEF sent
  <1> QED
    BY <1>2, <1>3, <1>4, <1>5 DEF T, size

-----------------------------------------------------------------------------
(* What is stored.                                                         *)

\* The answers the controller loads.
LEMMA Loaded ==
    ASSUME QuestionOK, NEW t \in TestsOf(question)
    PROVE  LET expected == LoadExpectedTests(question)
           IN  /\ DOMAIN expected = TestsOf(question)
               /\ expected[t].visibility = Sanitized(question[t].visibility)
               /\ expected[t].visibility \in {"public", "hidden"}
               /\ expected[t].strategy = ComparisonPolicy(question[t].strategy)
               /\ expected[t].expected = question[t].expected
  <1>1. PICK test \in Tests : test = question[t]
    BY DEF QuestionOK
  <1>2. LoadExpectedTests(question)[t] = [test EXCEPT !.visibility = Sanitized(@), !.strategy = ComparisonPolicy(@)]
    BY <1>1 DEF LoadExpectedTests
  <1>3. DOMAIN LoadExpectedTests(question) = TestsOf(question)
    BY DEF LoadExpectedTests
  <1>4. Sanitized(test.visibility) \in {"public", "hidden"}
    BY DEF Sanitized
  <1> QED
    BY <1>1, <1>2, <1>3, <1>4 DEF Tests

\* A result passes exactly when it answers the test: the strategies compare as
\* they should.
LEMMA PassedAnswers ==
    ASSUME QuestionOK, Loads(question), NEW r \in Reports, r.id \in TestsOf(question),
           ~Raises(r, LoadExpectedTests(question)[r.id])
    PROVE  TestPassed(r, LoadExpectedTests(question)[r.id]) <=> Answers(r, r.id)
  <1>1. PICK test \in Tests : test = question[r.id]
    BY DEF QuestionOK
  <1> DEFINE want == LoadExpectedTests(question)[r.id]
  <1>2. want.expected = test.expected /\ want.strategy = ComparisonPolicy(test.strategy)
    BY <1>1, Loaded
  <1>3. Sorted(r.actual.rows) = Sorted(test.expected.rows) <=>
          ToBag(r.actual.rows) = ToBag(test.expected.rows)
    <2>1. r.actual.rows \in BoundedSeq(Item, MaxItems) /\ test.expected.rows \in BoundedSeq(Item, MaxItems)
      BY DEF Reports, Tests, Results
    <2> QED
      BY <2>1, SortAlike
  <1>4. ASSUME r.ok, test.expected # KeyError
        PROVE  CompareValue(r.actual, test.expected, ComparisonPolicy(test.strategy)) <=>
                  \/ r.actual = test.expected
                  \/ /\ test.strategy = "unordered"
                     /\ r.actual.columns = test.expected.columns
                     /\ ToBag(r.actual.rows) = ToBag(test.expected.rows)
    <2>1. CASE test.strategy = "exact"
      BY <2>1 DEF CompareValue, ComparisonPolicy
    <2>2. CASE test.strategy = "unordered"
      BY <1>3, <2>2 DEF CompareValue, ComparisonPolicy
    <2>3. test.strategy # "unsupported"
      BY <1>1 DEF Loads
    <2>4. test.strategy # "bad_tolerance"
      BY <1>2, <1>4 DEF Raises, ComparisonPolicy
    <2> QED
      BY <2>1, <2>2, <2>3, <2>4 DEF Tests, Strategy
  <1> HIDE DEF want
  <1> QED
    BY <1>1, <1>2, <1>4 DEF TestPassed, Answers, want

\* The fields of a projection.
LEMMA ProjectedFields ==
    ASSUME NEW l, NEW expected, NEW label
    PROVE  LET of(v) == {i \in 1..Len(l.tests) : label[i] = v}
               passed(v) == Cardinality({i \in of(v) : TestPassed(l.tests[i], expected[l.tests[i].id])})
               hidden_total == Cardinality({t \in DOMAIN expected : expected[t].visibility = "hidden"})
               p == Projected(l, expected, label)
           IN  /\ p.status = l.status /\ p.grade = "none"
               /\ p.public = {l.tests[i].id : i \in of("public")}
               /\ p.passed = passed("public") + passed("hidden")
               /\ p.total = Cardinality(of("public")) + hidden_total
               /\ \A g : LET r == [p EXCEPT !.grade = g]
                        IN  r.status = p.status /\ r.passed = p.passed /\ r.grade = g /\ r.public = p.public
  BY DEF Projected, NoOutcome

\* Distinct members of P name the members of T.
LEMMA CountsAlike ==
    ASSUME NEW P, NEW T, NEW name, IsFiniteSet(P),
           \A i \in P : name[i] \in T,
           \A t \in T : \E i \in P : name[i] = t,
           \A i, j \in P : name[i] = name[j] => i = j
    PROVE  IsFiniteSet(T) /\ Cardinality(T) = Cardinality(P)
  <1> DEFINE h == [i \in P |-> name[i]]
  <1>1. h \in Bijection(P, T)
    BY DEF Bijection, Injection, Surjection, IsInjective
  <1> QED
    BY <1>1, FS_Bijection DEF ExistsBijection

\* The results of a log by the visibility of their tests, and those that pass.
Label(i) == LoadExpectedTests(question)[log.tests[i].id].visibility
Labelled(v) == {i \in 1..Len(log.tests) : Label(i) = v}
Passing == {i \in 1..Len(log.tests) :
               TestPassed(log.tests[i], LoadExpectedTests(question)[log.tests[i].id])}
HiddenTests == {t \in TestsOf(question) : LoadExpectedTests(question)[t].visibility = "hidden"}

LEMMA Accepted ==
    ASSUME QuestionOK, LogOK, Projection # Refused
    PROVE  /\ Projection.status = log.status /\ Projection.grade = "none"
           /\ Projection.public = {log.tests[i].id : i \in Labelled("public")}
           /\ Projection.passed = Cardinality(Labelled("public") \cap Passing)
                                    + Cardinality(Labelled("hidden") \cap Passing)
           /\ Projection.total = Cardinality(Labelled("public")) + Cardinality(HiddenTests)
           /\ Loads(question)
           /\ \A i \in 1..Len(log.tests) :
                 /\ log.tests[i] \in Reports /\ log.tests[i].id \in TestsOf(question)
                 /\ ~Raises(log.tests[i], LoadExpectedTests(question)[log.tests[i].id])
           /\ \A i, j \in 1..Len(log.tests) : log.tests[i].id = log.tests[j].id => i = j
           /\ log.status = "COMPLETED" =>
                \A t \in TestsOf(question) : \E i \in 1..Len(log.tests) : log.tests[i].id = t
  <1> DEFINE n == Len(log.tests)
             expected == LoadExpectedTests(question)
             label == [i \in 1..n |-> expected[log.tests[i].id].visibility]
             returned == {r.id : r \in ToSet(log.tests)}
  <1>1. n \in Nat /\ DOMAIN log.tests = 1..n /\ \A i \in 1..n : log.tests[i] \in Reports
    BY DEF LogOK, Logs
  <1>2. Parses(log) /\ Loads(question) /\ Projection = TrustedCompare(log, expected)
    BY DEF Projection
  <1>3. /\ Projection = Projected(log, expected, label)
        /\ returned \subseteq DOMAIN expected
        /\ log.status = "COMPLETED" => returned = DOMAIN expected
        /\ \A r \in ToSet(log.tests) : ~Raises(r, expected[r.id])
    BY <1>2 DEF TrustedCompare
  <1>4. returned = {log.tests[i].id : i \in 1..n}
    BY <1>1 DEF ToSet
  <1>5. DOMAIN expected = TestsOf(question)
    BY DEF LoadExpectedTests
  <1>6. /\ Projection.status = log.status /\ Projection.grade = "none"
        /\ Projection.public = {log.tests[i].id : i \in {k \in 1..n : label[k] = "public"}}
        /\ Projection.passed =
              Cardinality({i \in {k \in 1..n : label[k] = "public"} :
                             TestPassed(log.tests[i], expected[log.tests[i].id])})
              + Cardinality({i \in {k \in 1..n : label[k] = "hidden"} :
                               TestPassed(log.tests[i], expected[log.tests[i].id])})
        /\ Projection.total = Cardinality({k \in 1..n : label[k] = "public"})
                                + Cardinality({t \in DOMAIN expected : expected[t].visibility = "hidden"})
    <2> HIDE DEF expected, label
    <2> QED
      BY <1>3 DEF Projected, NoOutcome
  <1>7. \A v : {k \in 1..n : label[k] = v} = Labelled(v)
    BY DEF Labelled, Label
  <1>8. \A v : {i \in Labelled(v) : TestPassed(log.tests[i], expected[log.tests[i].id])} = Labelled(v) \cap Passing
    BY DEF Labelled, Passing
  <1>9. {t \in DOMAIN expected : expected[t].visibility = "hidden"} = HiddenTests
    BY <1>5 DEF HiddenTests
  <1>10. \A i, j \in 1..n : log.tests[i].id = log.tests[j].id => i = j
    BY <1>2 DEF Parses
  <1>11. /\ \A i \in 1..n : log.tests[i].id \in TestsOf(question)
         /\ log.status = "COMPLETED" => \A t \in TestsOf(question) : \E i \in 1..n : log.tests[i].id = t
    <2> HIDE DEF returned, expected, n
    <2> QED
      BY <1>3, <1>4, <1>5
  <1>15. \A i \in 1..n : ~Raises(log.tests[i], expected[log.tests[i].id])
    <2>1. \A i \in 1..n : log.tests[i] \in ToSet(log.tests)
      BY <1>1 DEF ToSet
    <2> HIDE DEF returned, expected, n
    <2> QED
      BY <1>3, <2>1
  <1> HIDE DEF label, returned, n
  <1>12. Projection.public = {log.tests[i].id : i \in Labelled("public")}
    BY <1>6, <1>7
  <1>13. Projection.passed = Cardinality(Labelled("public") \cap Passing)
                              + Cardinality(Labelled("hidden") \cap Passing)
    BY <1>6, <1>7, <1>8
  <1>14. Projection.total = Cardinality(Labelled("public")) + Cardinality(HiddenTests)
    BY <1>6, <1>7, <1>9
  <1> QED
    BY <1>1, <1>2, <1>6, <1>10, <1>11, <1>12, <1>13, <1>14, <1>15 DEF n

\* What is counted when a result is accepted: passed counts the tests that were
\* answered, and total of a complete result all there are.
LEMMA Counted ==
    ASSUME QuestionOK, LogOK, Projection # Refused
    PROVE  /\ Projection.passed = Cardinality(Answered)
           /\ \A t \in Projection.public : question[t].visibility = "public"
           /\ log.status = "COMPLETED" => Projection.total = Cardinality(TestsOf(question))
  <1> DEFINE n == Len(log.tests)
             id == [i \in 1..n |-> log.tests[i].id]
             Public == Labelled("public")
             Hidden == Labelled("hidden")
  <1>1. n \in Nat
    BY DEF LogOK
  <1>2. \A i, j \in 1..n : id[i] = id[j] => i = j
    BY Accepted
  <1>3. ASSUME NEW i \in 1..n
        PROVE  /\ id[i] = log.tests[i].id /\ id[i] \in TestsOf(question)
               /\ Label(i) = Sanitized(question[id[i]].visibility) /\ Label(i) \in {"public", "hidden"}
               /\ i \in Passing <=> Answers(log.tests[i], id[i])
    <2>1. /\ id[i] = log.tests[i].id /\ log.tests[i] \in Reports /\ log.tests[i].id \in TestsOf(question)
          /\ Loads(question) /\ ~Raises(log.tests[i], LoadExpectedTests(question)[log.tests[i].id])
      BY Accepted
    <2>2. i \in Passing <=> TestPassed(log.tests[i], LoadExpectedTests(question)[log.tests[i].id])
      BY DEF Passing
    <2> QED
      BY <2>1, <2>2, Loaded, PassedAnswers DEF Label
  <1>4. Public \in SUBSET (1..n) /\ Hidden \in SUBSET (1..n) /\ Passing \in SUBSET (1..n)
    BY DEF Labelled, Passing
  <1>5. \A i \in 1..n : /\ i \in Public <=> Label(i) = "public"
                        /\ i \in Hidden <=> Label(i) = "hidden"
    BY DEF Labelled
  <1>6. \A P \in SUBSET (1..n) : IsFiniteSet(P) /\ Cardinality(P) \in Nat
    <2>1. IsFiniteSet(1..n)
      BY <1>1, FS_Interval
    <2> QED
      BY <2>1, FS_Subset, FS_CardinalityType
  <1>7. Cardinality(Answered) = Cardinality(Passing)
    <2>1. \A i \in Passing : id[i] \in Answered
      BY <1>3, <1>4 DEF Answered
    <2>2. ASSUME NEW t \in Answered
          PROVE  \E i \in Passing : id[i] = t
      <3>1. PICK i \in 1..n : Answers(log.tests[i], t)
        BY DEF Answered
      <3>2. id[i] = t
        BY <3>1 DEF Answers
      <3> QED
        BY <1>3, <3>1, <3>2
    <2>3. \A i, j \in Passing : id[i] = id[j] => i = j
      BY <1>2, <1>4
    <2> HIDE DEF n, id
    <2> QED
      BY <1>4, <1>6, <2>1, <2>2, <2>3, CountsAlike
  <1> HIDE DEF n, id, Public, Hidden
  <1>8. Projection.passed = Cardinality(Answered)
    <2> DEFINE A == Public \cap Passing
               B == Hidden \cap Passing
    <2>1. A \cup B = Passing /\ A \cap B = {} /\ A \in SUBSET (1..n) /\ B \in SUBSET (1..n)
      BY <1>3, <1>4, <1>5
    <2>2. Projection.passed = Cardinality(A) + Cardinality(B)
      BY Accepted DEF Public, Hidden
    <2> HIDE DEF A, B
    <2>3. /\ IsFiniteSet(A) /\ IsFiniteSet(B)
          /\ Cardinality(A) \in Nat /\ Cardinality(B) \in Nat
      BY <1>6, <2>1
    <2>4. Cardinality(Passing) = Cardinality(A) + Cardinality(B)
      <3>1. Cardinality(A \cup B) = Cardinality(A) + Cardinality(B) - Cardinality(A \cap B)
        BY <2>3, FS_Union
      <3>2. Cardinality(A \cap B) = 0
        BY <2>1, FS_EmptySet
      <3>3. Cardinality(A \cup B) = Cardinality(Passing)
        BY <2>1
      <3> QED
        BY <2>3, <3>1, <3>2, <3>3
    <2> QED
      BY <1>7, <2>2, <2>4
  <1>9. \A t \in Projection.public : question[t].visibility = "public"
    <2>1. Projection.public = {log.tests[i].id : i \in Public}
      BY Accepted DEF Public
    <2> QED
      BY <1>3, <1>4, <1>5, <2>1 DEF Sanitized
  <1>10. ASSUME log.status = "COMPLETED"
         PROVE  Projection.total = Cardinality(TestsOf(question))
    <2> DEFINE T == {id[i] : i \in Public}
    <2>1. T \cup HiddenTests = TestsOf(question) /\ T \cap HiddenTests = {}
      <3>1. \A t \in TestsOf(question) : \E i \in 1..n : id[i] = t
        BY <1>3, <1>10, Accepted DEF n
      <3>2. \A i \in 1..n : id[i] \in TestsOf(question) /\ (id[i] \in HiddenTests <=> Label(i) = "hidden")
        BY <1>3 DEF Label, HiddenTests
      <3>3. \A i \in 1..n : id[i] \in T <=> Label(i) = "public"
        BY <1>2, <1>4, <1>5
      <3>4. T \subseteq TestsOf(question) /\ HiddenTests \subseteq TestsOf(question)
        BY <1>4, <3>2 DEF HiddenTests
      <3> HIDE DEF T
      <3>5. \A t \in TestsOf(question) : t \in T <=> t \notin HiddenTests
        BY <1>3, <3>1, <3>2, <3>3
      <3> QED
        BY <3>4, <3>5
    <2>2. IsFiniteSet(T) /\ Cardinality(T) = Cardinality(Public) /\ Cardinality(T) \in Nat
      <3>1. \A i \in Public : id[i] \in T
        OBVIOUS
      <3>2. \A t \in T : \E i \in Public : id[i] = t
        OBVIOUS
      <3>3. \A i, j \in Public : id[i] = id[j] => i = j
        BY <1>2, <1>4
      <3> HIDE DEF T
      <3>4. IsFiniteSet(Public) /\ Cardinality(Public) \in Nat
        BY <1>4, <1>6
      <3> QED
        BY <3>1, <3>2, <3>3, <3>4, CountsAlike
    <2>3. IsFiniteSet(HiddenTests) /\ Cardinality(HiddenTests) \in Nat
      <3>1. HiddenTests \in SUBSET TestsOf(question)
        BY DEF HiddenTests
      <3> QED
        BY <3>1, FS_Subset, FS_CardinalityType DEF QuestionOK
    <2> HIDE DEF T
    <2>4. Cardinality(TestsOf(question)) = Cardinality(T) + Cardinality(HiddenTests)
      <3>1. Cardinality(T \cup HiddenTests) =
               Cardinality(T) + Cardinality(HiddenTests) - Cardinality(T \cap HiddenTests)
        BY <2>2, <2>3, FS_Union
      <3>2. Cardinality(T \cap HiddenTests) = 0
        BY <2>1, FS_EmptySet
      <3> QED
        BY <2>1, <2>2, <2>3, <3>1, <3>2
    <2> QED
      BY <2>2, <2>4, Accepted DEF Public
  <1> QED
    BY <1>8, <1>9, <1>10

\* Whatever the log is, what would be stored is earned and shows nothing hidden.
LEMMA StoredEarned ==
    ASSUME QuestionOK, LogOK, RequestOK
    PROVE  /\ Stored.status \notin {"NONE", "REFUSED"} =>
                /\ Stored.passed = Cardinality(Answered)
                /\ Stored.grade = "passed" <=>
                      kind = "SUBMIT" /\ log.status = "COMPLETED" /\ Answered = TestsOf(question)
           /\ \A t \in Stored.public : question[t].visibility = "public"
  <1>1. CASE Projection = Refused
    BY <1>1 DEF Stored, Refused, NoOutcome
  <1>2. CASE Projection # Refused
    <2>1. /\ Projection.status = log.status /\ Projection.grade = "none"
          /\ Projection.passed = Cardinality(Answered)
          /\ \A t \in Projection.public : question[t].visibility = "public"
          /\ log.status = "COMPLETED" => Projection.total = Cardinality(TestsOf(question))
      BY <1>2, Accepted, Counted
    <2>2. /\ Stored.passed = Projection.passed /\ Stored.public = Projection.public
          /\ Stored.grade = IF kind = "SUBMIT" THEN LegacyStatus(Projection) ELSE "none"
      <3>1. \E label : Projection = Projected(log, LoadExpectedTests(question), label)
        BY <1>2 DEF Projection, TrustedCompare
      <3>2. /\ \A g : LET p == [Projection EXCEPT !.grade = g]
                      IN  p.passed = Projection.passed /\ p.grade = g /\ p.public = Projection.public
        BY <3>1 DEF Projected, NoOutcome
      <3> QED
        BY <1>2, <2>1, <3>2 DEF Stored
    <2>3. /\ Cardinality(TestsOf(question)) \in Nat /\ Cardinality(TestsOf(question)) > 0
          /\ Answered = TestsOf(question) <=> Cardinality(Answered) = Cardinality(TestsOf(question))
      <3>1. Answered \in SUBSET TestsOf(question)
        BY DEF Answered
      <3>2. /\ Cardinality(TestsOf(question)) \in Nat
            /\ Cardinality(TestsOf(question)) # 0
        BY FS_CardinalityType, FS_EmptySet DEF QuestionOK
      <3>3. Cardinality(Answered) = Cardinality(TestsOf(question)) => Answered = TestsOf(question)
        BY <3>1, FS_Subset DEF QuestionOK
      <3> QED
        BY <3>2, <3>3
    <2>4. LegacyStatus(Projection) = "passed" <=> log.status = "COMPLETED" /\ Answered = TestsOf(question)
      BY <2>1, <2>3 DEF LegacyStatus
    <2> QED
      BY <2>1, <2>2, <2>4
  <1> QED
    BY <1>1, <1>2

\* An honest result of a submission that can be used is accepted.
LEMMA HonestAccepted ==
    ASSUME QuestionOK, LogOK, RequestOK, HonestOK, honest, kind = "SUBMIT", stage = "over", ~Unusable
    PROVE  Stored # Refused
  <1> DEFINE n == Len(log.tests)
             size == Cardinality(TestsOf(question))
             expected == LoadExpectedTests(question)
  <1>1. Chosen(FALSE) = TestsOf(question)
    BY DEF Chosen
  <1>2. request = CandidateTests(question, FALSE)
    BY DEF RequestOK
  <1>3. /\ size \in Nat /\ Len(request) = size
        /\ \A i \in 1..size : /\ request[i].id \in TestsOf(question)
                              /\ request[i].visibility = Sanitized(question[request[i].id].visibility)
        /\ \A i, j \in 1..size : request[i].id = request[j].id => i = j
        /\ \A t \in TestsOf(question) : \E i \in 1..size : request[i].id = t
    <2>1. LET sent == CandidateTests(question, FALSE)
          IN  /\ size \in Nat
              /\ sent \in Seq([id : TestsOf(question), visibility : {"public", "hidden"}])
              /\ Len(sent) = size
              /\ \A i \in 1..size : sent[i].visibility = Sanitized(question[sent[i].id].visibility)
              /\ \A i, j \in 1..size : sent[i].id = sent[j].id => i = j
              /\ \A t \in TestsOf(question) : \E i \in 1..size : sent[i].id = t
      BY <1>1, Sent
    <2> DEFINE X == [id : TestsOf(question), visibility : {"public", "hidden"}]
    <2> HIDE DEF size, X
    <2>2. request \in Seq(X) /\ Len(request) = size /\ size \in Nat
      BY <1>2, <2>1 DEF X
    <2>3. \A i \in 1..size : request[i] \in X
      BY <2>2
    <2>4. \A i \in 1..size : request[i].id \in TestsOf(question)
      BY <2>3 DEF X
    <2> QED
      BY <1>2, <2>1, <2>2, <2>4
  <1>4. /\ n \in Nat /\ DOMAIN log.tests = 1..n /\ n <= size
        /\ log.status = "COMPLETED" => n = size
        /\ \A i \in 1..n : Reported(i)
    BY <1>3 DEF HonestOK, LogOK
  <1>5. /\ \A i \in 1..n : /\ i \in 1..size /\ log.tests[i].id = request[i].id
                           /\ log.tests[i].visibility = request[i].visibility
    BY <1>3, <1>4 DEF Reported
  <1> HIDE DEF n, size, expected
  <1>6. Parses(log) /\ Loads(question)
    <2>1. \A i, j \in 1..n : log.tests[i].id = log.tests[j].id => i = j
      BY <1>3, <1>5
    <2>2. Loads(question) /\ log.fresh /\ ~log.long
      BY DEF Unusable
    <2>3. n <= MaxResultTests
      BY <1>3, <1>4, <2>2, ComparisonAssumption DEF Loads, size
    <2> QED
      BY <2>1, <2>2, <2>3 DEF Parses, n
  <1>7. DOMAIN expected = TestsOf(question)
    BY DEF LoadExpectedTests, expected
  <1>8. \A r \in ToSet(log.tests) : r.id \in TestsOf(question) /\ r.visibility = expected[r.id].visibility
    <2>1. \A t \in TestsOf(question) : expected[t].visibility = Sanitized(question[t].visibility)
      BY Loaded DEF expected
    <2> QED
      BY <1>3, <1>4, <1>5, <2>1 DEF ToSet
  <1>13. \A r \in ToSet(log.tests) : ~Raises(r, expected[r.id])
    <2>1. ASSUME NEW t \in TestsOf(question)
          PROVE  expected[t].strategy # "bad_tolerance"
      <3>1. expected[t].strategy = ComparisonPolicy(question[t].strategy)
        BY Loaded DEF expected
      <3> QED
        BY <3>1 DEF Unusable, ComparisonPolicy
    <2> QED
      BY <1>8, <2>1 DEF Raises
  <1>9. ASSUME log.status = "COMPLETED", NEW t \in TestsOf(question)
        PROVE  t \in {r.id : r \in ToSet(log.tests)}
    BY <1>3, <1>4, <1>5, <1>9 DEF ToSet
  <1>10. \E label : Projection = Projected(log, expected, label)
    <2>1. Projection = TrustedCompare(log, expected)
      BY <1>6 DEF Projection, expected
    <2>2. /\ {r.id : r \in ToSet(log.tests)} \subseteq DOMAIN expected
          /\ log.status = "COMPLETED" => {r.id : r \in ToSet(log.tests)} = DOMAIN expected
      BY <1>7, <1>8, <1>9
    <2> QED
      BY <1>8, <1>13, <2>1, <2>2 DEF TrustedCompare
  <1>11. Projection.status = log.status /\ \A g : [Projection EXCEPT !.grade = g].status = log.status
    BY <1>10 DEF Projected, NoOutcome
  <1>12. Stored.status = log.status
    BY <1>11 DEF Stored
  <1> QED
    BY <1>12 DEF LogOK, Logs, Refused, NoOutcome

-----------------------------------------------------------------------------
(* The invariant.                                                          *)

LEMMA InitComparisonInv == ComparisonInit => ComparisonInv
  <1> SUFFICES ASSUME ComparisonInit
               PROVE  ComparisonInv
    OBVIOUS
  <1>1. QuestionOK
    <2>1. PICK q \in Question : language = q.language /\ question = q.tests
      BY DEF ComparisonInit
    <2>2. PICK l \in {"python", "sql"} :
             /\ language = l /\ TestsOf(question) # {}
             /\ question \in [TestId -> {NoTest} \cup [visibility : Visibility, strategy : Strategy,
                                                       expected : Answer(l) \cup {KeyError}]]
      BY <2>1, ComparisonAssumption DEF Validated
    <2>3. Answer(l) \cup {KeyError} \subseteq Results
      <3>1. <<>> \in BoundedSeq(Item, MaxItems)
        BY ComparisonAssumption DEF BoundedSeq, SeqOf
      <3> QED
        BY <3>1 DEF Answer, KeyError, Results
    <2>4. \A t \in TestsOf(question) : question[t] \in Tests
      BY <2>2, <2>3 DEF TestsOf, Tests
    <2> QED
      BY <2>1, <2>2, <2>4, ComparisonAssumption DEF QuestionOK
  <1>2. LogOK /\ RequestOK /\ HonestOK /\ StoredOK
    BY DEF ComparisonInit, NoLog, LogOK, Logs, RequestOK, HonestOK, StoredOK
  <1> QED
    BY <1>1, <1>2 DEF ComparisonInv

\* Lines of the log are added, or it ends.
LEMMA LogStep ==
    ASSUME ComparisonInv, stage = "running", stage' \in {"running", "logged"},
           UNCHANGED <<language, question, kind, request, outcome>>,
           log' \in Logs,
           stage' = "running" => log'.status = "RUNNING",
           HonestOK'
    PROVE  ComparisonInv'
  <1>1. QuestionOK'
    BY DEF ComparisonInv, QuestionOK
  <1>2. RequestOK'
    BY DEF ComparisonInv, RequestOK
  <1>3. LogOK' /\ StoredOK'
    BY DEF ComparisonInv, LogOK, StoredOK
  <1> QED
    BY <1>1, <1>2, <1>3 DEF ComparisonInv

\* The test that is reported is the next one of the request.
LEMMA NextReport ==
    ASSUME ComparisonInv, Remaining, NEW ok \in BOOLEAN, NEW actual \in Results,
           NEW error \in Errors
    PROVE  LET n == Len(log.tests)
               tests == Append(log.tests, Report(ok, actual, error))
           IN  /\ n \in Nat /\ tests \in Seq(Reports) /\ Len(tests) = n + 1 /\ n + 1 <= Len(request)
               /\ \A i \in 1..n : tests[i] = log.tests[i]
               /\ tests[n + 1].id = request[n + 1].id
               /\ tests[n + 1].visibility = request[n + 1].visibility
  <1> DEFINE n == Len(log.tests)
             report == Report(ok, actual, error)
             public == kind = "RUN"
             X == [id : Chosen(public), visibility : {"public", "hidden"}]
  <1>1. log.tests \in Seq(Reports) /\ n \in Nat
    BY DEF ComparisonInv, LogOK, Logs
  <1>2. request \in Seq(X)
    <2>1. request = CandidateTests(question, public) /\ public \in BOOLEAN
      BY DEF Remaining, ComparisonInv, RequestOK
    <2>2. QuestionOK
      BY DEF ComparisonInv
    <2> QED
      BY <2>1, <2>2, Sent
  <1> HIDE DEF X
  <1>3. n + 1 \in 1..Len(request) /\ Len(request) \in Nat
    BY <1>1, <1>2 DEF Remaining
  <1>4. request[n + 1] \in X
    BY <1>2, <1>3
  <1>5. PICK test \in X : test = request[n + 1]
    BY <1>4
  <1>6. report = [id |-> test.id, visibility |-> test.visibility, ok |-> ok, actual |-> actual, error |-> error]
    BY <1>5 DEF Report
  <1>7. test.id \in TestId /\ test.visibility \in {"public", "hidden"}
    BY DEF X, Chosen, TestsOf
  <1>8. report \in Reports /\ report.id = test.id /\ report.visibility = test.visibility
    BY <1>6, <1>7 DEF Reports
  <1> DEFINE tests == Append(log.tests, report)
  <1> HIDE DEF report
  <1>9. /\ tests \in Seq(Reports) /\ Len(tests) = n + 1 /\ tests[n + 1] = report
        /\ \A i \in 1..n : tests[i] = log.tests[i]
    BY <1>1, <1>8
  <1> HIDE DEF tests
  <1> QED
    BY <1>1, <1>3, <1>5, <1>8, <1>9 DEF tests, report

LEMMA AppendStep ==
    ASSUME ComparisonInv, Remaining, NEW ok \in BOOLEAN, NEW actual \in Results,
           NEW error \in Errors,
           stage' \in {"running", "logged"},
           UNCHANGED <<language, question, kind, request, honest, outcome>>,
           NEW long \in BOOLEAN,
           log' = [log EXCEPT !.status = IF stage' = "running" THEN @ ELSE "TIMEOUT",
                              !.long = long,
                              !.tests = Append(@, Report(ok, actual, error))]
    PROVE  ComparisonInv'
  <1> DEFINE n == Len(log.tests)
             tests == Append(log.tests, Report(ok, actual, error))
  <1>0. log \in Logs /\ log.status = "RUNNING"
    BY DEF ComparisonInv, LogOK, Remaining
  <1>1. /\ n \in Nat /\ tests \in Seq(Reports) /\ Len(tests) = n + 1 /\ n + 1 <= Len(request)
        /\ \A i \in 1..n : tests[i] = log.tests[i]
        /\ tests[n + 1].id = request[n + 1].id
        /\ tests[n + 1].visibility = request[n + 1].visibility
    BY NextReport
  <1> HIDE DEF tests
  <1>4. /\ log' \in Logs /\ log'.tests = tests
        /\ log'.status = IF stage' = "running" THEN "RUNNING" ELSE "TIMEOUT"
    <2>1. log' = [log EXCEPT !.status = IF stage' = "running" THEN @ ELSE "TIMEOUT", !.long = long,
                             !.tests = tests]
      BY DEF tests
    <2> QED
      BY <1>0, <1>1, <2>1 DEF Logs
  <1>2. ASSUME honest, NEW i \in 1..Len(log'.tests)
        PROVE  Reported(i)'
    <2>1. CASE i = n + 1
      BY <1>1, <1>4, <2>1 DEF Reported
    <2>2. CASE i # n + 1
      <3>1. i \in 1..n
        BY <1>1, <1>4, <2>2
      <3> QED
        BY <1>1, <1>2, <1>4, <3>1 DEF ComparisonInv, HonestOK, Reported
    <2> QED
      BY <2>1, <2>2
  <1>3. HonestOK'
    BY <1>1, <1>2, <1>4 DEF ComparisonInv, HonestOK
  <1> QED
    BY <1>3, <1>4, LogStep DEF Remaining

\* What a runner can report: an answer, or an exception or a timeout without one.
LEMMA Answerable ==
    ASSUME ComparisonInv
    PROVE  Answer(language) \subseteq Results /\ NoAnswer \in Results
  <1>1. <<>> \in BoundedSeq(Item, MaxItems)
    BY ComparisonAssumption DEF BoundedSeq, SeqOf
  <1>2. NoAnswer \in Results
    BY <1>1 DEF NoAnswer, Results
  <1>3. Answer(language) \subseteq Results
    BY DEF Answer, Results, ComparisonInv, QuestionOK
  <1> QED
    BY <1>2, <1>3

\* A line is printed as it is, but perhaps too long.
LEMMA PrintedLog ==
    ASSUME NEW l, NEW m \in Printed(l)
    PROVE  \E long \in BOOLEAN : m = [l EXCEPT !.long = long]
  BY DEF Printed

\* A line without tests, for a failure or for a request that was refused.
LEMMA EmptyLog ==
    ASSUME ComparisonInv, NEW fresh \in BOOLEAN, log' = [NoLog EXCEPT !.status = "FAILED", !.fresh = fresh],
           stage # "draft", UNCHANGED <<kind, question, request, honest>>
    PROVE  log' \in Logs /\ HonestOK'
  <1>1. NoLog \in Logs /\ NoLog.tests = <<>>
    BY DEF NoLog, Logs
  <1>2. Len(request) \in Nat
    BY Sent DEF ComparisonInv, RequestOK
  <1>3. log' \in Logs /\ log'.status = "FAILED" /\ log'.tests = NoLog.tests
    BY <1>1 DEF Logs
  <1>4. Len(log'.tests) = 0
    BY <1>1, <1>3
  <1>5. HonestOK'
    BY <1>2, <1>3, <1>4 DEF HonestOK
  <1> QED
    BY <1>3, <1>5

LEMMA StoredStays ==
    ASSUME UNCHANGED <<language, question, kind, log>>
    PROVE  Stored' = Stored
  BY DEF Stored, Projection, LoadExpectedTests, ComparisonPolicy

LEMMA NextComparisonInv ==
    ASSUME ComparisonInv, [ComparisonNext]_cvars
    PROVE  ComparisonInv'
  <1>1. CASE QueueExecution
    <2>1. UNCHANGED <<language, question, kind, log, honest, outcome>> /\ stage = "draft" /\ stage' = "running"
          /\ request' = CandidateTests(question, kind = "RUN")
      BY <1>1 DEF QueueExecution
    <2>2. QuestionOK' /\ LogOK' /\ RequestOK' /\ StoredOK'
      BY <2>1 DEF ComparisonInv, QuestionOK, LogOK, RequestOK, StoredOK
    <2>3. HonestOK'
      <3>1. log.tests = <<>> /\ log.status = "RUNNING"
        BY <2>1 DEF ComparisonInv, LogOK
      <3>2. Len(request') \in Nat
        BY <2>1, Sent DEF ComparisonInv
      <3> QED
        BY <2>1, <3>1, <3>2 DEF HonestOK
    <2> QED
      BY <2>2, <2>3 DEF ComparisonInv
  <1>2. CASE ExecuteTest
    <2>1. PICK ok \in BOOLEAN, actual \in Results, error \in Errors :
             log' = [log EXCEPT !.tests = Append(@, Report(ok, actual, error))]
      <3>1. PICK report \in {Report(TRUE, a, "none") : a \in Answer(language)}
                            \cup {Report(FALSE, NoAnswer, e) : e \in {"KeyError", "limit"}} :
               log' = [log EXCEPT !.tests = Append(@, report)]
        BY <1>2 DEF ExecuteTest
      <3>2. \E ok \in BOOLEAN, actual \in Results, error \in Errors : report = Report(ok, actual, error)
        BY Answerable DEF Errors
      <3> QED
        BY <3>1, <3>2
    <2>2. Remaining /\ UNCHANGED <<language, question, kind, request, honest, stage, outcome>>
      BY <1>2 DEF ExecuteTest
    <2>3. /\ log' = [log EXCEPT !.status = IF stage' = "running" THEN @ ELSE "TIMEOUT",
                                !.long = log.long,
                                !.tests = Append(@, Report(ok, actual, error))]
          /\ log.long \in BOOLEAN
      BY <2>1, <2>2 DEF Remaining, ComparisonInv, LogOK, Logs
    <2> QED
      BY <2>2, <2>3, AppendStep DEF Remaining
  <1>3. CASE TestTimesOut
    <2>1. /\ Remaining /\ UNCHANGED <<language, question, kind, request, honest, outcome>>
          /\ stage = "running" /\ stage' = "logged"
      BY <1>3 DEF TestTimesOut, Remaining
    <2>2. ASSUME NEW long \in BOOLEAN, log' = [log EXCEPT !.status = "TIMEOUT", !.long = long]
          PROVE  ComparisonInv'
      BY <2>1, <2>2, LogStep DEF ComparisonInv, LogOK, Logs, HonestOK, Reported
    <2>3. ASSUME NEW long \in BOOLEAN,
                 log' = [log EXCEPT !.status = "TIMEOUT", !.long = long,
                                    !.tests = Append(@, Report(FALSE, NoAnswer, "timeout"))]
          PROVE  ComparisonInv'
      BY <2>1, <2>3, Answerable, AppendStep DEF Errors
    <2>4. \/ log' \in Printed([log EXCEPT !.status = "TIMEOUT"])
          \/ log' \in Printed([log EXCEPT !.status = "TIMEOUT",
                                        !.tests = Append(@, Report(FALSE, NoAnswer, "timeout"))])
      BY <1>3 DEF TestTimesOut
    <2>5. log = [status |-> log.status, fresh |-> log.fresh, long |-> log.long, tests |-> log.tests]
      BY DEF ComparisonInv, LogOK, Logs
    <2>6. CASE log' \in Printed([log EXCEPT !.status = "TIMEOUT"])
      <3>1. PICK long \in BOOLEAN : log' = [[log EXCEPT !.status = "TIMEOUT"] EXCEPT !.long = long]
        BY <2>6, PrintedLog
      <3>2. log' = [log EXCEPT !.status = "TIMEOUT", !.long = long]
        BY <3>1, <2>5
      <3> QED
        BY <2>2, <3>2
    <2>7. CASE log' \in Printed([log EXCEPT !.status = "TIMEOUT",
                                          !.tests = Append(@, Report(FALSE, NoAnswer, "timeout"))])
      <3> DEFINE tests == Append(log.tests, Report(FALSE, NoAnswer, "timeout"))
      <3>1. log' \in Printed([log EXCEPT !.status = "TIMEOUT", !.tests = tests])
        BY <2>7
      <3> HIDE DEF tests
      <3>2. PICK long \in BOOLEAN :
               log' = [[log EXCEPT !.status = "TIMEOUT", !.tests = tests] EXCEPT !.long = long]
        BY <3>1, PrintedLog
      <3>3. log' = [log EXCEPT !.status = "TIMEOUT", !.long = long, !.tests = tests]
        BY <3>2, <2>5
      <3> QED
        BY <2>3, <3>3 DEF tests
    <2> QED
      BY <2>4, <2>6, <2>7
  <1>4. CASE PrintResult
    <2>1. /\ ~Remaining /\ UNCHANGED <<language, question, kind, request, honest, outcome>>
          /\ stage = "running" /\ InputAccepted /\ stage' = "logged"
      BY <1>4 DEF PrintResult
    <2>5. PICK long \in BOOLEAN : log' = [[log EXCEPT !.status = "COMPLETED"] EXCEPT !.long = long]
      BY <1>4, PrintedLog DEF PrintResult
    <2>2. log' \in Logs /\ log'.tests = log.tests
      BY <2>5 DEF ComparisonInv, LogOK, Logs
    <2>3. honest => Len(log.tests) = Len(request)
      <3>1. Len(log.tests) \in Nat /\ Len(request) \in Nat
        BY <2>1, Sent DEF ComparisonInv, LogOK, Logs, RequestOK
      <3> QED
        BY <2>1, <3>1 DEF Remaining, ComparisonInv, HonestOK
    <2>4. HonestOK'
      BY <2>1, <2>2, <2>3 DEF ComparisonInv, HonestOK, Reported
    <2> QED
      BY <2>1, <2>2, <2>4, LogStep
  <1>5. CASE PrintFailure
    <2>1. log' = [NoLog EXCEPT !.status = "FAILED", !.fresh = TRUE]
      <3>1. NoLog \in Logs /\ NoLog.fresh
        BY DEF NoLog, Logs
      <3> QED
        BY <1>5, <3>1 DEF PrintFailure, Logs
    <2> QED
      BY <1>5, <2>1, EmptyLog, LogStep DEF PrintFailure
  <1>9. CASE RefuseInput
    BY <1>9, EmptyLog, LogStep DEF RefuseInput
  <1>6. CASE Misreport
    <2>1. PICK status \in {"COMPLETED", "FAILED", "TIMEOUT"}, fresh \in BOOLEAN, long \in BOOLEAN,
               tests \in BoundedSeq([id : TestId \cup {Alien}, visibility : {"public", "hidden"},
                                     ok : {TRUE}, error : {"none"},
                                     actual : {question[t].expected : t \in TestsOf(question)}],
                                    MaxReport) :
             log' = [status |-> status, fresh |-> fresh, long |-> long, tests |-> tests]
      BY <1>6 DEF Misreport
    <2>2. {question[t].expected : t \in TestsOf(question)} \subseteq Results
      BY DEF ComparisonInv, QuestionOK, Tests
    <2>3. tests \in Seq(Reports)
      <3> DEFINE X == [id : TestId \cup {Alien}, visibility : {"public", "hidden"},
                       ok : {TRUE}, error : {"none"},
                       actual : {question[t].expected : t \in TestsOf(question)}]
      <3>1. PICK n \in Nat : tests \in [1..n -> X]
        <4>1. tests \in BoundedSeq(X, MaxReport)
          OBVIOUS
        <4> HIDE DEF X
        <4> QED
          BY <4>1, ComparisonAssumption DEF BoundedSeq, SeqOf
      <3>2. \A i \in 1..n : tests[i] \in Reports
        <4>1. X \subseteq Reports
          BY <2>2 DEF Reports, Errors
        <4> HIDE DEF X
        <4> QED
          BY <3>1, <4>1
      <3> HIDE DEF X
      <3> QED
        BY <3>1, <3>2
    <2>4. log' \in Logs
      BY <2>1, <2>3 DEF Logs
    <2>5. HonestOK'
      BY <1>6 DEF Misreport, HonestOK
    <2> QED
      BY <1>6, <2>4, <2>5, LogStep DEF Misreport
  <1>7. CASE PersistObservation
    <2>1. UNCHANGED <<language, question, kind, request, log, honest>> /\ stage = "logged" /\ stage' = "over"
      BY <1>7 DEF PersistObservation
    <2>2. QuestionOK' /\ LogOK' /\ RequestOK' /\ HonestOK'
      BY <2>1 DEF ComparisonInv, QuestionOK, LogOK, RequestOK, HonestOK, Reported
    <2>3. StoredOK'
      <3>1. outcome' = Stored
        BY <1>7 DEF PersistObservation, Stored, Projection
      <3>2. Stored' = Stored
        BY <2>1, StoredStays
      <3> QED
        BY <2>1, <3>1, <3>2 DEF StoredOK
    <2> QED
      BY <2>2, <2>3 DEF ComparisonInv
  <1>8. CASE UNCHANGED cvars
    BY <1>8, StoredStays
       DEF cvars, ComparisonInv, QuestionOK, LogOK, RequestOK, HonestOK, Reported, StoredOK
  <1> QED
    BY <1>1, <1>2, <1>3, <1>4, <1>5, <1>6, <1>7, <1>8, <1>9 DEF ComparisonNext

LEMMA ComparisonInvariance == ComparisonSpec => []ComparisonInv
  BY InitComparisonInv, NextComparisonInv, PTL DEF ComparisonSpec

\* Whatever the sandbox prints, the count that is stored is the number of tests
\* that were answered, and the grade passed is given exactly when all were
\* (parse_runner_result, trusted_compare, finalize_submission).
THEOREM VerdictsAreEarned == ComparisonSpec => []VerdictIsEarned
  <1>1. ASSUME ComparisonInv
        PROVE  VerdictIsEarned
    <2>1. CASE stage = "over"
      BY <1>1, <2>1, StoredEarned DEF ComparisonInv, StoredOK, VerdictIsEarned
    <2>2. CASE stage # "over"
      BY <1>1, <2>2 DEF ComparisonInv, StoredOK, VerdictIsEarned, NoOutcome
    <2> QED
      BY <2>1, <2>2
  <1> QED
    BY <1>1, ComparisonInvariance, PTL

\* No test that is not public is shown, and none is sent with a run, whatever the
\* runner calls it (load_expected_tests, _candidate_tests, trusted_compare).
THEOREM NothingHiddenIsShown == ComparisonSpec => []HiddenStaysHidden
  <1>1. ASSUME ComparisonInv
        PROVE  HiddenStaysHidden
    <2>1. \A t \in outcome.public : question[t].visibility = "public"
      <3>1. CASE stage = "over"
        BY <1>1, <3>1, StoredEarned DEF ComparisonInv, StoredOK
      <3>2. CASE stage # "over"
        BY <1>1, <3>2 DEF ComparisonInv, StoredOK, NoOutcome
      <3> QED
        BY <3>1, <3>2
    <2>2. ASSUME kind = "RUN", NEW i \in 1..Len(request)
          PROVE  question[request[i].id].visibility = "public"
      <3> DEFINE X == [id : Chosen(TRUE), visibility : {"public", "hidden"}]
      <3>1. request = <<>> \/ request \in Seq(X)
        <4>1. request = <<>> \/ request = CandidateTests(question, TRUE)
          BY <1>1, <2>2 DEF ComparisonInv, RequestOK
        <4> QED
          BY <1>1, <4>1, Sent DEF ComparisonInv
      <3>2. request[i] \in X
        <4> HIDE DEF X
        <4> QED
          BY <2>2, <3>1
      <3> QED
        BY <3>2 DEF Chosen
    <2> QED
      BY <2>1, <2>2 DEF HiddenStaysHidden
  <1> QED
    BY <1>1, ComparisonInvariance, PTL

\* The result of a submission that the runner executed is refused only when it
\* did not take the request, its log is too long or the question has too many
\* tests or an unusable comparison: what the API sends and what the controller
\* expects agree (_candidate_tests, parse_runner_result, load_expected_tests).
THEOREM HonestSubmitIsCounted == ComparisonSpec => []HonestSubmitCounts
  <1>1. ASSUME ComparisonInv
        PROVE  HonestSubmitCounts
    <2>1. CASE stage = "over"
      BY <1>1, <2>1, HonestAccepted DEF ComparisonInv, StoredOK, HonestSubmitCounts
    <2>2. CASE stage # "over"
      BY <1>1, <2>2 DEF ComparisonInv, StoredOK, HonestSubmitCounts, NoOutcome, Refused
    <2> QED
      BY <2>1, <2>2
  <1> QED
    BY <1>1, ComparisonInvariance, PTL
=============================================================================
