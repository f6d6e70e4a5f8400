------------------------------ MODULE AiArena ------------------------------
(***************************************************************************)
(* The AI arena (ai_arena_routes.py, ai_arena_domain.py,                   *)
(* ai_arena_provider.py) of one candidate.  A candidate has code generated *)
(* for a challenge, submits it unmodified to the graded execution path and *)
(* has the pair finalized: it is scored, and the public rating goes up by  *)
(* what the score adds to the best earlier score of that question version. *)
(*                                                                         *)
(* Requests run on several server threads.  Generation is two transactions *)
(* around the provider call, so a generation in flight may be overtaken or *)
(* die.  Finalization is one transaction of several statements: it reads   *)
(* the best earlier score first and takes the profile row FOR UPDATE       *)
(* later.  What keeps another finalization of the candidate out in between *)
(* is the users row, which every transaction of the candidate locks with   *)
(* its first statement (principal_transaction, ensure_user); its advisory  *)
(* locks only name the generation and the submission.                      *)
(* A generation is named by its idempotency key.                           *)
(***************************************************************************)
EXTENDS Integers, FiniteSets, FiniteSetsExt, Functions

CONSTANTS
    ArenaVersion,     \* question versions the challenge may be published as
    Difficulty,       \* Difficulty[v]: easy, medium or hard
    ArenaKey,         \* idempotency keys of generations
    ArenaPrompt,      \* lengths of the prompts candidates send
    ArenaCode,        \* code a provider call, or its fallback, may answer with
    ArenaSubmission,  \* graded submissions
    Grade,            \* grades the execution path gives (see SubmitGenerated)
    ArenaThread,      \* server threads
    GenerationLimit,  \* arena_generation_limit_per_hour
    MaxHours,         \* bound: hours that pass
    NoArena           \* nothing

ASSUME ArenaAssumption ==
    /\ GenerationLimit \in Nat /\ MaxHours \in Nat /\ ArenaPrompt \subseteq Nat
    /\ IsFiniteSet(ArenaVersion)
    /\ \A v \in ArenaVersion : Difficulty[v] \in {"easy", "medium", "hard"}
    /\ \A g \in Grade : /\ g.tests \in Nat /\ g.passed \in 0..g.tests
                        /\ g.ms \in Int /\ g.quality \in 0..100

VARIABLES
    challenge,    \* the version the challenge is published as
    quota,        \* ai_arena_rate_limits.used in the current hour
    hours,        \* hours that passed
    generation,   \* ai_arena_generations: its version, prompt and code
    graded,       \* submissions with result and evaluation
    arenaResult,  \* ai_arena_results
    profile,      \* ai_arena_profiles: rating, solved_count, submission_count, tier
    call          \* the request each thread works on

arenaVars == <<challenge, quota, hours, generation, graded, arenaResult, profile, call>>

NoCall == [op |-> "none"]

-----------------------------------------------------------------------------
(* ai_arena_domain.                                                        *)

(* Python's round of n / d: halves go to the even neighbour.               *)
RoundHalfEven(n, d) ==
    LET q == n \div d
        r == 2 * (n % d)
    IN  IF r > d \/ (r = d /\ q % 2 = 1) THEN q + 1 ELSE q

PromptEfficiency(length) ==
    CASE length = 0     -> 0
      [] length <= 900  -> 5
      [] length <= 1600 -> 4
      [] length <= 2400 -> 2
      [] OTHER          -> 1

(* performance_score, against the budget of 2000 ms.                       *)
PerformanceScore(ms) ==
    CASE ms < 0     -> 0
      [] ms <= 500  -> 15
      [] ms <= 1000 -> 13
      [] ms <= 2000 -> 10
      [] ms <= 3000 -> 5
      [] OTHER      -> 0

ArenaScore(g, length) ==
    LET correctness == IF g.tests = 0 THEN 0 ELSE RoundHalfEven(70 * g.passed, g.tests)
    IN  correctness + PerformanceScore(g.ms) + RoundHalfEven(10 * g.quality, 100)
          + PromptEfficiency(length)

RatingContribution(d, score) ==
    LET maximum == [easy |-> 18, medium |-> 28, hard |-> 42]
    IN  IF score < 50 THEN 0 ELSE RoundHalfEven((score - 50) * maximum[d], 50)

FirstSolve(score, best) == score >= 70 /\ best < 70

(* best is -1 when the version has no result yet.                          *)
RatingDelta(d, score, best) ==
    Max({0, RatingContribution(d, score) - RatingContribution(d, best)})
      + (IF FirstSolve(score, best) THEN 5 ELSE 0)

TierForRating(rating) ==
    CASE rating >= 1700 -> "Diamond"
      [] rating >= 1450 -> "Platinum"
      [] rating >= 1250 -> "Gold"
      [] rating >= 1100 -> "Silver"
      [] OTHER          -> "Bronze"

-----------------------------------------------------------------------------
ArenaInit ==
    /\ challenge \in ArenaVersion
    /\ quota = 0 /\ hours = 0
    /\ generation = [k \in ArenaKey |-> NoArena]
    /\ graded = [s \in ArenaSubmission |-> NoArena]
    /\ arenaResult = {}
    /\ profile = [rating |-> 1000, solved |-> 0, submissions |-> 0, tier |-> "Bronze"]
    /\ call = [t \in ArenaThread |-> NoCall]

(* The next hourly window: _consume_generation_quota counts from 1 again.  *)
HourPasses ==
    /\ hours < MaxHours
    /\ hours' = hours + 1 /\ quota' = 0
    /\ UNCHANGED <<challenge, generation, graded, arenaResult, profile, call>>

(* The review workflow publishes another version of the challenge.         *)
Republish(v) ==
    /\ v # challenge
    /\ challenge' = v
    /\ UNCHANGED <<quota, hours, generation, graded, arenaResult, profile, call>>

(* The graded execution path: the candidate submits any code for a version *)
(* of the question and gets its grade: tests passed, runtime, quality.     *)
SubmitGenerated(s, v, code, g) ==
    /\ graded[s] = NoArena
    /\ graded' = [graded EXCEPT ![s] = [version |-> v, code |-> code, grade |-> g]]
    /\ UNCHANGED <<challenge, quota, hours, generation, arenaResult, profile, call>>

-----------------------------------------------------------------------------
(* Mutant: requests of one candidate overlap.                           *)
NoUserRow == TRUE

(* No transaction of the candidate is open: ensure_user's upsert would     *)
(* wait for it.  Only a finalization stays open over several steps here.   *)
UserRowFree == \A t \in ArenaThread : call[t].op # "finalize"

(* generate_arena_candidate.  A key that has its generation returns it, or *)
(* 409 for another request; over the limit is 429: neither changes state.  *)

GenerateStart(t, k, prompt) ==
    /\ call[t] = NoCall /\ UserRowFree
    /\ generation[k] = NoArena
    /\ quota < GenerationLimit
    /\ quota' = quota + 1
    /\ call' = [call EXCEPT ![t] = [op |-> "generate", key |-> k, prompt |-> prompt,
                                    version |-> challenge]]
    /\ UNCHANGED <<challenge, hours, generation, graded, arenaResult, profile>>

(* After the provider's answer, under the lock of the key: the generation  *)
(* of a duplicate that was faster stands, and a republished challenge      *)
(* discards the code.                                                      *)
GenerateStore(t, code) ==
    /\ call[t].op = "generate" /\ UserRowFree
    /\ LET c == call[t] IN
       generation' = IF generation[c.key] = NoArena /\ challenge = c.version
                     THEN [generation EXCEPT ![c.key] = [version |-> c.version, prompt |-> c.prompt,
                                                         code |-> code]]
                     ELSE generation
    /\ call' = [call EXCEPT ![t] = NoCall]
    /\ UNCHANGED <<challenge, quota, hours, graded, arenaResult, profile>>

-----------------------------------------------------------------------------
(* finalize_arena_submission.                                              *)

(* The two advisory locks.                                                 *)
PairFree(k, s) ==
    \A t \in ArenaThread : call[t].op = "finalize" => call[t].key # k /\ call[t].sub # s

(* _stored_result: a pair stored before is returned, and a generation or   *)
(* submission stored with another partner is 409.                          *)
StoredResult(k, s) == \E r \in arenaResult : r.key = k \/ r.sub = s

(* The submission is graded, of the generation's version and of its code.  *)
MatchingPair(k, s) ==
    /\ generation[k] # NoArena /\ graded[s] # NoArena
    /\ graded[s].version = generation[k].version
    /\ graded[s].code = generation[k].code

BestScore(v) == Max({-1} \cup {r.total : r \in {q \in arenaResult : q.version = v}})

(* The checks and the score, up to the rating delta.                       *)
FinalizeRead(t, k, s) ==
    /\ call[t] = NoCall /\ UserRowFree
    /\ PairFree(k, s) /\ ~StoredResult(k, s) /\ MatchingPair(k, s)
    /\ LET v == generation[k].version
           total == ArenaScore(graded[s].grade, generation[k].prompt)
       IN  call' = [call EXCEPT ![t] =
                      [op |-> "finalize", key |-> k, sub |-> s, version |-> v, total |-> total,
                       delta |-> RatingDelta(Difficulty[v], total, BestScore(v)),
                       solved |-> FirstSolve(total, BestScore(v))]]
    /\ UNCHANGED <<challenge, quota, hours, generation, graded, arenaResult, profile>>

(* The profile row, read FOR UPDATE, after the finalization c.             *)
RatedProfile(c) ==
    [rating |-> profile.rating + c.delta,
     solved |-> profile.solved + (IF c.solved THEN 1 ELSE 0),
     submissions |-> profile.submissions + 1,
     tier |-> TierForRating(profile.rating + c.delta)]

(* The profile and the result; commit.                                     *)
FinalizeWrite(t) ==
    /\ call[t].op = "finalize"
    /\ LET c == call[t] IN
       /\ profile' = RatedProfile(c)
       /\ arenaResult' = arenaResult \cup
            {[key |-> c.key, sub |-> c.sub, version |-> c.version, total |-> c.total,
              delta |-> c.delta, after |-> profile.rating + c.delta]}
    /\ call' = [call EXCEPT ![t] = NoCall]
    /\ UNCHANGED <<challenge, quota, hours, generation, graded>>

(* The process dies or the transaction is rolled back; a consumed quota    *)
(* stays consumed.                                                         *)
ArenaCallDies(t) ==
    /\ call[t] # NoCall
    /\ call' = [call EXCEPT ![t] = NoCall]
    /\ UNCHANGED <<challenge, quota, hours, generation, graded, arenaResult, profile>>

ArenaNext ==
    \/ HourPasses
    \/ \E v \in ArenaVersion :
         \/ Republish(v)
         \/ \E s \in ArenaSubmission, code \in ArenaCode, g \in Grade : SubmitGenerated(s, v, code, g)
    \/ \E t \in ArenaThread :
         \/ \E k \in ArenaKey, p \in ArenaPrompt : GenerateStart(t, k, p)
         \/ \E code \in ArenaCode : GenerateStore(t, code)
         \/ \E k \in ArenaKey, s \in ArenaSubmission : FinalizeRead(t, k, s)
         \/ FinalizeWrite(t)
         \/ ArenaCallDies(t)

ArenaSpec == ArenaInit /\ [][ArenaNext]_arenaVars

-----------------------------------------------------------------------------
(* Correctness.                                                            *)

(* What the best score of a version is worth.                              *)
Earned(v) == IF BestScore(v) < 0 THEN 0 ELSE RatingDelta(Difficulty[v], BestScore(v), -1)

(* Only the best score of a version counts: however finalizations arrive,  *)
(* repeat or die, the rating is 1000 plus, for every version with a        *)
(* result, the contribution of its best score and five points when that    *)
(* solves it, so repeating an equal score adds nothing; a generation or a  *)
(* submission is in at most one result, which judged that very code on     *)
(* that very version (finalize_arena_submission).                          *)
RatingIsEarned ==
    /\ profile.rating = 1000 + SumFunction([v \in ArenaVersion |-> Earned(v)])
    /\ \A r, q \in arenaResult : r.key = q.key \/ r.sub = q.sub => r = q
    /\ \A r \in arenaResult :
          /\ graded[r.sub].code = generation[r.key].code
          /\ graded[r.sub].version = generation[r.key].version
=============================================================================
