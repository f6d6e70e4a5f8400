----------------------------- MODULE MCPlatform -----------------------------
(***************************************************************************)
(* The parts of the platform around the execution path, for TLC in one     *)
(* run: content and its review, sources, the knowledge bank and the large  *)
(* corpus, accounts, mock interviews, the AI arena, competency evidence    *)
(* and study records.  Apart from content and imports they share no state; *)
(* `focus` names the part that takes steps.                                *)
(***************************************************************************)
EXTENDS ContentImport, SourceRegistry, MCKnowledgeBank, CorpusImport, Identity,
        MockInterview, AiArena, CandidateEvidence, StudyRecords

VARIABLE focus

-----------------------------------------------------------------------------
(* Content: one question; an uploader who also reviews, uploads with a     *)
(* duplicate, a rejected and a metadata-only record.                       *)
Roles == [k \in Kinds |-> IF k = "technical" THEN {"bob", "cy"} ELSE {"cy", "dee"}]
Complete(v, fails, score) ==
    [kind |-> "complete", v |-> v, hash |-> "i1", fails |-> fails, score |-> score]
Uploads ==
    {[by |-> "bob", method |-> "json", dry |-> FALSE,
      records |-> <<Complete("v1", {}, 96), Complete("x", {}, 10)>>],
     [by |-> "bob", method |-> "json", dry |-> FALSE,
      records |-> <<Complete("v1", {"security_check"}, 10),
                    [Complete("v1", {}, 10) EXCEPT !.kind = "metadata_draft"]>>],
     [by |-> "bob", method |-> "generation", dry |-> TRUE, records |-> <<Complete("v1", {}, 75)>>],
     [by |-> "bob", method |-> "generation", dry |-> FALSE, records |-> <<Complete("v1", {}, 10)>>]}

(* A collection of one or two batches, with and without an invalid URL.    *)
Reference(u, a) == [url |-> u, abstract |-> a]
Finds == {<<Reference("u1", TRUE), Reference("u2", FALSE)>>, <<Reference("u2", FALSE)>>,
          <<Reference("u1", FALSE), Reference("bad", FALSE)>>}

(* Files with repeated ids, fingerprints and concepts and an invalid row.  *)
CorpusRow(i, f, c, v) == [id |-> i, fp |-> f, concept |-> c, valid |-> v]
CorpusRows ==
    [b1 |-> <<CorpusRow("q1", "f1", "x", TRUE), CorpusRow("q1", "f9", "y", TRUE),
              CorpusRow("q2", "f1", "x", TRUE), CorpusRow("q3", "f2", "x", TRUE)>>,
     b2 |-> <<CorpusRow("q2", "f4", "y", FALSE), CorpusRow("q5", "f1", "x", TRUE)>>,
     b3 |-> <<CorpusRow("q4", "f6", "x", TRUE)>>]

Templates == [f \in {"de", "ai"} |-> IF f = "de" THEN <<"p1", "p2", "p3">> ELSE <<"q1">>]
Scores == [x \in AnswerKey \X {"p1", "p2", "p3", "q1"} |-> IF x[1] = "a" THEN 80 ELSE 41]

Difficulties == [w1 |-> "easy", w2 |-> "hard"]
Grades == {[passed |-> 4, tests |-> 5, ms |-> 500, quality |-> 85],
           [passed |-> 2, tests |-> 5, ms |-> 2500, quality |-> 50]}

Measured == [a |-> {"p", "q"}, b |-> {"p", "q"}, i |-> {"p"}]

Lines == {[file |-> "capture", line |-> n] : n \in 11..13} \cup {[file |-> "finalize", line |-> 5]}
Findings == <<[file |-> "capture", line |-> 12, severity |-> "blocker"],
              [file |-> "finalize", line |-> 5, severity |-> "major"]>>
EventKeys == {<<"w", "event">>, <<"m", "assistant">>, <<"m", "user">>}

-----------------------------------------------------------------------------
(* With the focus on imports the attachment importer and the local script  *)
(* rest, and one synchronisation and one assignment are left.              *)
Init ==
    /\ focus \in {"review", "import", "source", "knowledge", "corpus", "identity", "interview",
                  "arena", "evidence", "pr", "tutor", "progress", "engagement"}
    /\ syncs = (IF focus = "import" THEN MaxSyncs - 1 ELSE 0)
    /\ assigns = (IF focus = "import" THEN MaxAssigns - 1 ELSE 0)
    /\ ImportInit /\ SourceInit /\ KnowledgeInit /\ CorpusInit /\ IdentityInit
    /\ InterviewInit /\ ArenaInit /\ EvidenceInit /\ StudyInit
    /\ focus # "arena" => challenge = "w1"

ContentSteps ==
    \/ focus = "review" /\ ReviewNext /\ UNCHANGED imports
    \/ focus = "import" /\ ContentNext /\ script' = <<>> /\ \A v \in Attachment : version'[v] = Absent
StudySteps ==
    \/ focus = "pr" /\ ReviewPractice
    \/ focus = "tutor" /\ Tutoring
    \/ focus = "progress" /\ Progressing
    \/ focus = "engagement" /\ Engaging

learning == <<interviewVars, arenaVars, evidenceVars, studyVars>>
Next ==
    /\ UNCHANGED focus
    /\ \/ /\ ContentSteps
          /\ UNCHANGED <<sourceVars, knowledgeVars, corpusVars, identityVars, learning>>
       \/ /\ focus = "source" /\ SourceNext
          /\ UNCHANGED <<importVars, knowledgeVars, corpusVars, identityVars, learning>>
       \/ /\ focus = "knowledge" /\ KnowledgeNext
          /\ UNCHANGED <<importVars, sourceVars, corpusVars, identityVars, learning>>
       \/ /\ focus = "corpus" /\ CorpusNext
          /\ UNCHANGED <<importVars, sourceVars, knowledgeVars, identityVars, learning>>
       \/ /\ focus = "identity" /\ IdentityNext
          /\ UNCHANGED <<importVars, sourceVars, knowledgeVars, corpusVars, learning>>
       \/ /\ UNCHANGED <<importVars, sourceVars, knowledgeVars, corpusVars, identityVars>>
          /\ \/ focus = "interview" /\ InterviewNext /\ UNCHANGED <<arenaVars, evidenceVars, studyVars>>
             \/ focus = "arena" /\ ArenaNext /\ UNCHANGED <<interviewVars, evidenceVars, studyVars>>
             \/ focus = "evidence" /\ EvidenceNext /\ UNCHANGED <<interviewVars, arenaVars, studyVars>>
             \/ StudySteps /\ UNCHANGED <<interviewVars, arenaVars, evidenceVars>>

Spec == Init /\ [][Next]_<<importVars, sourceVars, knowledgeVars, corpusVars, identityVars, learning, focus>>
=============================================================================
