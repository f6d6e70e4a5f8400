--------------------------- MODULE KnowledgeBank ---------------------------
(***************************************************************************)
(* The knowledge bank: archives parsed into bundles and merged             *)
(* (knowledge_ingestion.py, knowledge_bank.py), imported in one            *)
(* transaction (knowledge_store.py), published by an editor and shown to   *)
(* candidates (knowledge_routes.py, knowledge_catalog_routes.py).          *)
(*                                                                         *)
(* What matters of a record is the source it comes from, the rights        *)
(* disposition it was imported under and the length of its description: an *)
(* upsert keeps the longest.                                               *)
(***************************************************************************)
EXTENDS Naturals, Sequences, FiniteSets, SequencesExt

CONSTANTS
    Archive,      \* names of sources
    Key,          \* canonical keys of problems
    Digest,       \* a solution is its language and hash
    Bundle,       \* what parse_repository may return
    NoSource      \* no source

VARIABLES
    sources,      \* knowledge_sources.disposition by name
    problems,     \* knowledge_problems and knowledge_problem_sources by key
    solutions,    \* knowledge_solutions by key and digest
    articles,     \* knowledge_system_design_articles and learning resources by slug (a key)
    runs,         \* the payloads of completed knowledge_import_runs
    publishing    \* problems an editor's transaction found hostable

knowledgeVars == <<sources, problems, solutions, articles, runs, publishing>>

Dispositions == {"hostable_licensed", "external_reference_only", "rights_review_required",
                 "rejected_proprietary"}

(* What a record of a bundle says of a problem, of a solution, of a company *)
(* asking a problem, and of an article.                                    *)
ProblemObservation == [key : Key, source : Archive, disp : Dispositions, len : Nat]
SolutionObservation == [key : Key, source : Archive, disp : Dispositions, digest : Digest]
CompanyObservation == [key : Key, source : Archive]
SystemDesignObservation == ProblemObservation

ASSUME KnowledgeAssumption ==
    /\ NoSource \notin Archive
    /\ \A b \in Bundle :
          /\ b.disp \in Dispositions
          /\ b.problems \in Seq(ProblemObservation) /\ b.articles \in Seq(SystemDesignObservation)
          /\ b.solutions \subseteq SolutionObservation
          /\ b.companies \subseteq CompanyObservation /\ IsFiniteSet(b.companies)

(* _publication_state: how a new row enters the workflow.                  *)
PublicationState(d) ==
    CASE d = "hostable_licensed" -> [pub |-> "draft", review |-> "awaiting_technical_review"]
      [] d = "external_reference_only" -> [pub |-> "metadata_only", review |-> "rights_metadata_only"]
      [] d = "rejected_proprietary" -> [pub |-> "blocked", review |-> "rejected_for_rights_risk"]
      [] OTHER -> [pub |-> "draft", review |-> "rights_review_required"]

NoProblem == [pub |-> "absent", review |-> "absent", len |-> 0, body |-> "none", links |-> {}]
NoSolution == [source |-> NoSource, review |-> "absent", executable |-> FALSE]
NoArticle == [pub |-> "absent", review |-> "absent", body |-> "none"]

KnowledgeInit ==
    /\ sources = [s \in Archive |-> "none"]
    /\ problems = [k \in Key |-> NoProblem]
    /\ solutions = [k \in Key |-> [d \in Digest |-> NoSolution]]
    /\ articles = [k \in Key |-> NoArticle]
    /\ runs = {} /\ publishing = {}

-----------------------------------------------------------------------------
(* merge_bundles: of the problems with one key the longest description     *)
(* wins, the first of equals; the rest is united.  The merged corpus is    *)
(* under rights review, whatever its archives are.                         *)

LongerFirst(problem, other) == other.len > problem.len

MergedProblems(bundles) ==
    LET all == FlattenSeq([n \in DOMAIN bundles |-> bundles[n].problems])
        Best(k) == CHOOSE n \in DOMAIN all :
            /\ all[n].key = k
            /\ \A m \in DOMAIN all : all[m].key = k =>
                  ~LongerFirst(all[n], all[m]) /\ (m < n => LongerFirst(all[m], all[n]))
    IN  SetToSeq({all[Best(k)] : k \in {all[n].key : n \in DOMAIN all}})

MergeBundles(bundles) ==
    [disp |-> "rights_review_required",
     problems |-> MergedProblems(bundles),
     solutions |-> UNION {{s \in bundles[n].solutions : ~\E m \in 1..(n - 1) :
                             \E t \in bundles[m].solutions : t.key = s.key /\ t.digest = s.digest} :
                          n \in DOMAIN bundles},
     companies |-> UNION {bundles[n].companies : n \in DOMAIN bundles},
     articles |-> FlattenSeq([n \in DOMAIN bundles |-> bundles[n].articles])]

-----------------------------------------------------------------------------
(* KnowledgeBankImporter.                                                  *)

SourceNames(p) ==
    {p.problems[n].source : n \in DOMAIN p.problems} \cup {s.source : s \in p.solutions}
    \cup {c.source : c \in p.companies} \cup {p.articles[n].source : n \in DOMAIN p.articles}

(* _ensure_source: the payload's disposition is written for every source   *)
(* it names, before any record's own disposition is looked at.             *)
EnsuredSources(p) == [s \in Archive |-> IF s \in SourceNames(p) THEN p.disp ELSE sources[s]]

(* _upsert_problem: a known problem keeps its status and takes over a      *)
(* longer description, from whichever source.                              *)
UpsertProblem(rows, r) ==
    LET old == rows[r.key]
        new == [pub |-> PublicationState(r.disp).pub, review |-> PublicationState(r.disp).review,
                len |-> r.len, body |-> IF r.len = 0 THEN "none" ELSE r.disp, links |-> {r.source}]
    IN  [rows EXCEPT ![r.key] =
            IF old = NoProblem THEN new
            ELSE [old EXCEPT !.len = IF r.len > old.len THEN r.len ELSE old.len,
                             !.body = IF r.len > old.len THEN r.disp ELSE old.body,
                             !.links = old.links \cup {r.source}]]

(* _upsert_company_observation adds the problems no other record of the    *)
(* payload names, as references without a description.                     *)
ObservedProblems(p) ==
    LET known == {p.problems[n].key : n \in DOMAIN p.problems} \cup {s.key : s \in p.solutions}
    IN  SetToSeq({[key |-> c.key, source |-> c.source, disp |-> "external_reference_only", len |-> 0] :
                     c \in {o \in p.companies : o.key \notin known}})

ImportedProblems(p) == FoldLeft(UpsertProblem, problems, p.problems \o ObservedProblems(p))

(* _upsert_solution: a known solution stays with its first source file and *)
(* goes back to the review its new record asks for.                        *)
ImportedSolutions(p) ==
    [k \in Key |-> [d \in Digest |->
        LET given == {s \in p.solutions : s.key = k /\ s.digest = d} IN
        IF given = {} THEN solutions[k][d]
        ELSE LET s == CHOOSE s \in given : TRUE IN
             [source |-> IF solutions[k][d] = NoSolution THEN s.source ELSE solutions[k][d].source,
              review |-> PublicationState(s.disp).review,
              executable |-> s.disp = "hostable_licensed"]]]

(* _upsert_system_design, _upsert_resource: body and review status are     *)
(* replaced, the publication status is not.                                *)
ImportedArticles(p) ==
    FoldLeft(LAMBDA rows, r :
                [rows EXCEPT ![r.key] =
                    [pub |-> IF @ = NoArticle THEN PublicationState(r.disp).pub ELSE @.pub,
                     review |-> PublicationState(r.disp).review, body |-> r.disp]],
             articles, p.articles)

(* A solution of a problem that is neither in the payload nor stored       *)
(* raises, and the transaction is rolled back.                             *)
KnowsProblems(p) ==
    \A s \in p.solutions : \/ problems[s.key] # NoProblem
                           \/ \E n \in DOMAIN p.problems : p.problems[n].key = s.key

(* import_knowledge_payload: one transaction; a payload imported before, a *)
(* dry run and an error leave no trace.                                    *)
ImportPayload(p) ==
    /\ p \notin runs
    /\ KnowsProblems(p)
    /\ sources' = EnsuredSources(p)
    /\ problems' = ImportedProblems(p)
    /\ solutions' = ImportedSolutions(p)
    /\ articles' = ImportedArticles(p)
    /\ runs' = runs \cup {p}
    /\ UNCHANGED publishing

-----------------------------------------------------------------------------
(* publish_problem: two statements; an import may commit between them.     *)

(* Mutant: any source that is not rejected will do.                     *)
HostableBySomeSource(k) == \E s \in problems[k].links : sources[s] # "rejected_proprietary"
Hostable(k) == \E s \in problems[k].links : sources[s] = "hostable_licensed"

PublishProblemRead(k) ==
    /\ problems[k] # NoProblem /\ k \notin publishing
    /\ Hostable(k)
    /\ publishing' = publishing \cup {k}
    /\ UNCHANGED <<sources, problems, solutions, articles, runs>>

PublishProblemWrite(k) ==
    /\ k \in publishing
    /\ publishing' = publishing \ {k}
    /\ problems' = [problems EXCEPT ![k].pub = "published", ![k].review = "approved"]
    /\ solutions' = [j \in Key |-> [d \in Digest |->
          IF j = k /\ solutions[j][d] # NoSolution
             /\ sources[solutions[j][d].source] = "hostable_licensed"
          THEN [solutions[j][d] EXCEPT !.review = "approved"] ELSE solutions[j][d]]]
    /\ UNCHANGED <<sources, articles, runs>>

(* What the candidate routes return.                                       *)
Visible(k) == problems[k].pub \in {"published", "metadata_only"}
ShownSolution(k, d) == problems[k].pub = "published" /\ solutions[k][d].review = "approved"
Availability(k) ==
    IF problems[k].pub = "published"
    THEN IF \E d \in Digest : ShownSolution(k, d) /\ solutions[k][d].executable
         THEN "runnable" ELSE "hosted"
    ELSE IF problems[k].pub = "metadata_only" /\ problems[k].len > 0
    THEN "in_review" ELSE "reference_only"

(* Archives are imported one by one or merged into one corpus.             *)
Payloads == Bundle \cup {MergeBundles(<<a, b>>) : a \in Bundle, b \in Bundle}

KnowledgeNext ==
    \/ \E p \in Payloads : ImportPayload(p)
    \/ \E k \in Key : PublishProblemRead(k) \/ PublishProblemWrite(k)

KnowledgeSpec == KnowledgeInit /\ [][KnowledgeNext]_knowledgeVars

-----------------------------------------------------------------------------
(* A source under rights review or rejected is fail-closed                 *)
(* (NEXT_MILESTONE_CONTRACT.md, 3): what candidates are offered as hosted  *)
(* problem or shown as solution names a source that an import declared     *)
(* hostable, although sources change their disposition with every import   *)
(* and an import may commit in the middle of a publication.                *)
LicensedBySomeImport(s) == \E p \in runs : p.disp = "hostable_licensed" /\ s \in SourceNames(p)
HostedWasLicensed ==
    \A k \in Key :
        /\ Visible(k) /\ Availability(k) \in {"hosted", "runnable"} =>
              \E s \in problems[k].links : LicensedBySomeImport(s)
        /\ \A d \in Digest : ShownSolution(k, d) => LicensedBySomeImport(solutions[k][d].source)

(* `rejected_proprietary' cannot become candidate-hosted content           *)
(* (NEXT_MILESTONE_CONTRACT.md:45): the description of a published problem *)
(* was not taken from a rejected source.                                   *)
RejectedNeverHosted ==
    \A k \in Key : problems[k].pub = "published" => problems[k].body # "rejected_proprietary"
=============================================================================
