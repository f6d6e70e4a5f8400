--------------------------- MODULE MCKnowledgeBank ---------------------------
(* A small instance of KnowledgeBank for TLC.                              *)
EXTENDS KnowledgeBank

(* A licensed and a rejected archive about the same problem, and one of    *)
(* references; merged they are under rights review.                        *)
Description(k, s, d, l) == [key |-> k, source |-> s, disp |-> d, len |-> l]
Solution(k, s, d) == [key |-> k, source |-> s, disp |-> d, digest |-> "d"]
Bundles ==
    {[disp |-> "hostable_licensed", problems |-> <<Description("k1", "a", "hostable_licensed", 1)>>,
      solutions |-> {Solution("k1", "a", "hostable_licensed")}, companies |-> {},
      articles |-> <<Description("k1", "a", "hostable_licensed", 1)>>],
     [disp |-> "rejected_proprietary", problems |-> <<Description("k1", "b", "rejected_proprietary", 2)>>,
      solutions |-> {Solution("k1", "b", "rejected_proprietary")},
      companies |-> {[key |-> "k2", source |-> "b"]}, articles |-> <<>>],
     [disp |-> "external_reference_only",
      problems |-> <<Description("k2", "c", "external_reference_only", 1)>>,
      solutions |-> {}, companies |-> {}, articles |-> <<>>]}
=============================================================================
