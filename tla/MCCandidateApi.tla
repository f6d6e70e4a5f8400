--------------------------- MODULE MCCandidateApi ---------------------------
(* Small instances of CandidateApi for TLC.                                *)
EXTENDS CandidateApi, TLC

ApiSymmetry == Permutations(Request) \cup Permutations(Session)
=============================================================================
