------------------------ MODULE MCBranchPredictor ------------------------
(* Branches for the BranchPredictor runs.                                  *)
EXTENDS BranchPredictor

\* Two branches that share their counters and their BTB entry.
AliasedPCs == {{}, {1}}
==========================================================================
