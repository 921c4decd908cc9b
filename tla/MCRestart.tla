---------------------------- MODULE MCRestart ----------------------------
(* The machine behind caches, reset anywhere in a run or after it.         *)
EXTENDS Restart, MCSingleIssue

Cached == {"cached"}
==========================================================================
