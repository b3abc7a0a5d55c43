----------------------------- MODULE MCCrawlRun -----------------------------
(* CrawlRun on small instances; one time unit stands for 30 seconds.         *)
EXTENDS CrawlRun, TLC

\* Worker processes are interchangeable.
Symmetry == Permutations(Workers)
=============================================================================
