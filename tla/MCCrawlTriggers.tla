--------------------------- MODULE MCCrawlTriggers ---------------------------
(* CrawlTriggers on small instances; the day, the week and the five minutes of *)
(* the code are scaled to a few units of time.                                 *)
EXTENDS CrawlTriggers, TLC

\* Processes are interchangeable, and so are keys.
Symmetry == Permutations(Processes) \cup Permutations(Keys)
=============================================================================
