-------------------------- MODULE MCCrawlExecutor --------------------------
(* Small sites for CrawlExecutor. *)
EXTENDS CrawlExecutor, TLC

CONSTANTS a, b, c     \* the entry page and two others

\* Executions are interchangeable.
Symmetry == Permutations(Executions)

\* The entry links to b and c; b links back and to c.  b and c may redirect to each other.
SiteLinks  == [u \in Urls |-> (CASE u = a -> {b, c} [] u = b -> {a, c} [] u = c -> {}) \cap Urls]
SiteTarget == [u \in Urls |-> CASE u = a -> b
                                [] u = b -> IF c \in Urls THEN c ELSE a
                                [] u = c -> b]
=============================================================================
