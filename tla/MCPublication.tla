---------------------------- MODULE MCPublication ----------------------------
(* Publication on small instances. *)
EXTENDS Publication, TLC

\* Workers are interchangeable, and so are pages.
Symmetry == Permutations(Workers) \cup Permutations(Pages)

Fine == [outcome |-> "HTTP_RESPONSE", status |-> 200, html |-> TRUE, redirected |-> FALSE,
         title |-> "t", description |-> "d", canonical |-> {"u"}, robots |-> {}, links |-> 1]

\* A page in order, and without title; one with a title, out of the index and with two
\* canonical links; one that is gone; one that moved; one that robots.txt blocks.
SixAnswers ==
    {Fine,
     [Fine EXCEPT !.title = Absent, !.links = 2],
     [Fine EXCEPT !.canonical = {"u", "v"}, !.robots = {{"noindex"}, {}}],
     [Fine EXCEPT !.status = 404],
     [Fine EXCEPT !.status = 301, !.redirected = TRUE],
     [Fine EXCEPT !.outcome = "ROBOTS_BLOCKED"]}

\* One page more that answers makes half of the pages evaluated.  One with an issue is
\* less than a fifth of them at first, and more in the last run.
Shrinking == << [http |-> 5, other |-> 6], [http |-> 5, other |-> 6], [http |-> 3, other |-> 4] >>

\* Of the halves that occur, 12.5 points comes out of the doubles as less.
LostHalves == {<<"canonical_conflict", 1, 6>>}
=============================================================================
