----------------------------- MODULE Assessment -----------------------------
(***************************************************************************)
(* What is concluded from the answers a site gives: the observation the    *)
(* executor makes of one answer, the verdicts of the issue rules on an     *)
(* observation, the events by which two observations of a page differ, and *)
(* the health score of a report.  Pure operators, used by Publication.     *)
(*                                                                         *)
(* An answer is the outcome of a fetch, the status of its first hop, and   *)
(* what the parser found: title and description (Absent, or a value), the  *)
(* targets of the canonical links, the directives of each robots source,   *)
(* the number of links.                                                    *)
(***************************************************************************)
EXTENDS Integers, FiniteSets

CONSTANT
    HalvesDown     \* <<rule, open, evaluated>> where the doubles fall below an exact half

Absent       == "absent"         \* null
Unresolvable == "unresolvable"   \* a canonical link that is no URL

Fields == {"title", "metaDescription", "canonical", "robots", "internalLinksCount"}

Rules == {"http_4xx_5xx", "noindex_on_indexable", "missing_title", "canonical_conflict"}

IsHttp(o) == o.outcome = "HTTP_RESPONSE"

IsError(status)   == status \in {404, 410} \/ status >= 500
IsSuccess(status) == status >= 200 /\ status < 300

-----------------------------------------------------------------------------
(* Observations. *)

\* synthesizeIndexState, with the page that gives no directive at all.
IndexState(sources) ==
    LET tokens == UNION sources
    IN  IF sources = {} THEN "ALLOWED"
        ELSE IF tokens = {} THEN "UNKNOWN"
        ELSE IF tokens \cap {"noindex", "none"} # {} THEN "DISALLOWED"
        ELSE "ALLOWED"

\* The answers that are parsed: pages of HTML that nobody redirected to.
Parsed(a) == IsHttp(a) /\ a.html /\ ~a.redirected /\ IsSuccess(a.status)

\* The observation of an answer; its fields hold values only where they are KNOWN.
Observe(a) ==
    [outcome  |-> a.outcome,
     status   |-> a.status,
     validity |-> [f \in Fields |-> IF Parsed(a) THEN "KNOWN"
                                    ELSE IF IsHttp(a) THEN "NOT_APPLICABLE" ELSE "UNKNOWN"],
     value    |-> [f \in Fields |->
                      IF ~Parsed(a) THEN Absent
                      ELSE CASE f = "title"           -> a.title
                             [] f = "metaDescription" -> a.description
                             [] f = "canonical"       -> a.canonical
                             [] f = "robots"          -> IndexState(a.robots)
                             [] OTHER                 -> a.links]]

-----------------------------------------------------------------------------
(* The issue rules. *)

Judged(fault) == IF fault THEN "PRESENT" ELSE "ABSENT"

\* evaluateAllRules.  The status is the one of the first hop (toRuleObservation).
Verdict(rule, o) ==
    CASE rule = "http_4xx_5xx" ->
            IF IsHttp(o) THEN Judged(IsError(o.status)) ELSE "UNKNOWN"
      [] rule = "noindex_on_indexable" ->
            IF o.validity["robots"] # "KNOWN" \/ o.value["robots"] = "UNKNOWN" THEN "UNKNOWN"
            ELSE Judged(o.value["robots"] = "DISALLOWED")
      [] rule = "missing_title" ->
            IF o.validity["title"] # "KNOWN" THEN "UNKNOWN" ELSE Judged(o.value["title"] = Absent)
      [] OTHER ->
            IF o.validity["canonical"] # "KNOWN" THEN "UNKNOWN"
            ELSE Judged(\/ Unresolvable \in o.value["canonical"]
                        \/ Cardinality(o.value["canonical"]) > 1)

-----------------------------------------------------------------------------
(* Change events. *)

TypeOf == [title           |-> "TITLE_CHANGED", metaDescription    |-> "META_DESCRIPTION_CHANGED",
           canonical       |-> "CANONICAL_CHANGED", robots         |-> "ROBOTS_CHANGED",
           internalLinksCount |-> "INTERNAL_LINKS_CHANGED"]

\* What is compared of a field: of the canonical links only those that resolve.
Compared(o, f) == IF f = "canonical" THEN o.value[f] \ {Unresolvable} ELSE o.value[f]

\* A field is compared when both observations know it.
BothKnown(before, after, f) == before.validity[f] = "KNOWN" /\ after.validity[f] = "KNOWN"

\* Mutation: a title that is missing on one side is not compared.
DifferIfTitled(before, after, f) ==
    /\ BothKnown(before, after, f)
    /\ f = "title" => Absent \notin {before.value[f], after.value[f]}
    /\ Compared(before, f) # Compared(after, f)

Differ(before, after, f) == BothKnown(before, after, f) /\ Compared(before, f) # Compared(after, f)

SeverityOf(before, after, f) ==
    CASE f = "robots"             -> IF after.value[f] = "DISALLOWED" THEN "CRITICAL" ELSE "INFO"
      [] f = "internalLinksCount" -> "INFO"
      [] OTHER                    -> "WARNING"

StatusDiffers(before, after) == IsHttp(before) /\ IsHttp(after) /\ before.status # after.status

Event(type, severity) == [type |-> type, severity |-> severity]

\* compareObservations, of a page that both runs observed.
Changes(before, after) ==
    {Event(TypeOf[f], SeverityOf(before, after, f)) : f \in {g \in Fields : Differ(before, after, g)}}
    \cup
    IF ~StatusDiffers(before, after) THEN {}
    ELSE {Event("HTTP_STATUS_CHANGED",
                IF IsSuccess(before.status) /\ IsError(after.status) THEN "CRITICAL" ELSE "INFO")}

\* A page that the baseline, if there is one, did not observe.
Added(hasBase) == IF hasBase THEN {Event("URL_ADDED", "INFO")} ELSE {}

-----------------------------------------------------------------------------
(* The health score, in whole numbers: a rule deducts its weight as soon as its *)
(* open issues are a fifth of the evaluated pages, and in proportion below.     *)

Weight(rule) == CASE rule = "http_4xx_5xx"         -> 40
                  [] rule = "noindex_on_indexable" -> 25
                  [] rule = "missing_title"        -> 20
                  [] OTHER                         -> 15

Least(a, b) == IF a <= b THEN a ELSE b

\* At least one page that answered, and at least half of those observed.
Sufficient(evaluated, observed) == evaluated >= 1 /\ 2 * evaluated >= observed

\* n / (2 * d), rounded; an exact half goes up unless the doubles fell below it.
Rounded(n, d, down) == IF down THEN (n + d - 1) \div (2 * d) ELSE (n + d) \div (2 * d)

\* Mutation: the share is not capped where it saturates.
DeductionUncapped(rule, open, evaluated) ==
    Rounded(2 * Weight(rule) * 5 * open, evaluated, <<rule, open, evaluated>> \in HalvesDown)

\* weight * min(1, rate / SATURATION_RATE), rounded.
Deduction(rule, open, evaluated) ==
    Rounded(2 * Weight(rule) * Least(evaluated, 5 * open), evaluated,
            <<rule, open, evaluated>> \in HalvesDown)

NoScore == -1   \* null

\* computeHealthScore; open counts the open issues of each rule.  The weights add
\* up to 100, so that the floor at 0 changes nothing.
Score(open, evaluated, observed) ==
    IF ~Sufficient(evaluated, observed) THEN NoScore
    ELSE LET D(rule) == Deduction(rule, open[rule], evaluated)
             rest    == 100 - D("http_4xx_5xx") - D("noindex_on_indexable")
                            - D("missing_title") - D("canonical_conflict")
         IN  IF rest >= 0 THEN rest ELSE 0
=============================================================================
