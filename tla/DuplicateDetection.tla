-------------------------- MODULE DuplicateDetection --------------------------
(*****************************************************************************)
(* The fuzzy duplicate score and its two confidence bands:                   *)
(* services/duplicate_detection_service.py.                                  *)
(*                                                                           *)
(* How alike two values are (token sets, shingles, dates) is data: the       *)
(* constant operator Similarity gives each signal in percent, or Unknown     *)
(* where the source returns None.  What is done with the signals - the title *)
(* gate, the fixed denominator, the strict comparison, the two thresholds -  *)
(* is modelled exactly, in integers: a score is a weighted sum in units of   *)
(* 1/(100*TotalWeight), so no threshold comparison rounds.                   *)
(*****************************************************************************)
EXTENDS Naturals

CONSTANTS
    Similarity(_, _), \* candidate, stored job -> [Signal -> 0..100 or Unknown]
    Unknown,          \* None: the signal is unavailable
    Weight,           \* dedup_weight_*: [Signal -> Nat], in percent
    MinTitle,         \* dedup_min_title_similarity, in percent
    LinkThreshold,    \* dedup_link_threshold, in percent
    MergeThreshold    \* dedup_auto_merge_threshold, in percent

Signal == {"title", "description", "location", "postedDate"}
Verdict == {"DUPLICATE", "NEAR_DUPLICATE", "DISTINCT"}

TotalWeight ==
    Weight["title"] + Weight["description"] + Weight["location"] + Weight["postedDate"]

\* The weighted sum over the fixed denominator TotalWeight: an unavailable
\* signal contributes zero.
Score(candidate, existing) ==
    LET value == Similarity(candidate, existing)
        Part(s) == IF value[s] = Unknown THEN 0 ELSE Weight[s] * value[s]
    IN  Part("title") + Part("description") + Part("location") + Part("postedDate")

PassesTitleGate(candidate, existing) ==
    Similarity(candidate, existing)["title"] >= MinTitle

Reaches(score, threshold) == score >= threshold * TotalWeight

\* The band a best match falls into.
Band(score) ==
    IF Reaches(score, MergeThreshold) THEN "DUPLICATE"
    ELSE IF Reaches(score, LinkThreshold) THEN "NEAR_DUPLICATE"
    ELSE "DISTINCT"

(*****************************************************************************)
(* What decide() returns for the jobs stored[id], id \in ids, which it scans *)
(* newest (greatest id) first: the job with the highest positive score       *)
(* behind the title gate, the newest of them on a tie.                       *)
(*****************************************************************************)
Eligible(candidate, stored, ids) ==
    {i \in ids : /\ PassesTitleGate(candidate, stored[i].offer)
                 /\ Score(candidate, stored[i].offer) > 0}

Beats(candidate, stored, i, j) ==
    LET mine  == Score(candidate, stored[i].offer)
        other == Score(candidate, stored[j].offer)
    IN  mine > other \/ (mine = other /\ i >= j)

Best(candidate, stored, ids) ==
    LET eligible == Eligible(candidate, stored, ids)
    IN  {i \in eligible : \A j \in eligible : Beats(candidate, stored, i, j)}

NoMatch == 0

Decide(candidate, stored, ids) ==
    LET best == Best(candidate, stored, ids)
        job  == CHOOSE i \in best : TRUE
        band == Band(Score(candidate, stored[job].offer))
    IN  IF best = {} \/ band = "DISTINCT"
        THEN [verdict |-> "DISTINCT", job |-> NoMatch]
        ELSE [verdict |-> band, job |-> job]
===============================================================================
