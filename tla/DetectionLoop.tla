----------------------------- MODULE DetectionLoop -----------------------------
(*****************************************************************************)
(* DuplicateDetectionService.decide as the loop it is, checked against the   *)
(* declarative Decide of DuplicateDetection that the other modules use.      *)
(*****************************************************************************)
EXTENDS DuplicateDetection

CONSTANTS
    Posting,       \* what a normalized posting can look like
    MaxCandidates  \* dedup_max_candidates

ASSUME CandidatesAssumption ==
    /\ MaxCandidates \in Nat
    /\ Weight \in [Signal -> Nat]
    /\ \A c, e \in Posting : Similarity(c, e) \in [Signal -> (0 .. 100) \union {Unknown}]

VARIABLES
    candidate,  \* the posting being placed
    stored,     \* the stored jobs it is compared with; ids 1..n, newest is n
    i,          \* the id the loop looks at next, 0 when it is over
    best,       \* best_job, NoMatch when None
    bestScore,  \* best_score
    decision    \* the value returned, "none" before

vars == <<candidate, stored, i, best, bestScore, decision>>

NoDecision == [verdict |-> "none", job |-> NoMatch]

Init ==
    /\ candidate \in Posting
    /\ \E n \in 0..MaxCandidates : /\ stored \in [1..n -> [offer : Posting]]
                                   /\ i = n
    /\ best = NoMatch
    /\ bestScore = 0
    /\ decision = NoDecision

\* Mutant of Compare: a tie goes to the older job.
CompareOldestWins ==
    /\ i > 0
    /\ i' = i - 1
    /\ IF /\ PassesTitleGate(candidate, stored[i].offer)
          /\ Score(candidate, stored[i].offer) >= bestScore
       THEN best' = i /\ bestScore' = Score(candidate, stored[i].offer)
       ELSE UNCHANGED <<best, bestScore>>
    /\ UNCHANGED <<candidate, stored, decision>>

\* One turn of the for loop.
Compare ==
    /\ i > 0
    /\ i' = i - 1
    /\ IF /\ PassesTitleGate(candidate, stored[i].offer)
          /\ Score(candidate, stored[i].offer) > bestScore
       THEN /\ best' = i
            /\ bestScore' = Score(candidate, stored[i].offer)
       ELSE UNCHANGED <<best, bestScore>>
    /\ UNCHANGED <<candidate, stored, decision>>

Return ==
    /\ i = 0
    /\ decision = NoDecision
    /\ decision' =
         IF best = NoMatch THEN [verdict |-> "DISTINCT", job |-> NoMatch]
         ELSE [verdict |-> Band(bestScore),
               job |-> IF Band(bestScore) = "DISTINCT" THEN NoMatch ELSE best]
    /\ UNCHANGED <<candidate, stored, i, best, bestScore>>

Next == Compare \/ Return

Spec == Init /\ [][Next]_vars /\ WF_vars(Next)

-------------------------------------------------------------------------------

\* The declarative decision is what the scan of the candidates computes,
\* ties included (duplicate_detection_service.py:83-101).
LoopDecides == decision # NoDecision => decision = Decide(candidate, stored, DOMAIN stored)
===============================================================================
