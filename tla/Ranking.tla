-------------------------------- MODULE Ranking --------------------------------
(*****************************************************************************)
(* The personalised order of a user's matches: what aggregate() learns from  *)
(* the signals of preference_signal_service.py and what score_match makes of *)
(* it in ranking_service.py.  Scores are in sixtieths of a point and signal  *)
(* weights in tenths, which makes every delta an integer.  A key (a role, a  *)
(* company, a place, a work mode) is a set of tokens, {} when a job has none.*)
(*                                                                           *)
(* A job is [role, company, location, mode, skills]; a signal is             *)
(* [kind, weight, job]; a match is [job, base, age, watch, standing,         *)
(* feedback, applied], age in days or Unknown; watch may be Unknown too.       *)
(*****************************************************************************)
EXTENDS Picked, Integers, Sequences, SequencesExt, FiniteSetsExt

CONSTANTS
    CandidateLimit,  \* ranking_candidate_limit
    MaxRoleKeys,     \* MAX_ROLE_KEYS
    Unknown

Point == 60
Abs(x) == IF x < 0 THEN -x ELSE x
Clamp(x, low, high) == IF x < low THEN low ELSE IF x > high THEN high ELSE x
SumOf(parts) == FoldSeq(LAMBDA part, sum : part.delta + sum, 0, parts)
Optional(condition, part) == IF condition THEN <<part>> ELSE << >>

-------------------------------------------------------------------------------
(* aggregate: the signals in the order they were recorded *)

Taught(s) == {i \in DOMAIN s : s[i].kind \notin {"HIDE_COMPANY", "HIDE_ROLE"}}
Hidden(s, kind, field) == {s[i].job[field] : i \in {j \in DOMAIN s : s[j].kind = kind}}

Keys(s, field) ==
    IF field = "skills" THEN UNION {s[i].job.skills : i \in Taught(s)}
    ELSE {s[i].job[field] : i \in Taught(s)} \ {{}}

Having(s, field, key) ==
    {i \in Taught(s) : IF field = "skills" THEN key \in s[i].job.skills
                       ELSE s[i].job[field] = key}

WeightOf(s, field, key) == MapThenSumSet(LAMBDA i : s[i].weight, Having(s, field, key))

\* The order of a sort by |weight| that keeps the order of first mention.
Stronger(s, field, a, b) ==
    LET x == Abs(WeightOf(s, field, a))
        y == Abs(WeightOf(s, field, b))
    IN  x > y \/ (x = y /\ Min(Having(s, field, a)) < Min(Having(s, field, b)))

Roles(s) ==
    {k \in Keys(s, "role") :
        Cardinality({l \in Keys(s, "role") : Stronger(s, "role", l, k)}) < MaxRoleKeys}

-------------------------------------------------------------------------------
(* score_match *)

\* token_jaccard(a, b) >= n / d.
Alike(a, b, n, d) ==
    a # {} /\ b # {} /\ d * Cardinality(a \intersect b) >= n * Cardinality(a \union b)

AtLeastAsAlike(role, a, b) ==
    Cardinality(role \intersect a) * Cardinality(role \union b)
        >= Cardinality(role \intersect b) * Cardinality(role \union a)

Excluded(m, s) ==
    \/ m.job.company # {} /\ m.job.company \in Hidden(s, "HIDE_COMPANY", "company")
    \/ m.job.role # {} /\ \E hidden \in Hidden(s, "HIDE_ROLE", "role") :
            hidden = m.job.role \/ Alike(hidden, m.job.role, 3, 4)

\* The exact role if it was learned, else the most similar one.
RoleFor(s, role) ==
    LET like == {k \in Roles(s) : Alike(k, role, 1, 2)}
    IN  IF role \in Roles(s) THEN {role}
        ELSE {k \in like : \A l \in like \ {k} :
                  /\ AtLeastAsAlike(role, k, l)
                  /\ AtLeastAsAlike(role, l, k) => Stronger(s, "role", k, l)}

\* The place with the most weight among those that contain or are contained.
PlaceFor(s, place) ==
    LET near == {k \in Keys(s, "location") : place # {} /\ (k \subseteq place \/ place \subseteq k)}
    IN  {k \in near : \A l \in near \ {k} : Stronger(s, "location", k, l)}

\* Mutant of Strength: the sign is lost on the way to the cap.
StrengthUnsigned(weight) == Min({Abs(weight), 30})

\* Three likes are full strength: a weight of 30 tenths.
Strength(weight) == Clamp(weight, -30, 30)
Says(weight) == IF weight > 0 THEN "higher" ELSE "lower"

\* Each learned delta with the direction its sentence states.
RolePart(m, s) ==
    Optional(m.job.role # {} /\ RoleFor(s, m.job.role) # {},
        LET k == CHOOSE key \in RoleFor(s, m.job.role) : TRUE
            w == WeightOf(s, "role", k)
        IN  [delta |-> (12 * Strength(w) * Cardinality(k \intersect m.job.role))
                           \div Cardinality(k \union m.job.role),
             says |-> Says(w)])

SkillPart(m, s) ==
    LET hits == m.job.skills \intersect Keys(s, "skills")
        total == MapThenSumSet(LAMBDA k : Strength(WeightOf(s, "skills", k)), hits)
        top == CHOOSE k \in hits : \A l \in hits :
                   Abs(WeightOf(s, "skills", k)) >= Abs(WeightOf(s, "skills", l))
    IN  Optional(hits # {}, [delta |-> 10 * Clamp(total, -30, 30),
                             says |-> Says(WeightOf(s, "skills", top))])

KeyPart(s, field, found, cap) ==
    Optional(found # {},
        LET w == WeightOf(s, field, CHOOSE key \in found : TRUE)
        IN  [delta |-> 2 * cap * Strength(w), says |-> Says(w)])

LearnedParts(m, s) ==
    RolePart(m, s) \o SkillPart(m, s)
    \o KeyPart(s, "company", {m.job.company} \intersect Keys(s, "company"), 4)
    \o KeyPart(s, "location", PlaceFor(s, m.job.location), 3)
    \o KeyPart(s, "mode", {m.job.mode} \intersect Keys(s, "mode"), 3)

Preference(m, s) == Clamp(SumOf(LearnedParts(m, s)), -15 * Point, 15 * Point)

Fact(points) == [delta |-> points * Point, says |-> "fact"]

FreshnessPart(m) ==
    IF m.age = Unknown \/ m.age > 14 THEN << >>
    ELSE <<Fact(IF m.age <= 2 THEN 6 ELSE IF m.age <= 7 THEN 4 ELSE 2)>>

CompanyParts(m) ==
    Optional(m.watch # Unknown, Fact(IF m.watch >= 90 THEN 5 ELSE IF m.watch >= 75 THEN 3 ELSE 2))
    \o Optional(m.standing = 100, Fact(3)) \o Optional(m.standing = 0, Fact(-10))

FeedbackPart(m) ==
    Optional(m.feedback = "POSITIVE", Fact(5)) \o Optional(m.feedback = "INTERESTED", Fact(3))
    \o Optional(m.feedback = "NEGATIVE", Fact(-15))

FinalScore(m, s) ==
    Clamp(m.base + Preference(m, s) + SumOf(FreshnessPart(m))
              + Clamp(SumOf(CompanyParts(m)), -10 * Point, 5 * Point) + SumOf(FeedbackPart(m)),
          0, 100 * Point)

\* round(final, 1), half to even.
Tenths(x) ==
    LET q == x \div 6
    IN  IF x % 6 < 3 \/ (x % 6 = 3 /\ q % 2 = 0) THEN q ELSE q + 1

Take(rows, offset, limit) == SubSeq(rows, offset + 1, Min({offset + limit, Len(rows)}))

\* The sequence in descending order of its keys, equal ones in the order they had.
SortDown(seq, key) ==
    LET numbered == {<<key[n], n>> : n \in DOMAIN seq}
        Before(p, q) == p[1] > q[1] \/ (p[1] = q[1] /\ p[2] <= q[2])
        Nth(n) == CHOOSE q \in numbered : Cardinality({p \in numbered : Before(p, q)}) = n
    IN  [n \in DOMAIN seq |-> seq[Nth(n)[2]]]

\* The three reasons with the largest deltas.
Explanations(m, s) ==
    LET reasons == LearnedParts(m, s) \o FreshnessPart(m) \o CompanyParts(m) \o FeedbackPart(m)
    IN  Take(SortDown(reasons, [n \in DOMAIN reasons |-> Abs(reasons[n].delta)]), 0, 3)

-------------------------------------------------------------------------------
(* RankingService; rows are the user's matches of jobs that are not deleted,  *)
(* in whatever order the database keeps equal scores in *)

\* By final score, then by base score; rows come in the order of their base.
Rank(rows, s) == SortDown(rows, [n \in DOMAIN rows |-> Tenths(FinalScore(rows[n], s))])
Base(rows) == [n \in DOMAIN rows |-> rows[n].base]

Candidates(rows, minScore) ==
    LET found == KeptIf(rows, LAMBDA m : /\ m.base >= minScore
                                         /\ m.feedback # "NOT_RELEVANT" /\ ~m.applied)
    IN  Take(SortDown(found, Base(found)), 0, CandidateLimit)

\* Mutant of Recommended: the hidden are dropped from the page alone.
RecommendedThenHidden(rows, s, minScore, offset, limit) ==
    LET ranked == Rank(Candidates(rows, minScore), s)
    IN  [items |-> KeptIf(Take(ranked, offset, limit), LAMBDA m : ~Excluded(m, s)),
         total |-> Len(ranked)]

Recommended(rows, s, minScore, offset, limit) ==
    LET ranked == Rank(KeptIf(Candidates(rows, minScore), LAMBDA m : ~Excluded(m, s)), s)
    IN  [items |-> Take(ranked, offset, limit), total |-> Len(ranked)]
===============================================================================
