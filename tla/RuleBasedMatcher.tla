---------------------------- MODULE RuleBasedMatcher ----------------------------
(*****************************************************************************)
(* The rule scores of rule_based_matcher.py, in tenths: 0..1000 per          *)
(* component.  Titles, skills, companies, places and industries are          *)
(* normalized values, of which Within(a, b) says that the text of a occurs   *)
(* in that of b, and Likeness is title_similarity in percent.                *)
(*                                                                           *)
(* A profile is [roles, skills, years, mode, places, salary, floor, currency,*)
(* industries, avoided, favoured]; a job is [title, company, companyId,      *)
(* place, remote, hybrid, years, pay, currency, named, described, analysis], *)
(* where years is [min, max], named and described are the skills the title   *)
(* and the description mention, and analysis is Unknown or [title, required, *)
(* preferred, mode, industry, years, pay, currency].  A value that is not    *)
(* there is Unknown.                                                         *)
(*****************************************************************************)
EXTENDS Integers, Sequences, FiniteSetsExt

CONSTANTS Unknown, Within(_, _), Likeness(_, _)

Neutral == 500
Full == 1000

\* round(x, 1) of n / d, half to even.
RoundDiv(n, d) ==
    LET q == n \div d
        twice == 2 * (n % d)
    IN  IF twice < d \/ (twice = d /\ q % 2 = 0) THEN q ELSE q + 1

AtLeast(low, x) == IF x < low THEN low ELSE x
Analysed(job) == job.analysis # Unknown
Titles(job) ==
    {job.title} \union (IF Analysed(job) THEN {job.analysis.title} \ {Unknown} ELSE {})

-------------------------------------------------------------------------------

RoleScore(profile, job) ==
    IF profile.roles = {} THEN Neutral
    ELSE 10 * Max({Likeness(r, t) : r \in profile.roles, t \in Titles(job)})

\* Mutant of SkillShare: a skill both required and preferred counts twice.
SkillShareTwice(skills, required, preferred) ==
    LET total == 2 * Cardinality(required) + Cardinality(preferred \ required)
        covered == 2 * Cardinality(required \intersect skills)
                     + Cardinality(preferred \intersect skills)
    IN  RoundDiv(Full * covered, total)

\* What is required counts whole, what is preferred or in the stack half.
SkillShare(skills, required, preferred) ==
    LET total == 2 * Cardinality(required) + Cardinality(preferred \ required)
        covered == 2 * Cardinality(required \intersect skills)
                     + Cardinality((preferred \ required) \intersect skills)
    IN  RoundDiv(Full * covered, total)

SkillScore(profile, job) ==
    LET analysis == job.analysis
        text == job.named \union (IF job.described = Unknown THEN {} ELSE job.described)
        hits == Cardinality(profile.skills \intersect text)
    IN  IF profile.skills = {} THEN Neutral
        ELSE IF Analysed(job) /\ analysis.required \union analysis.preferred # {}
        THEN SkillShare(profile.skills, analysis.required, analysis.preferred)
        ELSE Min({Full, RoundDiv(Full * hits, Max({3, Cardinality(profile.skills) \div 2}))})

\* A bound the posting states, else the one its analysis found.
Bound(job, end) ==
    IF job.years[end] # Unknown THEN job.years[end]
    ELSE IF Analysed(job) THEN job.analysis.years[end] ELSE Unknown

ExperienceScore(profile, job) ==
    LET low == Bound(job, "min")
        high == Bound(job, "max")
    IN  IF profile.years = Unknown \/ (low = Unknown /\ high = Unknown) THEN Neutral
        ELSE IF low # Unknown /\ profile.years < low
        THEN AtLeast(0, Full - 250 * (low - profile.years))
        ELSE IF high # Unknown /\ profile.years > high
        THEN AtLeast(600, Full - 100 * (profile.years - high))
        ELSE Full

Overlaps(wanted, value) == \E w \in wanted : Within(w, value) \/ Within(value, w)

LocationScore(profile, job) ==
    IF job.remote /\ profile.mode # "ONSITE" THEN Full
    ELSE IF job.place = Unknown \/ profile.places = {} THEN Neutral
    ELSE IF Overlaps(profile.places, job.place) THEN Full ELSE 200

\* The pay and currency of the posting, or both of the analysis.
SalaryScore(profile, job) ==
    LET stated == IF job.pay = Unknown /\ Analysed(job) THEN job.analysis ELSE job
    IN  IF \/ stated.pay = Unknown
           \/ stated.currency # Unknown /\ stated.currency # profile.currency THEN Neutral
        ELSE IF profile.salary # Unknown /\ stated.pay >= profile.salary THEN Full
        ELSE IF profile.floor # Unknown THEN (IF stated.pay >= profile.floor THEN 700 ELSE 200)
        ELSE IF profile.salary # Unknown THEN 700 ELSE Neutral

JobMode(job) ==
    IF job.remote THEN "REMOTE" ELSE IF job.hybrid THEN "HYBRID"
    ELSE IF Analysed(job) THEN job.analysis.mode ELSE Unknown

WorkModeScore(profile, job) ==
    IF JobMode(job) = Unknown THEN Neutral
    ELSE IF profile.mode = "ANY" THEN 700
    ELSE IF profile.mode = JobMode(job) THEN Full
    ELSE IF <<profile.mode, JobMode(job)>> \in
              {<<"REMOTE", "HYBRID">>, <<"HYBRID", "REMOTE">>, <<"HYBRID", "ONSITE">>} THEN 700
    ELSE 0

IndustryScore(profile, job) ==
    IF ~Analysed(job) \/ profile.industries = {} THEN Neutral
    ELSE IF job.analysis.industry = Unknown THEN Neutral
    ELSE IF Overlaps(profile.industries, job.analysis.industry) THEN Full ELSE 0

CompanyScore(profile, job) ==
    IF job.company \in profile.avoided THEN 0
    ELSE IF job.company \in profile.favoured THEN Full ELSE Neutral

-------------------------------------------------------------------------------
(* The watchlist: a sequence of [id, name, priority, preferred, excluded] *)

TitleMatches(job, roles) ==
    \E r \in roles, t \in Titles(job) : Within(r, t) \/ Within(t, r) \/ Likeness(r, t) >= 60

\* The entries with the job's company id, else those with its name.
EntriesFor(job, watchlist) ==
    LET byId == {n \in DOMAIN watchlist :
                    job.companyId # Unknown /\ watchlist[n].id = job.companyId}
    IN  IF byId # {} THEN byId ELSE {n \in DOMAIN watchlist : watchlist[n].name = job.company}

Base(priority) == CASE priority = "HIGH" -> 900 [] priority = "LOW" -> 600 [] OTHER -> 750

\* The first of them decides.
WatchlistScore(job, watchlist) ==
    LET entry == watchlist[Min(EntriesFor(job, watchlist))]
    IN  IF EntriesFor(job, watchlist) = {} THEN Unknown
        ELSE IF TitleMatches(job, entry.excluded) THEN 0
        ELSE IF entry.preferred = {} THEN Base(entry.priority)
        ELSE IF TitleMatches(job, entry.preferred) THEN Min({Full, Base(entry.priority) + 100})
        ELSE Base(entry.priority) - 150

-------------------------------------------------------------------------------
(* score; the weights are the defaults of core/config.py *)

Component == {"role", "skill", "experience", "location", "salary", "workMode", "industry",
              "company", "watchlist"}

Weights == [role |-> 25, skill |-> 25, experience |-> 15, location |-> 10, salary |-> 10,
            workMode |-> 5, industry |-> 5, company |-> 5, watchlist |-> 10]

Scores(profile, job, watchlist) ==
    [role |-> RoleScore(profile, job), skill |-> SkillScore(profile, job),
     experience |-> ExperienceScore(profile, job), location |-> LocationScore(profile, job),
     salary |-> SalaryScore(profile, job), workMode |-> WorkModeScore(profile, job),
     industry |-> IndustryScore(profile, job), company |-> CompanyScore(profile, job),
     watchlist |-> WatchlistScore(job, watchlist)]

\* A company off the watchlist weighs in as neutral.
Overall(scores) ==
    LET Value(c) == IF scores[c] = Unknown THEN Neutral ELSE scores[c]
    IN  RoundDiv(MapThenSumSet(LAMBDA c : Weights[c] * Value(c), Component),
                 MapThenSumSet(LAMBDA c : Weights[c], Component))

Recommendation(overall) ==
    IF overall >= 900 THEN "MUST_APPLY" ELSE IF overall >= 750 THEN "STRONG_MATCH"
    ELSE IF overall >= 550 THEN "CONSIDER" ELSE IF overall >= 350 THEN "LOW_PRIORITY" ELSE "IGNORE"
===============================================================================
