------------------------------- MODULE Analytics -------------------------------
(*****************************************************************************)
(* The overview of analytics_service.py, from the queries of                 *)
(* analytics_repository.py: several counts of the same jobs, cut by source,  *)
(* role family, company and day.  Times are hours from some midnight in UTC, *)
(* and the user's zone is ahead of it by some hours.                         *)
(*                                                                           *)
(* A job is [created, deleted, analysed, score, title, company, companyId,   *)
(* sources, tracked]; score is the user's match, company its name's place in *)
(* the alphabet, tracked the user's application [created, deleted, dated,    *)
(* applied, interviews, offer, status] or Unknown: dated says it has an      *)
(* appliedAt, offer that it ever had an offer, applied and interviews are    *)
(* the times of those events.                                                *)
(*****************************************************************************)
EXTENDS Integers, Sequences, FiniteSetsExt

CONSTANTS
    Unknown,
    Hours,         \* hours of a day
    Relevant,      \* analytics_relevant_min_score
    CompanyLimit,  \* analytics_company_limit
    Family,        \* the role families in the order their patterns are tried
    Sources        \* the job sources

-------------------------------------------------------------------------------
(* The window: range days, of which today is the last *)

LocalDay(time, ahead) == (time + ahead) \div Hours

\* Mutant of Window: the window opens at midnight in UTC.
WindowOfUtc(now, range, ahead) ==
    LET first == LocalDay(now, ahead) - (range - 1)
    IN  [since |-> first * Hours, days |-> [n \in 1 .. range |-> first + n - 1], ahead |-> ahead]

Window(now, range, ahead) ==
    LET first == LocalDay(now, ahead) - (range - 1)
    IN  [since |-> first * Hours - ahead, days |-> [n \in 1 .. range |-> first + n - 1],
         ahead |-> ahead]

\* A percentage in tenths, half to even; 0 of nothing.
Rate(part, whole) ==
    IF whole = 0 THEN 0
    ELSE LET q == (1000 * part) \div whole
             twice == 2 * ((1000 * part) % whole)
         IN  IF twice < whole \/ (twice = whole /\ q % 2 = 0) THEN q ELSE q + 1

-------------------------------------------------------------------------------
(* The queries; jobs is a set *)

InWindow(jobs, window) == {j \in jobs : ~j.deleted /\ j.created >= window.since}
IsRelevant(j) == j.score # Unknown /\ j.score >= Relevant
IsTracked(j) == j.tracked # Unknown /\ ~j.tracked.deleted

\* _ENGAGEMENT_COLUMNS, over any set of jobs.
Engagement(jobs) ==
    LET tracked == {j \in jobs : IsTracked(j)}
    IN  [found |-> Cardinality(jobs), relevant |-> Quantify(jobs, LAMBDA j : IsRelevant(j)),
         saved |-> Cardinality(tracked),
         applied |-> Quantify(tracked, LAMBDA j : j.tracked.dated),
         interviews |-> Quantify(tracked, LAMBDA j : j.tracked.interviews # {})]

DiscoveryRow(jobs, window) ==
    LET found == InWindow(jobs, window)
    IN  [discovered |-> Cardinality(found), analysed |-> Quantify(found, LAMBDA j : j.analysed),
         matched |-> Quantify(found, LAMBDA j : IsRelevant(j))]

\* The applications tracked in the window, of jobs of any age.
FunnelRow(jobs, window) ==
    LET saved == {j \in jobs : IsTracked(j) /\ j.tracked.created >= window.since}
    IN  [saved |-> Cardinality(saved), applied |-> Quantify(saved, LAMBDA j : j.tracked.dated),
         interviews |-> Quantify(saved, LAMBDA j : j.tracked.interviews # {}),
         offers |-> Quantify(saved, LAMBDA j : j.tracked.offer),
         rejected |-> Quantify(saved, LAMBDA j : j.tracked.status = "REJECTED")]

\* Every source has a row; a job counts in the row of each source that lists it.
SourceRows(jobs, window) ==
    [s \in Sources |-> Engagement({j \in InWindow(jobs, window) : s \in j.sources})]

TitleRows(jobs, window) ==
    LET found == InWindow(jobs, window)
    IN  [t \in {j.title : j \in found} |-> Engagement({j \in found : j.title = t})]

\* Rows by local day.
DailyJobs(jobs, window) ==
    LET found == InWindow(jobs, window)
        DayOf(j) == LocalDay(j.created, window.ahead)
        On(day) == {j \in found : DayOf(j) = day}
    IN  [day \in {DayOf(j) : j \in found} |->
            [discovered |-> Cardinality(On(day)),
             matched |-> Quantify(On(day), LAMBDA j : IsRelevant(j))]]

\* An application counts once on each day it has such an event.
DailyEvents(jobs, window) ==
    LET tracked == {j \in jobs : IsTracked(j)}
        Days(times) == {LocalDay(t, window.ahead) : t \in {u \in times : u >= window.since}}
        Had(day, kind) == Quantify(tracked, LAMBDA j : day \in Days(j.tracked[kind]))
    IN  [day \in UNION {Days(j.tracked.applied \union j.tracked.interviews) : j \in tracked} |->
            [applied |-> Had(day, "applied"), interviews |-> Had(day, "interviews")]]

Status == {"SAVED", "INTERESTED", "APPLIED", "ASSESSMENT", "INTERVIEW", "OFFER", "REJECTED",
           "WITHDRAWN"}

\* Of all applications, whenever they were tracked, by what they are now.
CountByStatus(jobs) ==
    [status \in Status |->
        Quantify(jobs, LAMBDA j : IsTracked(j) /\ j.tracked.status = status)]

-------------------------------------------------------------------------------
(* What the service makes of the rows *)

\* A row with more fields.
Joined(row, more) ==
    [key \in DOMAIN row \union DOMAIN more |-> IF key \in DOMAIN row THEN row[key] ELSE more[key]]

Discovery(jobs, window) ==
    LET row == DiscoveryRow(jobs, window)
    IN  Joined(row, [analysedRate |-> Rate(row.analysed, row.discovered),
                     matchedRate |-> Rate(row.matched, row.discovered)])

Funnel(jobs, window) ==
    LET row == FunnelRow(jobs, window)
    IN  Joined(row, [applyRate |-> Rate(row.applied, row.saved),
                     interviewRate |-> Rate(row.interviews, row.applied),
                     offerRate |-> Rate(row.offers, row.applied)])

BySource(jobs, window) ==
    [s \in Sources |->
        LET row == SourceRows(jobs, window)[s]
        IN  Joined(row, [relevanceRate |-> Rate(row.relevant, row.found),
                         applyRate |-> Rate(row.applied, row.relevant),
                         interviewRate |-> Rate(row.interviews, row.applied)])]

\* The first pattern a title matches, a title being the families it matches.
Classify(title) ==
    LET hits == {i \in DOMAIN Family : Family[i] \in title}
    IN  IF hits = {} THEN "other" ELSE Family[Min(hits)]

\* Folded from the titles; families without a title have no entry.
ByRole(jobs, window) ==
    LET rows == TitleRows(jobs, window)
        Sum(f, key) == MapThenSumSet(LAMBDA t : rows[t][key], {t \in DOMAIN rows : Classify(t) = f})
    IN  [f \in {Classify(t) : t \in DOMAIN rows} |->
            Joined([key \in {"found", "relevant", "saved", "applied", "interviews"} |-> Sum(f, key)],
                   [relevanceRate |-> Rate(Sum(f, "relevant"), Sum(f, "found")),
                    applyRate |-> Rate(Sum(f, "applied"), Sum(f, "relevant"))])]

\* By company id, or by name where the company is not resolved.
CompanyKey(j) == IF j.companyId = Unknown THEN <<Unknown, j.company>> ELSE <<j.companyId, 0>>

\* The companies the user has to do with, the most engaged first, then by name; of
\* those that are even the database picks.
ByCompany(jobs, window) ==
    LET found == InWindow(jobs, window)
        keys == {CompanyKey(j) : j \in {k \in found : IsRelevant(k) \/ IsTracked(k)}}
        JobsOf(key) == {j \in found : CompanyKey(j) = key}
        Rank(key) == LET e == Engagement(JobsOf(key))
                     IN  <<e.applied, e.interviews, e.relevant, e.found,
                           -Min({j.company : j \in JobsOf(key)})>>
        Before(a, b) ==
            \E n \in 1 .. 5 : /\ Rank(a)[n] > Rank(b)[n]
                              /\ \A m \in 1 .. n - 1 : Rank(a)[m] = Rank(b)[m]
        top == CHOOSE T \in SUBSET keys :
                   /\ Cardinality(T) = Min({CompanyLimit, Cardinality(keys)})
                   /\ \A a \in T, b \in keys \ T : ~Before(b, a)
    IN  [key \in top |-> Engagement(JobsOf(key))]

\* One point for each day of the window.
Series(jobs, window) ==
    LET made == DailyJobs(jobs, window)
        had == DailyEvents(jobs, window)
        At(rows, day, none) == IF day \in DOMAIN rows THEN rows[day] ELSE none
    IN  [n \in DOMAIN window.days |->
            Joined(At(made, window.days[n], [discovered |-> 0, matched |-> 0]),
                   At(had, window.days[n], [applied |-> 0, interviews |-> 0]))]

Stats(jobs) ==
    LET by == CountByStatus(jobs)
        total == MapThenSumSet(LAMBDA status : by[status], DOMAIN by)
    IN  [total |-> total, byStatus |-> by, rejectionRate |-> Rate(by["REJECTED"], total),
         conversionRate |-> Rate(by["OFFER"], total)]
===============================================================================
