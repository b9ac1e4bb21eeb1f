--------------------------------- MODULE JobList ---------------------------------
(*****************************************************************************)
(* The lists a user reads: the jobs page, the jobs of companies, the saved   *)
(* jobs, and the digest made of the recommendations.                         *)
(*                                                                           *)
(* The job of a match has, besides what Ranking reads, [deleted, source,     *)
(* companyId, remote, low, high, years, dated, text, listings, url, saved]:  *)
(* text is the terms its title and description contain, saved the time it    *)
(* was saved.  A job without a match has base Unknown.  A filter is          *)
(* [source, place, remote, company, pay, years, days, skills].               *)
(*****************************************************************************)
EXTENDS Ranking

MaxTerms == 10

-------------------------------------------------------------------------------
(* JobRepository; rows come newest first *)

\* Unlike the filters of discovery, a job that lacks the attribute is left out.
Where(m, f) ==
    /\ ~m.job.deleted
    /\ f.source # Unknown => m.job.source = f.source
    /\ f.place # Unknown => f.place \subseteq m.job.location
    /\ f.remote # Unknown => m.job.remote = f.remote
    /\ f.company # Unknown => f.company \subseteq m.job.company
    /\ f.pay # Unknown => m.job.high # Unknown /\ m.job.high >= f.pay
    /\ f.years # Unknown => m.job.years # Unknown /\ m.job.years <= f.years
    /\ f.days # Unknown => m.job.dated /\ m.age <= f.days
    /\ ToSet(f.skills) \subseteq m.job.text

\* A page is a query of its own, and equal keys have no order (job_repository.py:131,
\* 157): here the rows are given in one, which every page keeps.
Page(rows, offset, limit) == [items |-> Take(rows, offset, limit), total |-> Len(rows)]

ListFiltered(rows, f, offset, limit) ==
    Page(KeptIf(rows, LAMBDA m : Where(m, f)), offset, limit)

ListByScore(rows, f, minScore, offset, limit) ==
    LET found == KeptIf(rows, LAMBDA m : m.base # Unknown /\ m.base >= minScore /\ Where(m, f))
    IN  Page(SortDown(found, Base(found)), offset, limit)

ListByCompanies(rows, ids, offset, limit) ==
    Page(KeptIf(rows, LAMBDA m : ~m.job.deleted /\ m.job.companyId \in ids), offset, limit)

CountOpenByCompany(rows, ids) ==
    [id \in ids |-> Quantify(DOMAIN rows, LAMBDA n : ~rows[n].job.deleted
                                                     /\ rows[n].job.companyId = id)]

ListSaved(rows, offset, limit) ==
    LET found == KeptIf(rows, LAMBDA m : m.job.saved # Unknown /\ ~m.job.deleted)
    IN  Page(SortDown(found, [n \in DOMAIN found |-> found[n].job.saved]), offset, limit)

-------------------------------------------------------------------------------
(* The jobs page *)

\* ranked_jobs: the first CandidateLimit rows, whatever the page.
RankedJobs(rows, s, f, minScore, offset, limit) ==
    LET found == ListByScore(rows, f, minScore, 0, CandidateLimit)
    IN  [items |-> Take(Rank(found.items, s), offset, limit), total |-> found.total]

ListJobs(rows, s, f, minScore, sort, offset, limit) ==
    LET asked == [f EXCEPT !.skills = Take(@, 0, MaxTerms)]
    IN  IF sort = "score" \/ minScore # Unknown
        THEN RankedJobs(rows, s, asked, IF minScore = Unknown THEN 0 ELSE minScore, offset, limit)
        ELSE ListFiltered(rows, asked, offset, limit)

-------------------------------------------------------------------------------
(* The digest *)

Band(score) ==
    IF score >= 85 * Point THEN "excellent" ELSE IF score >= 70 * Point THEN "strong" ELSE "potential"

SalaryText(job) == IF job.low = Unknown /\ job.high = Unknown THEN Unknown ELSE <<job.low, job.high>>

\* The primary listing, else the first, if any.
PrimaryListing(job) ==
    LET primary == KeptIf(job.listings, LAMBDA l : l.primary)
    IN  Take(primary \o job.listings, 0, 1)

ItemFromMatch(m, s) ==
    LET listing == PrimaryListing(m.job)
        reasons == Explanations(m, s)
    IN  [job |-> m.job, score |-> m.base, rank |-> Tenths(FinalScore(m, s)), band |-> Band(m.base),
         salary |-> SalaryText(m.job),
         source |-> IF listing = << >> THEN Unknown ELSE listing[1].source,
         url |-> IF listing = << >> THEN m.job.url
                 ELSE IF listing[1].url = Unknown THEN m.job.url ELSE listing[1].url,
         because |-> Take(reasons, 0, 1)]

\* The sections of the mail.
RenderBody(feed, item) ==
    LET section == [n \in 1 .. 3 |-> KeptIf(feed, LAMBDA m :
                        Band(m.base) = <<"excellent", "strong", "potential">>[n])]
    IN  [n \in 1 .. 3 |-> [k \in DOMAIN section[n] |-> item[section[n][k]]]]

\* What the digest is about.
Shortlist(rows, s, minScore, maxJobs) ==
    Recommended(rows, s, minScore, 0, IF maxJobs < 1 THEN 1 ELSE maxJobs).items

BuildDigest(feed, s) ==
    IF feed = << >> THEN Unknown
    ELSE RenderBody(feed, [m \in ToSet(feed) |-> ItemFromMatch(m, s)])
===============================================================================
