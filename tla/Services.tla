-------------------------------- MODULE Services --------------------------------
(*****************************************************************************)
(* The services that compute, and the two counters in Redis.  A behaviour    *)
(* is about one part: a call of an algorithm, which reads its input and      *)
(* answers, the loop of duplicate detection, or the callers of a counter.    *)
(*****************************************************************************)
EXTENDS DetectionLoop, SourceThrottle, RateLimit, Integers, Sequences, SequencesExt, FiniteSetsExt

CONSTANTS
    Within(_, _), Likeness(_, _), SkillKey(_), Tokens(_), Catalog,
    Skill,                  \* the spellings of skills
    CandidateLimit, MaxRoleKeys, MaxPerSource, Attempts,
    Hours, Relevant, CompanyLimit, Family, Sources,
    Casefold(_), Split(_), SplitSkill(_), Alias, CompanySuffix, Tracking, Text(_), EmploymentTypes,
    Upper(_), Verdicts, BaseDelay,
    Parts,                  \* bound: the parts a run looks at
    FeedInput,              \* [rows, signals, minScore]
    BrowseInput,            \* [rows, signals, filter, minScore, sort, companies]
    ScoreInput,             \* [profile, job, watchlist]
    FetchInput,             \* [configured, watched, answers, query]: an answer for
                            \* each token, or feed, in each attempt
    FilterInput,            \* [job, query]
    GapInput,               \* [version, profile, job, found, ai, roles, facts]
    ReportInput,            \* [jobs, now, range, ahead]
    KeysInput,              \* [title, skill, company, place, url, says]
    AskInput                \* [responses, maxRetries, overall, band, cached]

Algorithm == {"feed", "browse", "score", "fetch", "filter", "gap", "report", "keys", "ask"}
ASSUME PartAssumption == Parts \subseteq Algorithm \union {"detection", "throttle", "rate"}

Feed == INSTANCE JobList
Match == INSTANCE RuleBasedMatcher
Source == INSTANCE Connectors
Skills == INSTANCE SkillGap
Report == INSTANCE Analytics
Normal == INSTANCE TextKeys
Model == INSTANCE Models

\* Scores, weights and times are integers; the keys and skills of a job are finite
\* sets, and a user has one match of a job at most.
ASSUME FeedAssumption ==
    LET Listing(s) == s \in Seq(ToSet(s))
        Amount == Int \union {Unknown}
    IN  /\ MaxRoleKeys \in Nat /\ CandidateLimit \in Nat /\ Unknown \notin Int
        /\ \A f \in FeedInput \union BrowseInput :
               /\ Listing(f.signals) /\ Listing(f.rows)
               /\ \A s \in ToSet(f.signals) :
                      s.weight \in Int /\ IsFiniteSet(s.job.role) /\ IsFiniteSet(s.job.skills)
               /\ \A k, n \in DOMAIN f.rows : f.rows[k].job = f.rows[n].job => k = n
               /\ \A m \in ToSet(f.rows) : IsFiniteSet(m.job.role) /\ IsFiniteSet(m.job.skills)
        /\ \A f \in FeedInput : \A m \in ToSet(f.rows) : m.base \in Int
        /\ \A f \in BrowseInput :
               /\ IsFiniteSet(f.companies) /\ f.minScore \in Amount /\ Listing(f.filter.skills)
               /\ \A m \in ToSet(f.rows) : m.base \in Amount /\ m.job.saved \in Amount

\* A mail is never taken for no mail.
ASSUME DigestAssumption ==
    \A f \in FeedInput :
        Unknown \notin Seq(Seq({Feed!ItemFromMatch(m, f.signals) : m \in ToSet(f.rows)}))

\* Lists are lists of spellings; what the model suggests is a list, a quote words.
ASSUME GapAssumption ==
    LET Analysis == {Unknown} \union
                       [required : Seq(Skill), preferred : Seq(Skill), stack : Seq(Skill)]
        Extraction == [skills : Seq(Skill), technologies : Seq(Skill), projects : Seq(Seq(Skill))]
        Listing(s) == s \in Seq(ToSet(s))
    IN  /\ Catalog \in Seq(Skill)
        /\ \A g \in GapInput :
               /\ g.version \in {Unknown} \union
                                  [extraction : {Unknown} \union Extraction, text : SUBSET Skill]
               /\ g.profile \in Seq(Skill)
               /\ g.job \in [analysis : Analysis, current : BOOLEAN, text : SUBSET Skill]
               /\ Listing(g.ai.suggestions)
               /\ \A s \in ToSet(g.ai.suggestions) : Listing(Tokens(s.quote))

\* Amounts are naturals; the sets of a profile and a job are finite; the
\* watchlist is a list of entries.
ASSUME ScoreAssumption ==
    LET Amount == Nat \union {Unknown}
        Bounds(years) == years.min \in Amount /\ years.max \in Amount
    IN  /\ Unknown \notin Int
        /\ \A s \in ScoreInput :
               /\ IsFiniteSet(s.profile.roles) /\ IsFiniteSet(s.profile.skills)
               /\ \A r \in s.profile.roles, t \in Match!Titles(s.job) : Likeness(r, t) \in 0 .. 100
               /\ s.profile.years \in Amount /\ s.profile.salary \in Amount /\ s.profile.floor \in Amount
               /\ "skills" \in DOMAIN s.profile
               /\ {"pay", "currency", "analysis"} \subseteq DOMAIN s.job
               /\ IsFiniteSet(s.job.named)
               /\ s.job.described = Unknown \/ IsFiniteSet(s.job.described)
               /\ Bounds(s.job.years) /\ s.job.pay \in Amount
               /\ \/ s.job.analysis = Unknown
                  \/ /\ Bounds(s.job.analysis.years) /\ s.job.analysis.pay \in Amount
                     /\ IsFiniteSet(s.job.analysis.required) /\ IsFiniteSet(s.job.analysis.preferred)
               /\ s.watchlist \in Seq(ToSet(s.watchlist))
               /\ \A e \in ToSet(s.watchlist) :
                      DOMAIN e = {"id", "name", "priority", "preferred", "excluded"}

\* To casefold again changes nothing, and a word of a folded token is folded and
\* is not taken apart again; what an alias stands for is made of such words and is
\* no alias itself.  A URL is made of strings, as a literal is, which the provers have
\* to be told; capitals fold to what they are of.
ASSUME KeysAssumption ==
    LET Listing(s) == s \in Seq(ToSet(s))
        Url == [scheme : STRING, host : STRING, path : Seq(STRING),
                query : Seq(Seq(STRING)), fragment : STRING]
        Folds(token) == Casefold(Casefold(token)) = Casefold(token)
        Splits(words, SplitToken(_)) ==
            Listing(words) /\ \A w \in ToSet(words) : Casefold(w) = w /\ SplitToken(w) = <<w>>
    IN  /\ Unknown \notin Url
        /\ {Normal!Blank, "top", "x", "utm_source"} \subseteq STRING
        /\ \A alias \in DOMAIN Alias :
               Alias[alias] \notin DOMAIN Alias /\ Splits(Alias[alias], SplitSkill)
        /\ Split(Casefold("Ltd.")) = <<"ltd">> /\ "ltd" \in CompanySuffix
        /\ Casefold("utm_source") \in Tracking
        /\ \A k \in KeysInput :
               /\ Listing(k.title) /\ Listing(k.skill) /\ Listing(k.company)
               /\ \A t \in ToSet(k.title) \union ToSet(k.company) : Splits(Split(Casefold(t)), Split)
               /\ \A t \in ToSet(k.skill) : Splits(SplitSkill(Casefold(t)), SplitSkill)
               /\ k.place = Unknown \/ (Listing(k.place) /\ \A t \in ToSet(k.place) : Folds(t))
               /\ k.url = Unknown
                  \/ /\ k.url \in Url
                     /\ \A text \in {k.url.scheme, k.url.host} :
                            /\ Casefold(text) \in STRING /\ Upper(text) \in STRING /\ Folds(text)
                            /\ Casefold(Upper(text)) = Casefold(text)
                            /\ text = Normal!Blank <=> Casefold(text) = Normal!Blank
                            /\ text = Normal!Blank <=> Upper(text) = Normal!Blank

\* What a posting may leave out; one without a title or a company is no job.
Omittable == {"mode", "place", "pay", "currency", "years", "age"}

\* A posting has the attributes that are filtered by; the boards and the answers are
\* lists, of answers there is one to every board.
ASSUME FetchAssumption ==
    LET Listing(s) == s \in Seq(ToSet(s))
    IN  /\ MaxPerSource \in Nat /\ Attempts \in Nat \ {0} /\ Unknown \notin Int
        /\ \A f \in FilterInput :
               {"words", "tags", "company", "provider"} \union Omittable \subseteq DOMAIN f.job
        /\ \A f \in FetchInput :
               /\ Listing(f.configured) /\ Listing(f.watched)
               /\ Listing(f.answers) /\ Len(f.answers) > 0
               /\ f.query.limit \in Nat \union {Unknown}
               /\ \A b \in ToSet(Source!Boards(f.configured, f.watched)) :
                  \A a \in ToSet(f.answers) : a[b.token].body = Unknown \/ Listing(a[b.token].body)

\* A client that retries gets a response each time, of a kind it knows.
ASSUME AskAssumption ==
    /\ BaseDelay \in Nat \ {0} /\ Unknown \notin Int
    /\ \A a \in AskInput :
           /\ a.maxRetries \in Nat /\ a.band \in Verdicts
           /\ a.responses \in Seq(ToSet(a.responses)) /\ a.maxRetries < Len(a.responses)
           /\ \A r \in ToSet(a.responses) :
                  /\ r.status \in {"timeout", "network", "failing", "busy", "rejected", "ok"}
                  /\ r.after \in Nat \union {Unknown}
                  /\ r.body = Unknown \/ "verdict" \in DOMAIN r.body

\* The jobs of a report are finitely many and were there when it was made; an
\* application has one of the statuses there are.
ASSUME ReportAssumption ==
    /\ Hours \in Nat \ {0} /\ CompanyLimit \in Nat
    /\ \A r \in ReportInput :
           /\ IsFiniteSet(r.jobs) /\ r.now \in Int /\ r.range \in Nat \ {0} /\ r.ahead \in Int
           /\ \A j \in r.jobs :
                  /\ j.created \in Int /\ j.created <= r.now /\ j.company \in Int
                  /\ Report!IsTracked(j) => j.tracked.status \in Report!Status

VARIABLES
    part,    \* what this behaviour is about
    input,   \* of the algorithm
    output   \* Unknown until it has answered

callVars == <<part, input, output>>
servicesVars == <<callVars, vars, throttleVars, rateVars>>

InputOf(p) ==
    CASE p = "feed" -> FeedInput [] p = "browse" -> BrowseInput [] p = "score" -> ScoreInput
      [] p = "fetch" -> FetchInput [] p = "filter" -> FilterInput [] p = "gap" -> GapInput
      [] p = "report" -> ReportInput [] p = "keys" -> KeysInput [] p = "ask" -> AskInput
      [] OTHER -> {Unknown}

\* The loop that is not looked at is over.
NoDetection ==
    /\ candidate = NoDecision /\ stored = << >> /\ i = 0
    /\ best = NoMatch /\ bestScore = 0 /\ decision = NoDecision

ServicesInit ==
    /\ part \in Parts /\ input \in InputOf(part) /\ output = Unknown
    /\ IF part = "detection" THEN Init ELSE NoDetection
    /\ ThrottleInit /\ RateInit

-------------------------------------------------------------------------------
(* One call of each algorithm *)

Answers(p, value) ==
    /\ part = p /\ output = Unknown
    /\ output' = value
    /\ UNCHANGED <<part, input, vars, throttleVars, rateVars>>

\* A list read page by page, in pages of limit.
Pages(List(_, _), rows, limit) ==
    [n \in 1 .. Len(rows) \div limit + 1 |-> List((n - 1) * limit, limit)]

\* The recommendations, and the digest that mentions the first of them.
RankFeed ==
    /\ part = "feed"
    /\ \E limit \in 1 .. Len(input.rows) :
       \E feed \in {Feed!Shortlist(input.rows, input.signals, input.minScore, limit)} :
        Answers("feed",
            [pages |-> Pages(LAMBDA offset, l : Feed!Recommended(input.rows, input.signals,
                                 input.minScore, offset, l), input.rows, limit),
             digest |-> Feed!BuildDigest(feed, input.signals),
             mentions |-> limit])

BrowseJobs ==
    /\ part = "browse"
    /\ \E limit \in 1 .. Len(input.rows) :
        Answers("browse",
            [pages |-> Pages(LAMBDA offset, l : Feed!ListJobs(input.rows, input.signals,
                                 input.filter, input.minScore, input.sort, offset, l),
                             input.rows, limit),
             saved |-> Pages(LAMBDA offset, l : Feed!ListSaved(input.rows, offset, l),
                             input.rows, limit),
             atCompanies |-> Pages(LAMBDA offset, l : Feed!ListByCompanies(input.rows,
                                 input.companies, offset, l), input.rows, limit),
             open |-> Feed!CountOpenByCompany(input.rows, input.companies)])

ScoreJob ==
    Answers("score",
        LET scores == Match!Scores(input.profile, input.job, input.watchlist)
        IN  [scores |-> scores, overall |-> Match!Overall(scores),
             verdict |-> Match!Recommendation(Match!Overall(scores))])

\* The boards as each attempt finds them, and the feeds.
BoardAttempts ==
    [n \in DOMAIN input.answers |->
        Source!Asked(Source!Boards(input.configured, input.watched), input.answers[n])]
FeedAttempts ==
    [n \in DOMAIN input.answers |-> [m \in 1 .. 2 |-> input.answers[n][<<"t1", "t2">>[m]]]]

FetchSource ==
    Answers("fetch", [boards |-> Source!FromBoards(BoardAttempts, input.query),
                      feeds |-> Source!FromFeeds(FeedAttempts, input.query),
                      remoteOk |-> Source!FromRemoteOk(
                          [n \in DOMAIN input.answers |-> input.answers[n]["t1"]], input.query)])

FilterJob == Answers("filter", Source!Wanted(input.job, input.query))

CompareSkills ==
    Answers("gap",
        [page |-> IF input.version = Unknown THEN Unknown
                  ELSE Skills!PageGap(input.version, input.profile, input.job, input.found),
         assistant |-> Skills!AssistantGap(input.version, input.profile, input.job),
         ground |-> Skills!Ground(input.ai, input.roles, input.facts)])

BuildReport ==
    Answers("report",
        LET window == Report!Window(input.now, input.range, input.ahead)
        IN  [discovery |-> Report!Discovery(input.jobs, window),
             funnel |-> Report!Funnel(input.jobs, window),
             sources |-> Report!BySource(input.jobs, window),
             roles |-> Report!ByRole(input.jobs, window),
             companies |-> Report!ByCompany(input.jobs, window),
             series |-> Report!Series(input.jobs, window), stats |-> Report!Stats(input.jobs)])

NormalizeTexts ==
    Answers("keys",
        LET title == Normal!NormalizeTitle(input.title)
            place == Normal!NormalizeLocation(input.place)
        IN  [title |-> title, skill |-> Normal!NormalizeSkill(input.skill), place |-> place,
             company |-> Normal!NormalizeCompany(input.company),
             url |-> Normal!CanonicalizeUrl(input.url),
             hash |-> Normal!ComputeContentHash(title, input.company, place, Unknown),
             type |-> Normal!MapEmploymentType(input.says)])

AskModel ==
    Answers("ask",
        [retried |-> Model!CompleteWithRetries(input.responses, input.maxRetries),
         analysis |-> Model!Analyse(input.responses, input.maxRetries),
         match |-> Model!Explained(input.overall, input.band, input.responses[1]),
         remarks |-> Model!Remarks(input.cached, input.responses[1])])

DetectDuplicate ==
    part = "detection" /\ Next /\ UNCHANGED <<callVars, throttleVars, rateVars>>

Throttle == part = "throttle" /\ ThrottleNext /\ UNCHANGED <<callVars, vars, rateVars>>

CountRequests == part = "rate" /\ RateNext /\ UNCHANGED <<callVars, vars, throttleVars>>

ServicesNext ==
    \/ RankFeed \/ BrowseJobs \/ ScoreJob \/ FetchSource \/ FilterJob \/ CompareSkills \/ BuildReport
    \/ NormalizeTexts \/ AskModel
    \/ DetectDuplicate \/ Throttle \/ CountRequests

\* What SourceThrottle and RateLimit assume, of the behaviours about them.
ServicesSpec ==
    /\ ServicesInit /\ [][ServicesNext]_servicesVars
    /\ \A c \in Caller : WF_throttleVars(part = "throttle" /\ CallerStep(c))
    /\ WF_throttleVars(part = "throttle" /\ TickForSleeper)
    /\ WF_rateVars(part = "rate" /\ Tick)
    /\ \A c \in Client : WF_rateVars(part = "rate" /\ SetTtl(c))

-------------------------------------------------------------------------------
(* Properties *)

Answered(p) == part = p /\ output # Unknown

Items(pages) == FlattenSeq([n \in DOMAIN pages |-> pages[n].items])

\* The rows with the CandidateLimit best base scores of those that count.
Foremost(rows, Counts(_)) ==
    LET counted == {n \in DOMAIN rows : Counts(rows[n])}
        Before(l, k) == rows[l].base > rows[k].base \/ (rows[l].base = rows[k].base /\ l < k)
    IN  {rows[k] : k \in {n \in counted : Quantify(counted, LAMBDA l : Before(l, n)) < CandidateLimit}}

\* The best final score, as it is shown, first; of equal ones the best base score.
InOrder(items) ==
    LET Final(n) == Feed!Tenths(Feed!FinalScore(items[n], input.signals))
    IN  \A n \in 2 .. Len(items) :
            \/ Final(n - 1) > Final(n)
            \/ Final(n - 1) = Final(n) /\ items[n - 1].base >= items[n].base

\* Page by page, each of these is shown once, and each page tells how many.
Shows(pages, matches) ==
    /\ IsInjective(Items(pages)) /\ ToSet(Items(pages)) = matches
    /\ \A n \in DOMAIN pages : pages[n].total = Cardinality(matches)

\* Whatever the size of the pages, the recommendations show each candidate that
\* is not applied to, dismissed or hidden once, the best first; the digest
\* mentions the first of them once each, the better band first and in their
\* order within a band; the jobs page shows the newest, or the foremost, of those
\* that pass the filter, and the companies have as many jobs as they list
\* (ranking_service.py:318-374, daily_digest_service.py:104-253,
\* jobs.py:54-101, job_repository.py:23-197).
FeedIsWhole ==
    /\ Answered("feed") =>
        LET eligible == {m \in Foremost(input.rows, LAMBDA m :
                              m.base >= input.minScore /\ m.feedback # "NOT_RELEVANT"
                              /\ ~m.applied) : ~Feed!Excluded(m, input.signals)}
            feed == Items(output.pages)
            first == [n \in 1 .. Min({output.mentions, Len(feed)}) |-> feed[n].job]
            mail == IF output.digest = Unknown THEN << >> ELSE FlattenSeq(output.digest)
            Place(item) == Min({n \in DOMAIN first : first[n] = item.job})
        IN  /\ Shows(output.pages, eligible) /\ InOrder(feed)
            /\ Len(mail) = Len(first) /\ {item.job : item \in ToSet(mail)} = ToSet(first)
            /\ \A n \in 2 .. Len(mail) :
                   \/ mail[n - 1].score > mail[n].score /\ mail[n - 1].band # mail[n].band
                   \/ mail[n - 1].band = mail[n].band /\ Place(mail[n - 1]) <= Place(mail[n])
    /\ Answered("browse") =>
        LET least == IF input.minScore = Unknown THEN 0 ELSE input.minScore
            ByScore == input.sort = "score" \/ input.minScore # Unknown
            Passes(m) == Feed!Where(m, [input.filter EXCEPT !.skills = Feed!Take(@, 0, Feed!MaxTerms)])
            foremost == Foremost(input.rows, LAMBDA m :
                            m.base # Unknown /\ m.base >= least /\ Passes(m))
        IN  /\ IF ByScore THEN /\ IsInjective(Items(output.pages)) /\ InOrder(Items(output.pages))
                               /\ ToSet(Items(output.pages)) = foremost
               ELSE Shows(output.pages, {m \in ToSet(input.rows) : Passes(m)})
            /\ Shows(output.saved, {m \in ToSet(input.rows) : m.job.saved # Unknown
                                                              /\ ~m.job.deleted})
            /\ \A n \in DOMAIN output.atCompanies :
                   output.atCompanies[n].total
                       = MapThenSumSet(LAMBDA id : output.open[id], input.companies)

\* To like a job never lowers it, what was learned from other jobs included
\* (ranking_service.py:118-205): except where, before or after it, a similar role
\* stands in for the job's own, which was not learned or is not among the
\* MaxRoleKeys that are kept.
LikeNeverLowers ==
    Answered("feed") => \A n \in DOMAIN input.rows :
        LET m == input.rows[n]
            liked == Append(input.signals, [kind |-> "LIKE", weight |-> 10, job |-> m.job])
            StandsIn(s) == m.job.role \notin Feed!Roles(s) /\ Feed!RoleFor(s, m.job.role) # {}
        IN  \/ StandsIn(input.signals) \/ StandsIn(liked)
            \/ Feed!FinalScore(m, liked) >= Feed!FinalScore(m, input.signals)

\* "Ranked higher/lower because ..." (ranking_service.py:1-7: the deltas come
\* "each with a sentence explaining it"): the sentence says which way it went.
ExplanationsTruthful ==
    Answered("feed") => \A n \in DOMAIN input.rows :
        \A reason \in ToSet(Feed!Explanations(input.rows[n], input.signals)) :
            /\ reason.says = "higher" => reason.delta > 0
            /\ reason.says = "lower" => reason.delta < 0

\* The scores are fair: each between none and full, the overall between the
\* least and the greatest; a skill the job names, a higher pay or a watchlist
\* priority never counts against it (rule_based_matcher.py:75-307).  And the
\* model has no say in them: it decides the verdict when it answers with one,
\* and is asked again only after an error that may pass, as often as allowed and
\* no sooner than it said (ai_matcher.py:1-7, retry.py:18-47).
FairScores ==
    /\ Answered("score") =>
        LET scores == output.scores
            values == {IF scores[c] = Unknown THEN Match!Neutral ELSE scores[c] : c \in Match!Component}
            job == input.job
            named == job.named \union (IF job.described = Unknown THEN {} ELSE job.described)
            asked == IF Match!Analysed(job) /\ job.analysis.required \union job.analysis.preferred # {}
                     THEN job.analysis.required \union job.analysis.preferred ELSE named
            HigherUp == [n \in DOMAIN input.watchlist |->
                            [input.watchlist[n] EXCEPT !.priority = "HIGH"]]
        IN  /\ values \subseteq 0 .. Match!Full
            /\ Min(values) <= output.overall /\ output.overall <= Max(values)
            /\ input.profile.skills # {} => \A s \in asked :
                   Match!SkillScore([input.profile EXCEPT !.skills = @ \union {s}], job)
                       >= scores.skill
            /\ job.pay # Unknown =>
                   Match!SalaryScore(input.profile, [job EXCEPT !.pay = @ + 20]) >= scores.salary
            /\ scores.watchlist # Unknown =>
                   Match!WatchlistScore(job, HigherUp) >= scores.watchlist
    /\ Answered("ask") =>
        LET match == output.match
            calls == output.retried.calls
            Usable(n) == input.responses[n].status = "ok" /\ input.responses[n].body # Unknown
            called == 1 .. Min({calls, Len(input.responses)})
        IN  /\ match.overall = input.overall /\ match.verdict \in Verdicts
            /\ ~Usable(1) => match.verdict = input.band /\ output.remarks = input.cached
            /\ calls <= input.maxRetries + 1
            /\ \A n \in called \ {calls} : ~Usable(n) /\ input.responses[n].status # "rejected"
            /\ (\A n \in called : ~Usable(n)) => output.analysis = Unknown
            /\ \A n \in DOMAIN output.retried.delays :
                   /\ n < Len(output.retried.delays) =>
                          \/ output.retried.delays[n + 1] > output.retried.delays[n]
                          \/ input.responses[n].after # Unknown
                   /\ input.responses[n].status = "busy" /\ input.responses[n].after # Unknown =>
                          output.retried.delays[n] >= input.responses[n].after

\* One thing has one key, whatever is written around it: to normalize again
\* changes nothing, a company is the same with one more legal suffix, a link the
\* same in capitals, with a slash at its end, a fragment or a parameter that
\* tracks, and a web link stays one (normalization.py:52-172).
KeysStable ==
    Answered("keys") =>
        LET url == input.url
            disguised == [scheme |-> Upper(url.scheme), host |-> Upper(url.host),
                          path |-> url.path \o <<Normal!Blank>>,
                          query |-> <<<<"utm_source", "x">>>> \o url.query, fragment |-> "top"]
        IN  /\ Normal!NormalizeTitle(output.title) = output.title
            /\ Normal!NormalizeSkill(output.skill) = output.skill
            /\ Normal!NormalizeLocation(output.place) = output.place
            /\ Normal!NormalizeCompany(output.company) = output.company
            /\ output.company # << >> =>
                   Normal!NormalizeCompany(input.company \o <<"Ltd.">>) = output.company
            /\ Normal!ComputeContentHash(output.title, output.company, output.place, Unknown)
                   = output.hash
            /\ output.url # Unknown => Normal!CanonicalizeUrl(output.url) = output.url
            /\ Normal!IsWebUrl(url) => /\ Normal!IsWebUrl(output.url)
                                       /\ Normal!CanonicalizeUrl(disguised) = output.url

Without(posting, attribute) ==
    [posting EXCEPT ![attribute] =
        CASE attribute = "mode" -> "none"
          [] attribute = "years" -> [min |-> Unknown, max |-> Unknown]
          [] OTHER -> Unknown]

\* The connector of the source picks the posting, and the filters keep it.
Survives(posting, source, query) ==
    LET params == Source!Params(query)
    IN  CASE source = "boards" -> /\ Source!OnBoard(posting, params)
                                  /\ Source!Wanted(Source!NormalizeBoard(posting), query)
          [] source = "remoteok" -> /\ Source!InFeed(posting, params)
                                     /\ Source!Wanted(Source!NormalizeRemoteOk(posting), query)
          [] source = "feeds" -> /\ Source!InFeed(posting, params)
                                 /\ Source!Wanted(Source!NormalizeFeed(posting), query)

\* "exclude only on a DEFINITE mismatch. A job missing the filtered attribute is
\* kept" (normalization_service.py:16-17): to leave an attribute out hides a job
\* only where the code departs from that.  A search for remote jobs does not keep
\* one with no mode (normalization_service.py:48-49), and without its mode a
\* remote job is one whose place counts (:53-56); pay without a currency is
\* compared with a wish in any (:72-79); and a feed drops a posting without a
\* date when the age is limited (remoteok.py:96-99, weworkremotely.py:108-111).
\* Nothing else hides it, from the pick of the connector to the last filter.
\* A board is not hidden by another that fails, and what an attempt that
\* failed lost, the next attempt finds; a board that is watched is read, and once
\* where it is configured too (company_careers.py:10-11, boards.py:60-72).
NothingHidden ==
    /\ Answered("filter") =>
           LET job == input.job
               query == input.query
               Unmarked(attribute) ==
                   attribute = "mode" /\ (query.remote = "yes"
                                          \/ ~Source!WantedPlace(Without(job, "mode"), query))
           IN  \A attribute \in Omittable :
                   /\ output => \/ Source!Wanted(Without(job, attribute), query)
                                \/ Unmarked(attribute)
                                \/ attribute = "currency" /\ query.currency \notin {Unknown, job.currency}
                   /\ Survives(job, "boards", query) =>
                          Survives(Without(job, attribute), "boards", query) \/ Unmarked(attribute)
                   /\ \A feed \in {"remoteok", "feeds"} : Survives(job, feed, query) =>
                          \/ Survives(Without(job, attribute), feed, query)
                          \/ attribute = "age" /\ query.days # Unknown
    /\ Answered("fetch") =>
           LET params == Source!Params(input.query)
               Works(attempt) ==
                   LET chosen == Source!Chosen(attempt, params)
                   IN  chosen = << >> \/ \E b \in ToSet(chosen) : Source!FetchBoard(b).error = "none"
               works == {n \in DOMAIN BoardAttempts : n <= Attempts /\ Works(BoardAttempts[n])}
               boards == Source!Boards(input.configured, input.watched)
               Same(a, b) == a.provider = b.provider /\ a.token = b.token
           IN  /\ \A w \in ToSet(input.watched) : \A b \in ToSet(Source!BoardOf(w.company, w.url)) :
                      \E n \in DOMAIN boards : \A k \in DOMAIN boards : Same(boards[k], b) <=> k = n
               /\ works # {} =>
                   \/ Len(Source!SearchBoards(BoardAttempts[Min(works)], params).jobs) = params.limit
                   \/ \A b \in ToSet(BoardAttempts[Min(works)]) :
                          ToSet(Source!FromBoards(<< <<b>> >>, input.query))
                              \subseteq ToSet(output.boards)

\* The gap page and the prompt of the assistant, which tells the model that the
\* gap is "already computed - do not change", name the same skills whenever the
\* stored analysis is current, each asked skill once, and none the candidate
\* has is missing; no suggestion is kept whose quote shares nothing with the
\* candidate's facts (resume_gap_service.py:67-152, candidate_context.py:190-203).
GapsAgree ==
    Answered("gap") =>
        LET gap == output.assistant
            all == gap.matched \o gap.missing
            have == {SkillKey(s) : s \in ToSet(Skills!Listed(input.version, input.profile))}
        IN  /\ input.version # Unknown /\ input.job.current => output.page = gap
            /\ IsInjective([n \in DOMAIN all |-> SkillKey(all[n])])
            /\ {SkillKey(s) : s \in ToSet(gap.missing)} \intersect have = {}
            /\ \A s \in ToSet(output.ground.kept.suggestions) :
                   \/ Within(s.quote, input.facts)
                   \/ ToSet(Tokens(s.quote)) \intersect ToSet(Tokens(input.facts)) # {}

SumOver(series, field) == FoldSeq(LAMBDA point, sum : point[field] + sum, 0, series)

\* The panels of the overview agree: the days of the series and the role
\* families add up to the headline counts, in every time zone, and no row has
\* more relevant, tracked or interviewed jobs than jobs
\* (analytics_service.py:59-236, analytics_repository.py:22-119).
ReportsAddUp ==
    Answered("report") =>
        LET found == output.discovery.discovered
            RoleSum(key) == MapThenSumSet(LAMBDA f : output.roles[f][key], DOMAIN output.roles)
            Sound(row) == \A key \in {"relevant", "saved", "applied", "interviews"} :
                              row[key] <= row.found
        IN  /\ SumOver(output.series, "discovered") = found
            /\ SumOver(output.series, "matched") = output.discovery.matched
            /\ RoleSum("found") = found /\ RoleSum("relevant") = output.discovery.matched
            /\ \A s \in Sources : Sound(output.sources[s]) /\ output.sources[s].found <= found
            /\ \A c \in DOMAIN output.companies : Sound(output.companies[c])
            /\ output.funnel.rejected <= output.stats.byStatus["REJECTED"]
            /\ output.funnel.saved <= output.stats.total
            /\ Cardinality(DOMAIN output.companies) <= CompanyLimit

\* Nobody is held for ever: the caller of a source goes out in the end
\* (throttle.py:28-39), and whoever was refused for too many attempts is let in
\* again (deps.py:552-569), unless a crash cost the count its expiry.
WaitsEnd == CallersGo /\ LockoutEnds
===============================================================================
