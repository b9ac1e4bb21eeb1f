------------------------------ MODULE Connectors ------------------------------
(*****************************************************************************)
(* What one source contributes to a search: the upstream's answers, the      *)
(* connector that picks postings from them, normalization, and the filters   *)
(* of normalization_service.py.                                              *)
(*                                                                           *)
(* A posting is [words, tags, company, mode, years, pay, currency, place,    *)
(* age, hasId]: the words of its title, or Unknown without a title; the      *)
(* words its tags or category add; the age in days.  A query is [words,      *)
(* roles, remote, companies, years, pay, currency, days, places, limit].  A  *)
(* response is [status, body], and a board [company, provider, token].       *)
(*****************************************************************************)
EXTENDS Picked, Integers, Sequences, SequencesExt, FiniteSetsExt

CONSTANTS
    Unknown,        \* None: an attribute the posting lacks, a filter not asked for
    Within(_, _),   \* the normalized text of the one occurs in that of the other
    MaxPerSource,   \* discovery_max_jobs_per_source
    Attempts        \* discovery_retry_attempts

-------------------------------------------------------------------------------
(* The upstream *)

Error(kind) == [error |-> kind, jobs |-> << >>]
Answer(jobs) == [error |-> "none", jobs |-> jobs]
Retryable == {"unavailable", "rate limited"}

\* A body that is not of the expected shape is Unknown.
Get(response) ==
    CASE response.status \in {"timeout", "network", "too large", "not json", "failing"} ->
            Error("unavailable")
      [] response.status = "forbidden" -> Error("auth required")
      [] response.status = "busy" -> Error("rate limited")
      [] OTHER -> IF response.body = Unknown THEN Error("parse") ELSE Answer(response.body)

\* The n-th call sees answers[n]; the last answer stays.
Retried(answers) ==
    LET At(n) == answers[Min({n, Len(answers)})]
        final == {n \in 1 .. Attempts : At(n).error \notin Retryable} \union {Attempts}
    IN  At(Min(final))

-------------------------------------------------------------------------------
(* The boards of company career pages *)

\* A careers URL is [host, token, embed, for].
BoardOf(company, url) ==
    LET provider == CASE url.host \in {"boards.greenhouse.io", "job-boards.greenhouse.io"} ->
                            "greenhouse"
                      [] url.host \in {"jobs.lever.co", "jobs.eu.lever.co"} -> "lever"
                      [] OTHER -> Unknown
        token == IF provider = "greenhouse" /\ url.embed THEN url.for ELSE url.token
    IN  IF provider = Unknown \/ token = Unknown THEN << >>
        ELSE <<[company |-> company, provider |-> provider, token |-> token]>>

\* Configured boards come first, so they win over those of the watchlists.
MergeBoards(configured, watched) ==
    LET all == configured \o watched
        Key(i) == <<all[i].provider, all[i].token>>
    IN  Kept(all, {i \in DOMAIN all : \A j \in 1 .. i - 1 : Key(j) # Key(i)})

\* watched: the watched companies with a careers URL, as [company, url].
Boards(configured, watched) ==
    LET extra == FlattenSeq([n \in DOMAIN watched |-> BoardOf(watched[n].company, watched[n].url)])
    IN  IF extra = << >> THEN configured ELSE MergeBoards(configured, extra)

\* A board together with what its provider answers, by token.
Asked(boards, answers) ==
    [n \in DOMAIN boards |->
        [company |-> boards[n].company, provider |-> boards[n].provider,
         token |-> boards[n].token, response |-> answers[boards[n].token]]]

-------------------------------------------------------------------------------
(* The connectors *)

Params(query) ==
    [words |-> query.words \union query.roles, remote |-> query.remote,
     companies |-> query.companies, days |-> query.days,
     limit |-> IF query.limit = Unknown THEN MaxPerSource ELSE Min({query.limit, MaxPerSource})]

TitleWords(posting) == IF posting.words = Unknown THEN {} ELSE posting.words

OnBoard(posting, params) ==
    params.words = {} \/ params.words \intersect TitleWords(posting) # {}

\* Remote OK and We Work Remotely.
InFeed(posting, params) ==
    /\ params.days # Unknown => posting.age # Unknown /\ posting.age <= params.days
    /\ \/ params.words = {}
       \/ params.words \intersect (TitleWords(posting) \union posting.tags \union {posting.company}) # {}

Add(found, postings, limit) ==
    LET all == found \o postings IN SubSeq(all, 1, Min({limit, Len(all)}))

\* Every posting is remote; the first element of the answer is a notice.
SearchRemoteOk(response, params) ==
    LET got == Get(response)
    IN  IF params.remote = "no" THEN Answer(<< >>)
        ELSE [got EXCEPT !.jobs = Add(<< >>, KeptIf(@, LAMBDA p : p.hasId /\ InFeed(p, params)),
                                      params.limit)]

\* We Work Remotely: a feed that fails fails the source.
SearchFeeds(responses, params) ==
    LET Read(result, response) ==
            IF result.error # "none" \/ Len(result.jobs) = params.limit THEN result
            ELSE IF Get(response).error # "none" THEN Error(Get(response).error)
            ELSE Answer(Add(result.jobs, KeptIf(Get(response).jobs,
                                             LAMBDA p : InFeed(p, params)), params.limit))
    IN  IF params.remote = "no" THEN Answer(<< >>) ELSE FoldLeft(Read, Answer(<< >>), responses)

\* A posting of a board, which names its company.
OfBoard(posting, board) ==
    [key \in DOMAIN posting \union {"company", "provider"} |->
        IF key \in {"company", "provider"} THEN board[key] ELSE posting[key]]

FetchBoard(board) ==
    IF board.provider \notin {"greenhouse", "lever"} THEN Error("parse")
    ELSE LET got == Get(board.response)
         IN  [error |-> got.error,
              jobs |-> [n \in DOMAIN got.jobs |-> OfBoard(got.jobs[n], board)]]

Chosen(boards, params) ==
    KeptIf(boards, LAMBDA b : params.companies = {} \/ b.company \in params.companies)

ReadBoard(result, board, params) ==
    IF Len(result.jobs) = params.limit THEN result
    ELSE IF FetchBoard(board).error # "none" THEN [result EXCEPT !.failed = @ + 1]
    ELSE [result EXCEPT !.jobs = Add(@, KeptIf(FetchBoard(board).jobs,
                             LAMBDA p : OnBoard(p, params)), params.limit)]

\* Mutant of SearchBoards: the boards after one that fails are left out.
SearchBoardsUntilOneFails(boards, params) ==
    LET Read(result, board) ==
            IF result.failed > 0 THEN result ELSE ReadBoard(result, board, params)
    IN  Answer(FoldLeft(Read, [jobs |-> << >>, failed |-> 0], Chosen(boards, params)).jobs)

\* A board that fails is skipped; the source fails when all of them do.
SearchBoards(boards, params) ==
    LET chosen == Chosen(boards, params)
        result[n \in 0 .. Len(chosen)] ==
            IF n = 0 THEN [jobs |-> << >>, failed |-> 0]
            ELSE ReadBoard(result[n - 1], chosen[n], params)
        end == result[Len(chosen)]
    IN  IF end.failed > 0 /\ end.failed = Len(chosen) THEN Error("unavailable")
        ELSE Answer(end.jobs)

-------------------------------------------------------------------------------
(* Normalization.  No source states years of experience, and only Remote OK    *)
(* states pay, in US dollars.                                                   *)

NormalizeRemoteOk(posting) ==
    [posting EXCEPT !.mode = "remote", !.years = [min |-> Unknown, max |-> Unknown],
                    !.currency = IF posting.pay = Unknown THEN Unknown ELSE "USD"]

\* The company is what precedes the colon in the title.
NormalizeFeed(posting) ==
    [posting EXCEPT !.mode = "remote", !.years = [min |-> Unknown, max |-> Unknown],
                    !.pay = Unknown, !.currency = Unknown]

\* Greenhouse tells remote from the location and knows no hybrid.
NormalizeBoard(posting) ==
    [posting EXCEPT
        !.mode = IF @ = "hybrid" /\ posting.provider = "greenhouse" THEN "none" ELSE @,
        !.years = [min |-> Unknown, max |-> Unknown], !.pay = Unknown, !.currency = Unknown]

\* A payload that cannot be normalized is skipped.
Normalized(postings, source) ==
    LET whole == KeptIf(postings, LAMBDA p : p.words # Unknown /\ p.company # Unknown)
    IN  [n \in DOMAIN whole |->
            CASE source = "boards" -> NormalizeBoard(whole[n])
              [] source = "remoteok" -> NormalizeRemoteOk(whole[n])
              [] source = "feeds" -> NormalizeFeed(whole[n])]

-------------------------------------------------------------------------------
(* The filters *)

\* a is at most b, as far as both are known.
MayBeAtMost(a, b) == a = Unknown \/ b = Unknown \/ a <= b

\* Mutant of WantedPlace: a job that names no place is dropped.
WantedPlaceNamed(job, query) ==
    \/ query.places = {} \/ job.mode = "remote"
    \/ job.place # Unknown /\ \E place \in query.places : Within(place, job.place)

WantedPlace(job, query) ==
    \/ query.places = {} \/ job.mode = "remote" \/ job.place = Unknown
    \/ \E place \in query.places : Within(place, job.place)

WantedMode(job, query) ==
    /\ query.remote = "yes" => job.mode \in {"remote", "hybrid"}
    /\ query.remote = "no" => job.mode # "remote"

WantedCompany(job, query) ==
    \/ query.companies = {}
    \/ \E c \in query.companies : Within(c, job.company) \/ Within(job.company, c)

\* Pay in another currency is not compared.
WantedPay(job, query) ==
    \/ query.currency # Unknown /\ job.currency \notin {Unknown, query.currency}
    \/ MayBeAtMost(query.pay, job.pay)

Wanted(job, query) ==
    /\ WantedMode(job, query) /\ WantedPlace(job, query)
    /\ MayBeAtMost(job.years.min, query.years.max) /\ MayBeAtMost(query.years.min, job.years.max)
    /\ WantedPay(job, query) /\ MayBeAtMost(job.age, query.days) /\ WantedCompany(job, query)

-------------------------------------------------------------------------------
(* What reaches deduplication from a source *)

Delivered(result, query, source) ==
    KeptIf(Normalized(result.jobs, source), LAMBDA job : Wanted(job, query))

\* The boards, or the responses, as each attempt finds them.
FromBoards(attempts, query) ==
    Delivered(Retried([n \in DOMAIN attempts |-> SearchBoards(attempts[n], Params(query))]),
              query, "boards")

FromRemoteOk(answers, query) ==
    Delivered(Retried([n \in DOMAIN answers |-> SearchRemoteOk(answers[n], Params(query))]),
              query, "remoteok")

FromFeeds(attempts, query) ==
    Delivered(Retried([n \in DOMAIN attempts |-> SearchFeeds(attempts[n], Params(query))]),
              query, "feeds")

\* Health: a GET of the base URL.
Healthy(enabled, hasBase, response) ==
    enabled /\ hasBase /\ response.status \in {"ok", "not json"}
===============================================================================
