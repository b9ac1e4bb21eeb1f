# hyrebolt backend: TLA+ specifications

A formal model of the backend under `src/app`: job discovery and the
deduplicated catalogue, the daily agent and its digest, analyses and matches,
what a user does with jobs, resumes, drafts and sessions, the ranking and the
other services that compute, and the two counters in Redis. TLC checks the
modules on small instances; TLAPS proves safety properties for every instance.

`PROJECT.json` lists the components, runs, mutants, the source lines of every
definition, findings, hazards and theorems.

## 1. The system

A FastAPI process and one or more arq workers share a PostgreSQL database (via
Prisma) and Redis. Each request or task is one asyncio coroutine; it is
interleaved with all the others at every `await`, across processes, and nearly
every method is a sequence of separate database calls without a transaction.

| component | state | operations | interacts with | module |
|---|---|---|---|---|
| Duplicate detection | none | `score`, `decide` | called by deduplication | `DuplicateDetection`, `DetectionLoop` |
| Catalogue / deduplication | `Job`, `JobSourceListing`, `Company` | `persist_batch` | discovery; read by everything | `JobCatalog`, `Deduplication` |
| Discovery | `SearchRun` | `run_search` | connectors (concurrently), deduplication | `Discovery` |
| Connectors, normalization | none | search, retry, normalize, filter | upstreams, watchlist | `Connectors`, `TextKeys` |
| Agent pipeline | arq queue, `agent:daily_search:<date>` | four tasks and their chain | discovery, analysis, matching, digest | `AgentPipeline` |
| Daily digest | `Notification` | `send_for_user` | ranking (reads), e-mail, Telegram | `Digest`, `JobList` |
| Analysis and matching | `JobAnalysis`, `JobMatch` | analyse, match, re-score, feedback | language model, watchlist, profile | `Matching`, `RuleBasedMatcher`, `Models` |
| Companies / watchlist | `Company`, `CompanyWatchlist` | add, update, remove | marks matches stale, re-scores them | `Matching` |
| Applications | `Application`, `ApplicationEvent` | track, change status, events | preference signals | `Activity` |
| Signals, saved jobs | `UserPreferenceSignal`, `SavedJob` | record, remove, reset | jobs API, applications | `Activity`, `Ranking` |
| Ranking, job lists | none | learn, rank, filter, page | reads matches, signals, jobs | `Ranking`, `JobList` |
| Resumes | `Resume`, `ResumeVersion`, analyses, gaps, files | upload, select, analyse, compare, delete | jobs, language model | `Documents`, `SkillGap` |
| Application assistant | `ApplicationDraft` | generate, save | resumes, language model | `Documents` |
| Sessions | refresh tokens in Redis | register, log in, refresh, revoke | users | `Sessions` |
| Throttle, rate limit | counters in Redis | wait, refuse | connectors, API | `SourceThrottle`, `RateLimit` |
| Reports | none | overview, funnel, series | reads jobs, applications | `Analytics` |

What is hard here: overlapping runs between a lookup and the write it leads to
(deduplication, digest, watchlist, verdicts, tokens); external effects recorded
after the fact (messages, files, answers of the language model); tries that
meet the traces of one that was cut off (date key, `PENDING` rows); tasks
cancelled between two steps; deterministic job ids that somebody else has used
up; caches compared by time stamps; thresholds, ties, missing attributes and
window edges in what computes. The `hazards` of `PROJECT.json` give each one at
its line with the properties that watch it.

What makes each component correct:

- Detection: the scan picks the best job above the title gate, the newest on a
  tie, and merges only on positive evidence.
- Catalogue: each job has one primary listing; a posting once known keeps its
  job; links between near duplicates point to older jobs; a run's counts add up;
  nothing in a batch keeps the postings after it from being listed.
- Discovery: a closed row tells the truth about sources and counts, only the
  error path writes it again, and a search that can go on closes it.
- Connectors: a job is hidden only by a definite mismatch, but for the cases in
  which the code hides it for what it leaves out; a board is never hidden by
  another that fails; a key normalized again stays the same.
- Pipeline: a date is searched at most once, the chain keeps its order, every
  job ends.
- Digest: one row per user, date and channel; a message goes out at most once,
  or it is known when it may go out twice; no user's failure sinks the others.
- Matching: a change of the watchlist invalidates what was scored before it, but
  for races that are known; feedback survives re-scoring; no job starves.
- Activity: signals say what the user did; a judged job keeps a verdict; an
  application that is APPLIED is dated, in its timeline and taught.
- Documents: no row without its file; a gap shown as fresh is that of the newest
  analyses; a draft shown as current was made from the resume that was selected
  when the request looked.
- Sessions: a token is rotated once; a replay ends all tokens.
- Throttle: at most `per_minute` calls per window, and nobody waits for ever.
- Ranking, scores, gaps, reports: pages show each job once and in order; a like
  lowers nothing; scores are monotone; two computations of one thing agree.

## 2. Modules

```
DuplicateDetection <--EXTENDS-- DetectionLoop
       ^ EXTENDS                      ^
Deduplication --INSTANCE--> JobCatalog|(abstract)
   ^      ^                           |
   |      +--INSTANCE-- Discovery     |
MCDeduplication          ^            |
                   MCDiscovery        |
                                      |
AgentPipeline      Digest <- MCDigest |     Matching <- MCMatching
                                      |
UserData --EXTENDS-- Activity         |
   |----INSTANCE---> Documents        |
   +----INSTANCE---> Sessions         |
                                      |
Services --EXTENDS--------------------+
   |------EXTENDS--> SourceThrottle, RateLimit
   +-----INSTANCE--> JobList --EXTENDS--> Ranking --EXTENDS--> Picked
   |                 SkillGap, Connectors, TextKeys --EXTENDS--> Picked
   |                 RuleBasedMatcher, Analytics, Models
MCServices
```

The proofs are in modules that extend the one they are about:
`DeduplicationProofs`; `DiscoveryProofs`, which takes it by `INSTANCE`;
`PipelineProofs` (on `AgentPipeline` and `Matching`), `DigestProofs`,
`SessionsProofs`; `UserDataProofs` (on `Activity`, `Documents` and, by `INSTANCE` of
its proofs, `Sessions`); `ServicesProofs` (on the skill gaps, the rule scores, the
model's calls, the learned deltas, the overview's panels, `SourceThrottle` and
`DetectionLoop`); and `AlgorithmProofs`, on top of it (on what `Services` answers
with lists: keys, connectors and filters, pages and the digest).

**DuplicateDetection** - pure operators for `duplicate_detection_service.py`.
How alike two texts are is the constant operator `Similarity`; title gate, fixed
denominator, strict comparison and both thresholds are exact, in integers
(percent times percent), so no comparison rounds. The code computes them in
floating point: at a score within rounding of a threshold the code may fall on
the other side of it, which is not modelled.

**DetectionLoop** - `decide()` as the loop it is, one action per turn, checked
against the declarative `Decide` the other modules use.

**Deduplication** - `persist_batch`. One action per database call: resolve the
company, fill its metadata, the lookups (a) to (d), then refresh, attach or
create. `Run`s interleave freely; `AbortBatch` stops one of `Unreliable` anywhere,
with what it has committed. A `Job` row keeps the posting it was made from (nothing under
`src/app` updates or deletes one). Rows are identified by their position, which
is the order of commit; the code orders by `createdAt`.
`jobs`, `listings`, `companies` are the tables; `pc`, `batch`, `target`,
`result` the coroutine's place and locals.

**JobCatalog** - what the catalogue promises: a posting, once known, belongs to
one job for ever, and jobs are only added. `Deduplication` implements it under
`home <- Home, size <- Len(jobs)`.

**Discovery** - `run_search`: source selection, the row, one step per source
call (answer or failure of any kind, including the timeout), persistence through
`Deduplication`'s own actions, `finish` (which may raise after its write is
committed), the `except` path and its own failure.
`Stop` is a killed process or a cancelled call, which `except Exception` does not
see. The retry loop of a source call is inside `SettleFetch`; what it does is in
`Connectors`.

**AgentPipeline** - the tasks of `worker/tasks.py`, the date key, the chain and
what arq does with ids, tries and results. arq is external: a known id is not
queued again, and results are kept a day. A job whose task raises or runs into
`job_timeout` is over, as arq tries again only what asks for it by raising `Retry`
and no task does (`RaiseTry`); a job whose worker is stopped or killed is taken up
again while it has a try left (`StopTry`) - three for jobs queued by a task or by
hand, one for the cron's, as `cron()` is given no `max_tries` (`settings.py:63-70`).
`tasks.py:11` and `workers/README.md:27` say that arq retries failures too; no run
is about that sentence.

**Digest** - the digest task, user by user and channel by channel: look the row
up, create it, send, mark. A failed send may have delivered. `UserFails` is a call
that raises while one user is served; `passed` keeps the users a run has passed
over, for that or for want of a digest. What the message says is in `JobList`.

**Matching** - the worker's recurring batches (analyse the newest unanalysed,
match the newest unmatched), a request that matches a job, ranks, records
feedback or changes the watchlist, and what the change does: write the entry,
mark matches stale by id or name, re-score by id. A match keeps the one input of
its score that others change, the company's priority; `late` notes that it had
changed between the reading and the upsert. The seconds of the model's call are
the time between `ReadInputs` and `WriteMatch`.

**Activity** - one user's applications, saved jobs, feedback and signals, each
database call a step: track, change of status, event, date, save, unsave,
verdict, hide, removal and reset of signals.

**Documents** - resumes and their versions, the files on disk, the selection,
analyses and their `processedAt`, stored gaps, drafts. Upload writes the file
first and unlinks it if the row fails; a delete does the reverse; a gap or a
draft is generated from what was read before the model's answer. The sections of
`generate` settle in any order: written, refused, or given up when the model fails.
Its answer, like that of `get`, shows the drafts against the version the request
read first, which for `generate` was before the model was called; the
answer of `save` is left out.

**Sessions** - register, log in, refresh, log out; the key of a token, the user's
family of tokens, and `revoke_all` after a replay (list, delete, drop), each
Redis call a step. A token is named by the request that issues it.

**UserData** - a behaviour is about one of these three: they share no row or key.
It exists so that one run checks them together, each unabridged.

**SourceThrottle**, **RateLimit** - the two counters: read the clock, `INCR`,
`EXPIRE`, go or sleep; windows that pass, keys that expire, callers that are
stopped between two calls. All callers of the throttle read one clock; the code
takes each worker's own (`throttle.py:33`), so clocks that differ are not covered.
`WithinBudget` speaks of the calls that go out in the window they were counted in;
a call may also go out in the next, which the code does not count there.

**Ranking** (learned weights, deltas, caps, order, exclusion), **JobList** (filters,
pages, the digest's body), **RuleBasedMatcher** (the seven components and the
overall score), **Connectors** (upstream answers, retries, boards, limits,
normalization, filters), **SkillGap** (the gap on the page and in the prompt, the
grounding of suggestions), **Analytics** (window, panels, series), **TextKeys**
(keys texts are compared by), **Models** (retries of the model's calls, what
becomes of an answer), with the list comprehensions they share in **Picked** - pure
operators over records that hold what the code looks at. A sort is stated by what
it does (`SortDown`: an element goes to the place that as many keys are before as
the place says, an equal key keeping its place), not by an algorithm. Scores are
integers in sixtieths or tenths where the code has floats. `JobList` is given the
rows in one order; the queries sort by a key that may tie and run once per page
(`job_repository.py:131, 157`), so an order that changes from page to page, and
rows that come or go between pages, are not modelled.

**Services** - the calls of these algorithms, each an action that reads an input
and answers, next to the detection loop and the two counters. Its properties are
the reference definitions the answers are compared with.

Some modules hold operators marked *Mutant of ...*: each is a plausible bug of
the definition below it; none is part of a specification. `PROJECT.json` pairs
them with the property that fails when they take its place.

## 3. Runs

| run | instance | states | shows |
|---|---|---|---|
| `dedup` | 2 runs, one of which may break off, 8 batches over 6 postings: first, edited (same id), same content elsewhere, same URL without an id, only alike, unknown source | 32,969 | `PrimaryListings`, `JobsCreditedOnce`, `NoRepeatWithinRun`, `LinksLeadBack`, the refinement `CatalogSpec`, `PostingsPlaced` |
| `discovery` | 2 searches, 3 sources (one without a row), rejected, unknown and disabled ones | 276,804 | `RowTruthful`, `CountsTruthful`, `DeliveredIsListed`, `ClosedRowsStay`, `RowsClose` |
| `pipeline` | 2 dates, 2 tries, 2 at once, the cron and one task of any kind by hand | 437,948 | `OneSearchPerDate`, `ChainOrder`, `JobsEnd` |
| `digest` | 2 overlapping runs, 2 tries each, 2 dates, 2 users | 269,976 | `TwiceOnlyIfUnrecorded`, `SentMeansDelivered`, `NobodySunk` |
| `matching` | the agent and one request of any kind, 3 jobs (one linked, one named, one the model cannot read), limit 2 | 53,318 | `OutdatedOnlyByRace`, `FeedbackKept`, `AllScored` |
| `requests` | one job, up to 3 requests of any kind on it, on resumes, versions and drafts of 2 sections; 4 on sessions | 459,289 | `TaughtMatchesFacts`, `VerdictSurvives`, `AppliedIsDatedAndTaught`, `FilesMatchVersions`, `FreshGapIsCurrent`, `CurrentIsFromSelected`, `LiveIsListed`, `ReplayEndsAll`, `RotatedOnce` |
| `services` | every input of the sets in `MCServices`; detection lists of up to 2 jobs over 18 postings; 3 callers of a budget of 2; 2 clients of a limit of 1 | 303,899 | `LoopDecides`, `WithinBudget`, `WaitsEnd`, `FeedIsWhole`, `LikeNeverLowers`, `FairScores`, `KeysStable`, `NothingHidden`, `GapsAgree`, `ReportsAddUp` |

Why the bounds are enough: every race in the code is between two actors over
one row or key, so two runs, searches or jobs show it, and a third request shows
what meets the traces they leave; sessions have four, as a replay needs an issue,
two refreshes of one token and a request that still issues. Two postings per
batch show order within a batch, and the candidates' limit of 2 is reached. Two
tries separate "not the last" from "the last". Two dates show one midnight,
before, in and after every step. In `matching` the limit of 2 is below the number
of jobs, so a batch has to leave one behind. The
inputs of `services` lie on both sides of each threshold, tie and cap, with each
attribute missing once: a filter with more terms than the query takes (the code
keeps the first ten), a report in which more companies tie than it lists, boards
that are configured and watched too. Among the signals is one list with more roles than are
kept, where a like takes the job's own role out of those kept and a similar one
stands in for it: the exception `LikeNeverLowers` states.

Bounds that are not in the code: `LastDate`, `Manual` (jobs started by hand),
`Drift` (minutes that pass on the throttle's clock while nobody sleeps), `Unreliable`
(the runs of `persist_batch` that may break off; the others show that a batch goes
on), `Ticks` (of the rate limiter's
clock), `Parts` (the algorithms a behaviour of `Services` may be about), and the
batches, requests, fetch results and inputs an MC module lists. `requests` uses
symmetry of the requests and of the sections; it checks invariants only.

`CHECK_DEADLOCK FALSE` in every configuration: runs, searches, requests and jobs
end, and then nothing is left to do.

Five runs are expected to fail; each states what a comment or a document says
and the code does not do (`findings` in `PROJECT.json`):

| run | claim | counterexample |
|---|---|---|
| `dedup_metadata` | a later source never overwrites metadata | two runs read "none", both fill |
| `pipeline_skipped` | one run per calendar day, even across worker restarts | the worker stops in a search by hand, which is taken up again, meets its own date key and is skipped |
| `digest_double_send` | never double-send | a failure between the delivery and its record, or two runs at once |
| `matching_change` | a change marks every stored match of the company stale | a match of a job without `companyId` whose name is spelt otherwise is not found |
| `ranking_explains` | each delta comes with a sentence that explains it | a like and a dislike that cancel out are explained as "ranked lower" |

## 4. Fairness

Nothing forces a search, a task or a request to begin, a call to raise, a process
to stop or midnight to come. What is assumed:

- `Deduplication`, `Discovery`, `DetectionLoop`: weak fairness of each
  run's own steps. The event loop resumes a coroutine whose call has returned,
  and calls have timeouts. `PostingsPlaced` speaks of the runs that do not
  break off.
- `AgentPipeline`: weak fairness of *some* job's start and *some* job's step: arq
  polls its queue and a coroutine that can go on does. No job is promised a slot
  before another; `JobsEnd` holds because jobs are bounded.
- `Matching`: strong fairness of the agent's two batches, which the pipeline
  queues every day though a batch may be busy when it does, and weak fairness of a
  batch's steps. Strong fairness, per job, of the model's answer and of the write:
  a call that can succeed is not refused for ever. A job the model cannot read
  is matched by the rules alone, so it too is scored in `AllScored`.
- `Services`: weak fairness of each throttled caller's steps, of the tick that
  wakes a sleeper, of the limiter's clock and of the `EXPIRE` after an `INCR`; each
  conjunct speaks of behaviours of its part only.

## 5. Proofs

Each module proves for every value of the constants, from named assumptions on
them alone: the shapes of the constants and of the inputs. An invariant is seldom inductive
by itself; what each `IInv` adds is what a coroutine knows between two calls.

**DeduplicationProofs**: `TypeCorrect`, `PrimaryListingsHold`, `NoRepeatHolds`,
`LinksHold`, `JobsCreditedOnceHolds`, and the refinement `ImplementsCatalog`. Between a lookup and its write the other runs commit rows, so
`IInv` adds `Typed` (a run past "next" has a posting in hand), `NewAreJobs` (the
reported jobs are the jobs there are, each run's its own) and `HandOK(r)`: what
r's lookups found is still so - `target[r]` is a row, of the posting's company
where it is a link; r's own new jobs have neither the posting's content hash nor
its URL once r has looked for them. Other runs' steps keep it because rows are
never removed, jobs never change, and `result` belongs to its run alone. Each
step leaves identities alone, attaches a listing or creates a job (`StepKinds`),
so each part has three cases. `JobsCreditedOnce` adds a count per run; the
refinement rests on `ListedOnce`, the unique key of the table, by which the `CHOOSE`
in `Home` has one choice.

**DiscoveryProofs**: `RowTruthfulHolds`, `ClosedRowsStayHolds`,
`CountsTruthfulHolds`, `DeliveredIsListedHolds`. A search's steps in the catalogue
are `Deduplication`'s, so its `IInv` and what it implies hold of them through the
instance. On top of it: what a search knows of its row between the creation and
the close (each source it has planned and not settled is still owed a call, a row
that is closed agrees with the results it was closed from); of the batch, that
what is no longer in hand is worked off, that is listed or counted as failed; of
the counters, that they are the sizes of what the run itself created. The new
jobs of two rows are disjoint, so together they claim no more than there are.

**PipelineProofs**: `OneSearchPerDateHolds`, `ChainOrderHolds`. `Sound` says what a
job's record says of the job (a task is at "chain" only when its work is done);
`Keyed` that a search past its `SET NX` holds the key of its date alone and has not
searched before its query; `Links` that a successor is queued only after the work
of the one before.

**DigestProofs**: `TwiceOnlyIfUnrecordedHolds`, `SentMeansDeliveredHolds`,
`NobodySunkHolds`. For each
key that is neither contended nor has an unrecorded delivery, `Single(k)`: one run
at most sends for it, nothing was delivered before it does, and what was
delivered is marked SENT or about to be. `InOrder` carries, along the worklist,
that the in-app row of a user and date is there before another channel is
reached; a run that begins over starts with the user's in-app entry again.
`Accounted`: every entry of the worklist is still to do, or of a user who was
passed over, or dealt with - so when nothing is left to do, `NobodySunk`.

**PipelineProofs**, on `Matching`: `OutdatedOnlyByRaceHolds`, `FeedbackIsKept`. With
the types of what is read, the property is inductive: each step that changes a
priority or writes a score puts the matches it disturbs among the excused ones.
`todo`, filled by a filter over a sequence, is not typed and need not be.

**UserDataProofs**, on `Activity`: `ActivityTyped`, `TaughtMatchesFactsHolds`,
`VerdictSurvivesAlways`, `AppliedIsDatedAndTaughtHolds`. Three parts per job:
`Whole` (what is APPLIED is dated, told and taught, or a request that will do it
is on its way, and likewise for what was judged), `Alone` (a request on an
undisturbed job is the only one on it), and `Undisturbed` (row, match and signals
agree but for the one request between two of its writes).

**UserDataProofs**, on `Documents`: `FilesMatchVersionsAlways`,
`FreshGapIsCurrentAlways`, `CurrentIsFromSelectedAlways`. `DocInv` says of a request
between two calls what it read and still owes (`DocRequestOK`: an upload has its
file and no row, a delete no row and perhaps a file, a gap or a draft the versions
and times it was made from), that numbers not yet given out have neither file nor
row (`NotYet`, `NumbersBounded`), and that each file, stored gap and draft belongs
to a row or to the one request that will finish or remove it (`FileOK`, `GapOK`,
`DraftOK`). A draft keeps the version it was made from, or has lost it to a
deletion, so to be shown as current means to be of the version read.

**SessionsProofs**: `LiveIsListedAlways`, `ReplayEndsAllAlways`,
`RotatedOnceAlways`. `Issued`: a token anybody knows of comes
from a request that is over, so its key is never set again. `Spent`: a request
issues only after the token presented has lost its key. `Revoking`: how far a
revocation has got with the tokens that were there when it began.
`RotatedIsSpent`, `PresentedOnce`, `FreshWhenPresented` and `OneSuccessor` follow a
token that no two requests overlapped on through its one rotation. The three are
carried to `UserSpec` through the instance, a step of another part being a stutter.

**ServicesProofs**: the two state machines first. `WithinBudgetHolds`: `Counted`
(the callers admitted to the present window are at most its counter and at most
`PerMinute`, as its key cannot expire while it lasts) and `Timely` (no caller has
read a window to come, so a window that is over admits nobody new).
`LoopDecidesAlways`: the invariant of the loop's index, that the best so far is
what `Decide` would pick among the candidates already looked at, for any list,
weights and similarities.

For the algorithms the state is simple (`Told`: an output is Unknown or what the
algorithm computes of its input) and the work is in lemmas about the operators:

- `GapsAgreeAlways`: what is kept of a list is in its order and each key once, by
  the ranks of the kept positions; both computations keep the same positions.
- `FairScoresAlways`: a weighted sum lies between the least and the greatest
  value; rounding half to even is monotone and stays between the bounds; a hit
  score is capped; raising all priorities leaves the deciding watchlist entry the
  same; the retry loop ends at the first final answer; doubled delays grow.
- `LikeNeverLowersAlways`: the weight of a key is a sum over the signals that
  have it, so a like adds its weight to the job's own keys and nothing to others;
  a role that a like strengthens stays among the `MaxRoleKeys` strongest, one whose
  dislikes it weakens leaves them only for the better; of the places that contain
  the job's, the strongest can change only upwards; sums of capped strengths,
  clamped, are monotone. The first form of this property was false, which the
  attempt to prove it showed: with more roles learned than are kept, a like can
  take the job's own role out of those kept and leave a similar, worse one to
  stand in for it. The property now excepts that, and the run has such an input.

- `ReportsAddUpAlways`: the jobs of a window fall apart by the day they were
  created on and by the family of their title, and the sizes of the parts add up to
  that of the whole (`Fibres`; twice for the families, over the titles and over
  the families of titles, `FibresTwice`); a local day lies in the window because its
  bounds are whole days of the same zone and no job was created after now. What
  else a row counts is a subset of the row's jobs.

**AlgorithmProofs**, on the parts that answer with lists:

- `KeysStableAlways`: a word that has been folded and split is its own normal form,
  so a list of such words is left alone; one more suffix at the end is stripped
  again, by the recursion over the last word; of a link, each part is carried to
  one that the same step leaves alone, and the slash, the fragment and the
  tracking parameters that were added are what `CanonicalizeUrl` takes away.
- `NothingHiddenAlways`: the filter is a conjunction of tests, and an unknown
  attribute passes its own, but for the mode under a search for remote jobs and
  what the mode and the currency decide for the place and the pay
  (`LessKnownIsKept`, `UnknownIsKept`); what a connector picks and normalizes adds
  the date of a feed's posting and nothing else (`BoardKeeps`, `FeedKeeps`). The boards are read one after the other; by induction
  over them, what is kept of the first `n` is what each of them answers by itself,
  so that a board that fails takes nothing away. Configured and watched boards are
  put together without a repetition, so a watched one is read exactly once.
- `FeedIsWholeAlways`: a list is *whole* for a set if it holds each element of it,
  once. `Kept` of a whole list is whole for those picked; `SortDown` permutes, and
  what it answers is in order, as the elements' places are counted, each place
  being taken by exactly one (`PlacesAre`, `SortedIs`). The first `CandidateLimit` of
  a sorted list are those with fewer than that many before them, which is what the
  property calls the foremost. Pages one after the other are the list they are
  pages of. The digest takes the first of it and goes through the bands in
  descending order: a permutation of what it took, each band in the feed's order.

Sums, concatenations and doublings are recursive functions; the library's
induction theorems cannot be instantiated (they take an operator), so the proofs
derive induction over the naturals and over subsets of a finite set as
first-order lemmas about sets (`SetInduction`, `SubsetInduction`) from
`WFMin`. `SelectSeq`, the library's sort and powers have no definition the provers
can use; where a theorem needs them, the model has its own form of them (`Kept` in
`Picked`, `SortDown` in `Ranking`, `backoff` in `Models`).

Assumed of the inputs, and evaluated by TLC on those of the run:

- amounts, weights and scores are integers, and the skills and keys of a job or
  profile finite (`GapAssumption`, `ScoreAssumption`, `AskAssumption`, `FeedAssumption`);
  a user has one match per job, as the key `(userId, jobId)` is unique (`FeedAssumption`);
- a job was created by now, and an application's status is one of the enumeration
  (`ReportAssumption`);
- to fold a folded text changes nothing, a folded word splits into itself, and no
  value of the table of aliases is an alias (`KeysAssumption`);
- an upstream answers each try, and a source is tried at least once
  (`FetchAssumption`);
- a mail is never taken for the value that stands for no mail (`DigestAssumption`).

The attempts to prove these showed where definition or property differed from the
code: recommendations are in the order of the final scores as shown, which are
rounded, equal ones by the base score (`InOrder` allowed any order within a rounding
step); the jobs page filters by the first ten skills of the query, not by all
(`FeedIsWhole`); where companies are as engaged as each other, the database picks
which of them the panel shows at its limit (`ByCompany` showed them all, beyond it);
and no repetition among the boards says nothing of the same board under two
companies, so `NothingHidden` now asks that a watched board is read exactly once.
`normalization_service.py:16-19` says that a job which leaves the filtered attribute
out is kept; `NothingHidden` states where the code does otherwise.
The inputs hold each of these cases.

What rests on the environment, not on a proof: Prisma's `upsert` on one unique key
is one statement (`ON CONFLICT`), `create` with a nested row is one transaction,
unique constraints hold, and a single Redis command is atomic.

Model-checked only: liveness (`PostingsPlaced`, `RowsClose`, `JobsEnd`,
`AllScored`, `WaitsEnd`), which is out of TLAPS's reach, and with it `RateLimit`,
whose one property is of that kind. Every invariant and action property of the
passing runs is a theorem. `TypeOK` of the state machines is stated in each module
and is no run's property: typing is proved for `Deduplication` and `Activity`, and
as a part of the other invariants for what they use.

## 6. Not modelled

- The notification bell (list, count, mark read): single statements on `readAt`,
  which nothing else reads or writes.
- `CompanyService.update_metadata` and the profile: single-row writes.
- The rest of the API surface: routing, validation, layout of answers, read-only
  queries, wiring of objects. Handlers with a protocol are actions of the modules
  above.
- Configuration, schemas, clients of external services, text extraction from
  files, the conversion of the cron's time at start-up: declarations, parsing and
  formatting without state.
- Prompts, HTML and e-mail layout, and the parsing of upstream payloads: the
  connectors and the matcher see a posting's attributes.

Assumptions of the operators: folding case is idempotent (`Casefold`);
floating-point scores are integers, so a score within rounding of a threshold is
not modelled.

## 7. What is left

1. `AgentPipeline` over `Discovery`, `Matching` and `Digest`, with an abstract "a
   found job reaches the digest or is known to have been left behind".
2. A safety property of `RateLimit` like `WithinBudget`, once the fixed window's
   edge is stated for more than one client's key.
