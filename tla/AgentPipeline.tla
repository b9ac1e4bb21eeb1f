----------------------------- MODULE AgentPipeline -----------------------------
(*****************************************************************************)
(* The daily agent: four arq tasks chained by deterministic job ids          *)
(* (worker/tasks.py), started by the cron or by hand (worker/enqueue.py) and *)
(* run by arq (worker/settings.py).                                          *)
(*                                                                           *)
(* arq itself is external: a job id is queued once; a try that raises or     *)
(* times out ends the job, one whose worker stops is taken up again until    *)
(* the job's tries are used up; the result of a job is kept for a day, so    *)
(* its id cannot be queued again on the date it names.                       *)
(* What the tasks do with jobs and users is in the modules of the services.  *)
(*****************************************************************************)
EXTENDS Naturals, FiniteSets

CONSTANTS
    LastDate,  \* bound: UTC dates are 1..LastDate
    Manual,    \* ids of the jobs started by hand (random in the code)
    MaxTries,  \* MAX_TRIES
    MaxJobs    \* max_jobs: tries a worker runs at once

ASSUME PipelineAssumption ==
    /\ LastDate \in Nat \ {0}
    /\ MaxTries \in Nat \ {0}
    /\ MaxJobs \in Nat \ {0}

Date == 1..LastDate
Task == {"daily_job_search", "analyze_new_jobs", "match_jobs", "send_daily_digest"}

\* A job's id: the cron's and the chain's hold a date, a manual one is random.
ChainId == {"cron", "analyze", "match", "digest"} \X Date
JobId == ChainId \union ({"manual"} \X Manual)

VARIABLES
    today,     \* the UTC date
    dateKeys,  \* dates whose agent:daily_search:<date> key is set in Redis
    queue,     \* arq: what is known of each job id
    searches,  \* history: how many scheduled searches each date has seen
    worked,    \* history: <<task, date>> whose own work was done
    skipped    \* history: dates a search was skipped for as a duplicate

history == <<searches, worked, skipped>>
vars == <<today, dateKeys, queue, history>>

\* step is the call the running try makes next; date is its run_date.
JobRecord == [task : Task \union {"none"},
              state : {"absent", "queued", "running", "done", "failed"},
              try : 0..MaxTries, step : {"start", "query", "work", "chain"}, date : 0..LastDate]

NoJob == [task |-> "none", state |-> "absent", try |-> 0, step |-> "start", date |-> 0]

TypeOK ==
    /\ today \in Date
    /\ dateKeys \subseteq Date
    /\ queue \in [JobId -> JobRecord]
    /\ searches \in [Date -> Nat]
    /\ worked \subseteq Task \X Date
    /\ skipped \subseteq Date

Init ==
    /\ today = 1
    /\ dateKeys = {}
    /\ queue = [id \in JobId |-> NoJob]
    /\ searches = [d \in Date |-> 0]
    /\ worked = {}
    /\ skipped = {}

-------------------------------------------------------------------------------
(* arq *)

\* enqueue_job with a job id: nothing happens if the id is known.
Enqueued(q, id, task) ==
    IF q[id].state = "absent"
    THEN [q EXCEPT ![id] = [NoJob EXCEPT !.task = task, !.state = "queued"]]
    ELSE q

Running == {id \in JobId : queue[id].state = "running"}

Does(id, task, step) ==
    /\ queue[id].state = "running"
    /\ queue[id].task = task
    /\ queue[id].step = step

\* The queue after job id has ended with this state, and nothing else is kept.
Ended(id, state) ==
    [queue EXCEPT ![id] = [NoJob EXCEPT !.task = queue[id].task, !.state = state]]

GotoStep(id, step) == queue' = [queue EXCEPT ![id].step = step]

StartTry(id) ==
    /\ queue[id].state = "queued"
    /\ Cardinality(Running) < MaxJobs
    /\ queue' = [queue EXCEPT ![id].state = "running", ![id].try = @ + 1]
    /\ UNCHANGED <<today, dateKeys, history>>

\* The task raises or runs into job_timeout: none of the tasks asks arq for a
\* Retry, so the job is over.
RaiseTry(id) ==
    /\ queue[id].state = "running"
    /\ queue' = Ended(id, "failed")
    /\ UNCHANGED <<today, dateKeys, history>>

\* cron() gives its jobs one try; the others have the worker's max_tries.
Tries(id) == IF id[1] = "cron" THEN 1 ELSE MaxTries

\* The worker is stopped, which cancels the try, or killed: arq takes the job
\* up again (retry_jobs) while it has a try left.
StopTry(id) ==
    /\ queue[id].state = "running"
    /\ queue' = IF queue[id].try < Tries(id)
                THEN [queue EXCEPT ![id].state = "queued", ![id].step = "start", ![id].date = 0]
                ELSE Ended(id, "failed")
    /\ UNCHANGED <<today, dateKeys, history>>

-------------------------------------------------------------------------------
(* What starts jobs, and the clock *)

\* The cron fires once a day.
FireCron ==
    /\ queue[<<"cron", today>>].state = "absent"
    /\ queue' = Enqueued(queue, <<"cron", today>>, "daily_job_search")
    /\ UNCHANGED <<today, dateKeys, history>>

EnqueueByHand(m, task) ==
    /\ queue[<<"manual", m>>].state = "absent"
    /\ queue' = Enqueued(queue, <<"manual", m>>, task)
    /\ UNCHANGED <<today, dateKeys, history>>

Midnight ==
    /\ today < LastDate
    /\ today' = today + 1
    /\ UNCHANGED <<dateKeys, queue, history>>

-------------------------------------------------------------------------------
(* The tasks *)

\* Mutant of AcquireDate: the key is read and not set.
AcquireNothing(id) ==
    /\ Does(id, "daily_job_search", "start")
    /\ today \notin dateKeys
    /\ queue' = [queue EXCEPT ![id].step = "query", ![id].date = today]
    /\ UNCHANGED <<today, dateKeys, history>>

\* run_daily_search: SET NX on the date of this try.
AcquireDate(id) ==
    /\ Does(id, "daily_job_search", "start")
    /\ today \notin dateKeys
    /\ dateKeys' = dateKeys \union {today}
    /\ queue' = [queue EXCEPT ![id].step = "query", ![id].date = today]
    /\ UNCHANGED <<today, history>>

\* The key is taken: {"executed": False}, and nothing is chained.
SkipDuplicate(id) ==
    /\ Does(id, "daily_job_search", "start")
    /\ today \in dateKeys
    /\ skipped' = skipped \union {today}
    /\ queue' = Ended(id, "done")
    /\ UNCHANGED <<today, dateKeys, searches, worked>>

\* The aggregate query is built; run_search begins.
BeginSearch(id) ==
    /\ Does(id, "daily_job_search", "query")
    /\ searches' = [searches EXCEPT ![queue[id].date] = @ + 1]
    /\ GotoStep(id, "work")
    /\ UNCHANGED <<today, dateKeys, worked, skipped>>

\* Mutant of BeginWork: the successor is enqueued before the work.
BeginWithChain(id) ==
    /\ queue[id].task # "daily_job_search"
    /\ Does(id, queue[id].task, "start")
    /\ queue' = [queue EXCEPT ![id].step = "chain", ![id].date = today]
    /\ UNCHANGED <<today, dateKeys, history>>

\* The other tasks have no guard: every try does the work again.
BeginWork(id) ==
    /\ queue[id].task # "daily_job_search"
    /\ Does(id, queue[id].task, "start")
    /\ queue' = [queue EXCEPT ![id].step = "work", ![id].date = today]
    /\ UNCHANGED <<today, dateKeys, history>>

\* The task after this one in the chain, and the id it gets: the date of the
\* search, and from then on the date on which the task ends.
NextTask(task) ==
    CASE task = "daily_job_search"  -> "analyze_new_jobs"
      [] task = "analyze_new_jobs"  -> "match_jobs"
      [] task = "match_jobs"        -> "send_daily_digest"
      [] task = "send_daily_digest" -> "none"

NextId(id) ==
    CASE queue[id].task = "daily_job_search" -> <<"analyze", queue[id].date>>
      [] queue[id].task = "analyze_new_jobs" -> <<"match", today>>
      [] queue[id].task = "match_jobs"       -> <<"digest", today>>

\* The task's own work is done; the digest is the end of the chain.
FinishWork(id) ==
    /\ Does(id, queue[id].task, "work")
    /\ worked' = worked \union {<<queue[id].task, queue[id].date>>}
    /\ IF NextTask(queue[id].task) = "none"
       THEN queue' = Ended(id, "done")
       ELSE GotoStep(id, "chain")
    /\ UNCHANGED <<today, dateKeys, searches, skipped>>

\* Mutant of Chain: a known successor id keeps the task waiting.
ChainWaits(id) ==
    /\ Does(id, queue[id].task, "chain")
    /\ queue[NextId(id)].state = "absent"
    /\ queue' = Enqueued(Ended(id, "done"), NextId(id), NextTask(queue[id].task))
    /\ UNCHANGED <<today, dateKeys, history>>

Chain(id) ==
    /\ Does(id, queue[id].task, "chain")
    /\ queue' = Enqueued(Ended(id, "done"), NextId(id), NextTask(queue[id].task))
    /\ UNCHANGED <<today, dateKeys, history>>

TaskStep(id) ==
    \/ AcquireDate(id) \/ SkipDuplicate(id) \/ BeginSearch(id)
    \/ BeginWork(id) \/ FinishWork(id) \/ Chain(id)

Next ==
    \/ FireCron
    \/ Midnight
    \/ \E m \in Manual, task \in Task : EnqueueByHand(m, task)
    \/ \E id \in JobId : StartTry(id) \/ TaskStep(id) \/ RaiseTry(id) \/ StopTry(id)

\* A worker is running again sooner or later: it polls the queue while it has
\* room, and a try under way that can go on goes on.
Spec ==
    /\ Init /\ [][Next]_vars
    /\ WF_vars(\E id \in JobId : StartTry(id))
    /\ WF_vars(\E id \in JobId : TaskStep(id))

-------------------------------------------------------------------------------
(* Properties *)

\* "Redis SET NX date key - one run per calendar day" (workers/README.md:19),
\* whatever the cron, triggers by hand, restarts and midnight do; and what is
\* chained from a date's search is chained from a search that finished.
OneSearchPerDate ==
    \A d \in Date :
        /\ searches[d] <= 1
        /\ queue[<<"analyze", d>>].state # "absent" =>
             <<"daily_job_search", d>> \in worked

\* The chain never runs ahead of itself: match_jobs and the digest are queued
\* under a date only once their predecessor has done its work, that date or
\* earlier, although each may also be started by hand and be taken up again.
ChainOrder ==
    \A d \in Date :
        /\ queue[<<"match", d>>].state # "absent" =>
             \E e \in 1..d : <<"analyze_new_jobs", e>> \in worked
        /\ queue[<<"digest", d>>].state # "absent" =>
             \E e \in 1..d : <<"match_jobs", e>> \in worked

\* Every job that is queued ends, done or dead, so that in the end none is left:
\* workers that stop use its tries up, and neither the date key nor a known
\* successor id holds a job up.
JobsEnd == <>[](\A id \in JobId : queue[id].state \notin {"queued", "running"})

\* "one run per calendar day even across worker restarts/retries" (tasks.py:4-5):
\* a search skipped as a duplicate leaves a date that has its search, finished
\* or under way.
SkippedIsSearched ==
    \A d \in skipped :
        \/ <<"daily_job_search", d>> \in worked
        \/ \E id \in Running : queue[id].task = "daily_job_search" /\ queue[id].date = d
===============================================================================
