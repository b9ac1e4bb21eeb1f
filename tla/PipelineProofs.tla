---------------------------- MODULE PipelineProofs ----------------------------
(*****************************************************************************)
(* The guards of AgentPipeline, for any number of dates, jobs started by     *)
(* hand, tries and worker slots; and, of the work its match task does beside *)
(* the requests, what re-scoring and invalidation keep, for any jobs,        *)
(* requests, limit and priorities of Matching.                               *)
(*****************************************************************************)
EXTENDS AgentPipeline, Matching, TLAPS

USE PipelineAssumption

\* What a job's record q says of the job alone, on date t with work w done.
SoundRecord(q, t, w) ==
    /\ q.state # "running" => q.step = "start"
    /\ q.state # "absent" => q.task \in Task
    /\ q.state = "queued" => q.try < MaxTries
    /\ q.step # "start" => q.date \in 1..t
    /\ q.step = "chain" => q.task # "send_daily_digest" /\ <<q.task, q.date>> \in w

Sound == \A id \in JobId : SoundRecord(queue[id], today, worked)

\* A search past its SET NX.
Searching(id) == queue[id].task = "daily_job_search" /\ queue[id].step # "start"

\* It alone holds the key of its date, and has not searched before its query.
Keyed ==
    \A id \in JobId : Searching(id) =>
        /\ queue[id].date \in dateKeys
        /\ queue[id].step = "query" => searches[queue[id].date] = 0
        /\ \A other \in JobId :
               Searching(other) /\ queue[other].date = queue[id].date => other = id

Searched ==
    \A d \in Date : /\ searches[d] <= 1
                    /\ d \notin dateKeys => searches[d] = 0

\* The chain part of OneSearchPerDate.
SearchFirst ==
    \A d \in Date : queue[<<"analyze", d>>].state # "absent" =>
                        <<"daily_job_search", d>> \in worked

Links == SearchFirst /\ ChainOrder

IInv == TypeOK /\ Sound /\ Keyed /\ Searched /\ Links

-------------------------------------------------------------------------------
(* Steps that change one job's record *)

LEMMA IdsAreJobs ==
    \A d \in Date : /\ <<"cron", d>> \in JobId /\ <<"analyze", d>> \in JobId
                    /\ <<"match", d>> \in JobId /\ <<"digest", d>> \in JobId
  BY DEF JobId, ChainId

\* No successor is queued by a step that changes one job that is known.
LEMMA LinksKept ==
    ASSUME IInv, NEW id \in JobId, NEW q \in JobRecord,
           queue[id].state # "absent" \/ id \notin {"analyze", "match", "digest"} \X Date,
           queue' = [queue EXCEPT ![id] = q], worked \subseteq worked'
    PROVE  Links'
  <1>1. \A other \in JobId : other \in {"analyze", "match", "digest"} \X Date
            /\ queue'[other].state # "absent" => queue[other].state # "absent"
    BY DEF IInv, TypeOK
  <1>2. SearchFirst'
    BY <1>1, IdsAreJobs DEF IInv, Links, SearchFirst
  <1>3. ChainOrder'
    BY <1>1, IdsAreJobs DEF IInv, Links, ChainOrder
  <1>4. QED
    BY <1>2, <1>3 DEF Links

LEMMA SoundKept ==
    ASSUME IInv, NEW id \in JobId, NEW q \in JobRecord, SoundRecord(q, today, worked'),
           queue' = [queue EXCEPT ![id] = q], worked \subseteq worked', today' = today
    PROVE  Sound'
  BY DEF IInv, TypeOK, Sound, SoundRecord

\* A job that begins no search and does not go back to its query disturbs none.
LEMMA KeyedKept ==
    ASSUME IInv, NEW id \in JobId, NEW q \in JobRecord,
           queue' = [queue EXCEPT ![id] = q], UNCHANGED <<dateKeys, searches>>,
           q.task = "daily_job_search" /\ q.step # "start" =>
               Searching(id) /\ q.date = queue[id].date /\ q.step # "query"
    PROVE  Keyed' /\ Searched'
  BY DEF IInv, TypeOK, Keyed, Searched, Searching

LEMMA StartTryKeeps ==
    ASSUME IInv, NEW id \in JobId, StartTry(id) PROVE IInv'
  <1> DEFINE q == [queue[id] EXCEPT !.state = "running", !.try = @ + 1]
  <1>1. queue[id] \in JobRecord /\ SoundRecord(queue[id], today, worked)
    BY DEF IInv, TypeOK, Sound
  <1>2. /\ q \in JobRecord
        /\ q.step = "start" /\ q.state = "running" /\ q.task \in Task
    <2>1. /\ queue[id].state = "queued" /\ queue[id].step = "start" /\ queue[id].task \in Task
          /\ queue[id].try \in 0..MaxTries /\ queue[id].try < MaxTries
      BY <1>1 DEF JobRecord, StartTry, SoundRecord
    <2>2. queue[id].try + 1 \in 0..MaxTries
      BY <2>1
    <2>3. QED
      BY <1>1, <2>1, <2>2 DEF JobRecord
  <1>3. queue' = [queue EXCEPT ![id] = q]
    BY <1>1 DEF IInv, TypeOK, JobRecord, StartTry
  <1> HIDE DEF q
  <1>4. TypeOK'
    BY <1>2, <1>3 DEF IInv, TypeOK, StartTry, history
  <1>5. SoundRecord(q, today, worked')
    BY <1>2 DEF SoundRecord
  <1>6. Sound'
    BY <1>2, <1>3, <1>5, SoundKept DEF StartTry, history
  <1>7. Links'
    BY <1>2, <1>3, LinksKept DEF StartTry, history
  <1>8. Keyed' /\ Searched'
    BY <1>2, <1>3, KeyedKept DEF StartTry, history
  <1>9. QED
    BY <1>4, <1>6, <1>7, <1>8 DEF IInv

\* The record of a job that has ended, and of one that is queued.
LEMMA RestingRecord ==
    ASSUME NEW task \in Task, NEW state \in {"queued", "done", "failed"}
    PROVE  LET q == [NoJob EXCEPT !.task = task, !.state = state]
           IN  /\ q \in JobRecord /\ q.step = "start" /\ q.state = state /\ q.task = task
               /\ \A t, w : SoundRecord(q, t, w)
  <1> DEFINE q == [task |-> task, state |-> state, try |-> 0, step |-> "start", date |-> 0]
  <1>1. 0 \in 0..MaxTries /\ 0 < MaxTries /\ 0 \in 0..LastDate
    OBVIOUS
  <1>2. q \in JobRecord
    BY <1>1 DEF JobRecord
  <1>3. \A t, w : SoundRecord(q, t, w)
    BY <1>1 DEF SoundRecord
  <1>4. [NoJob EXCEPT !.task = task, !.state = state] = q
    <2> DEFINE p == [task |-> task, state |-> "absent", try |-> 0, step |-> "start", date |-> 0]
    <2>1. [NoJob EXCEPT !.task = task] = p
      BY DEF NoJob
    <2>2. [p EXCEPT !.state = state] = q
      OBVIOUS
    <2>3. [NoJob EXCEPT !.task = task, !.state = state]
              = [[NoJob EXCEPT !.task = task] EXCEPT !.state = state]
      BY DEF NoJob
    <2>4. QED
      BY <2>1, <2>2, <2>3
  <1>5. q.step = "start" /\ q.state = state /\ q.task = task
    OBVIOUS
  <1> HIDE DEF q
  <1>6. QED
    BY <1>2, <1>3, <1>4, <1>5

\* A try that raises ends its job; one that is stopped ends it or puts it back.
LEMMA LostTryKeeps ==
    ASSUME IInv, NEW id \in JobId, RaiseTry(id) \/ StopTry(id) PROVE IInv'
  <1>1. queue[id] \in JobRecord /\ queue[id].state = "running" /\ queue[id].task \in Task
    BY DEF IInv, TypeOK, Sound, SoundRecord, RaiseTry, StopTry
  <1>2. PICK q \in JobRecord :
            /\ queue' = [queue EXCEPT ![id] = q]
            /\ q.step = "start" /\ SoundRecord(q, today, worked)
    <2>1. CASE queue' = Ended(id, "failed")
      <3> DEFINE q == [NoJob EXCEPT !.task = queue[id].task, !.state = "failed"]
      <3>1. q \in JobRecord /\ q.step = "start" /\ SoundRecord(q, today, worked)
        BY <1>1, RestingRecord
      <3>2. QED
        BY <2>1, <3>1 DEF Ended
    <2>2. CASE queue[id].try < MaxTries
               /\ queue' = [queue EXCEPT ![id].state = "queued", ![id].step = "start", ![id].date = 0]
      <3> DEFINE q == [queue[id] EXCEPT !.state = "queued", !.step = "start", !.date = 0]
      <3>1. q \in JobRecord /\ q.step = "start"
        <4>1. 0 \in 0..LastDate
          OBVIOUS
        <4>2. QED
          BY <1>1, <4>1 DEF JobRecord
      <3>2. q.state = "queued" /\ q.task = queue[id].task /\ q.try = queue[id].try
        BY <1>1 DEF JobRecord
      <3>3. SoundRecord(q, today, worked)
        BY <1>1, <2>2, <3>1, <3>2 DEF SoundRecord
      <3>4. queue' = [queue EXCEPT ![id] = q]
        BY <1>1, <2>2 DEF IInv, TypeOK, JobRecord
      <3>5. QED
        BY <3>1, <3>3, <3>4
    <2>3. queue[id].try < Tries(id) => queue[id].try < MaxTries
      BY <1>1 DEF Tries, JobRecord
    <2>4. QED
      BY <2>1, <2>2, <2>3 DEF RaiseTry, StopTry
  <1>3. TypeOK'
    BY <1>2 DEF IInv, TypeOK, RaiseTry, StopTry, history
  <1>4. Sound' /\ Links'
    BY <1>1, <1>2, SoundKept, LinksKept DEF RaiseTry, StopTry, history
  <1>5. Keyed' /\ Searched'
    BY <1>2, KeyedKept DEF RaiseTry, StopTry, history
  <1>6. QED
    BY <1>3, <1>4, <1>5 DEF IInv

\* Jobs of the cron and by hand are of no date's chain.
LEMMA EnqueueKeeps ==
    ASSUME IInv, NEW id \in JobId, NEW task \in Task,
           id \notin {"analyze", "match", "digest"} \X Date,
           queue[id].state = "absent", queue' = Enqueued(queue, id, task),
           UNCHANGED <<today, dateKeys, history>>
    PROVE  IInv'
  <1> DEFINE q == [NoJob EXCEPT !.task = task, !.state = "queued"]
  <1>1. q \in JobRecord /\ q.step = "start" /\ SoundRecord(q, today, worked')
    BY RestingRecord
  <1>2. queue' = [queue EXCEPT ![id] = q]
    BY DEF Enqueued
  <1> HIDE DEF q
  <1>3. TypeOK'
    BY <1>1, <1>2 DEF IInv, TypeOK, history
  <1>4. Sound' /\ Links'
    BY <1>1, <1>2, SoundKept, LinksKept DEF history
  <1>5. Keyed' /\ Searched'
    BY <1>1, <1>2, KeyedKept DEF history
  <1>6. QED
    BY <1>3, <1>4, <1>5 DEF IInv

LEMMA MidnightKeeps ==
    ASSUME IInv, Midnight PROVE IInv'
  <1>1. TypeOK'
    BY DEF IInv, TypeOK, Midnight, Date, history
  <1>2. today \in Nat /\ today' = today + 1
    BY DEF IInv, TypeOK, Midnight, Date
  <1>3. Sound'
    <2>1. ASSUME NEW q, SoundRecord(q, today, worked) PROVE SoundRecord(q, today', worked)
      BY <1>2, <2>1 DEF SoundRecord
    <2>2. QED
      BY <2>1 DEF IInv, Sound, Midnight, history
  <1>4. QED
    BY <1>1, <1>3 DEF IInv, Midnight, history, Keyed, Searched, Searching, Links, SearchFirst,
                      ChainOrder

-------------------------------------------------------------------------------
(* The tasks *)

\* The search that sets the key finds no search of its date.
LEMMA AcquireDateKeeps ==
    ASSUME IInv, NEW id \in JobId, AcquireDate(id) PROVE IInv'
  <1> DEFINE q == [queue[id] EXCEPT !.step = "query", !.date = today]
  <1>1. /\ queue[id] \in JobRecord /\ today \in Date /\ today \notin dateKeys
        /\ queue[id].state = "running" /\ queue[id].task = "daily_job_search"
        /\ SoundRecord(queue[id], today, worked)
    BY DEF IInv, TypeOK, Sound, AcquireDate, Does
  <1>2. /\ q \in JobRecord /\ q.step = "query" /\ q.date = today
        /\ q.task = "daily_job_search" /\ SoundRecord(q, today, worked')
    <2>1. today \in 0..LastDate /\ today \in 1..today
      BY <1>1 DEF Date
    <2>2. /\ q \in JobRecord /\ q.step = "query" /\ q.date = today
          /\ q.task = "daily_job_search" /\ q.state = "running"
      BY <1>1, <2>1 DEF JobRecord
    <2>3. SoundRecord(q, today, worked')
      BY <2>1, <2>2 DEF SoundRecord, Task
    <2>4. QED
      BY <2>2, <2>3
  <1>3. queue' = [queue EXCEPT ![id] = q]
    BY <1>1 DEF IInv, TypeOK, JobRecord, AcquireDate
  <1> HIDE DEF q
  <1>4. TypeOK'
    BY <1>1, <1>2, <1>3 DEF IInv, TypeOK, AcquireDate, history
  <1>5. Sound' /\ Links'
    BY <1>1, <1>2, <1>3, SoundKept, LinksKept DEF AcquireDate, history
  <1>6. Searched' /\ searches[today] = 0
    BY <1>1 DEF IInv, Searched, AcquireDate, history
  <1>7. \A other \in JobId : Searching(other) => queue[other].date # today
    BY <1>1 DEF IInv, Keyed
  <1>8. Keyed'
    BY <1>1, <1>2, <1>3, <1>6, <1>7 DEF IInv, TypeOK, Keyed, Searching, AcquireDate, history
  <1>9. QED
    BY <1>4, <1>5, <1>6, <1>8 DEF IInv

LEMMA SkipDuplicateKeeps ==
    ASSUME IInv, NEW id \in JobId, SkipDuplicate(id) PROVE IInv'
  <1> DEFINE q == [NoJob EXCEPT !.task = queue[id].task, !.state = "done"]
  <1>1. queue[id].task \in Task /\ queue[id].state # "absent" /\ today \in Date
    BY DEF IInv, TypeOK, SkipDuplicate, Does, Task
  <1>2. q \in JobRecord /\ q.step = "start" /\ SoundRecord(q, today, worked')
    BY <1>1, RestingRecord
  <1>3. queue' = [queue EXCEPT ![id] = q]
    BY DEF SkipDuplicate, Ended
  <1> HIDE DEF q
  <1>4. TypeOK'
    BY <1>1, <1>2, <1>3 DEF IInv, TypeOK, SkipDuplicate
  <1>5. Sound' /\ Links'
    BY <1>1, <1>2, <1>3, SoundKept, LinksKept DEF SkipDuplicate
  <1>6. Keyed' /\ Searched'
    BY <1>2, <1>3, KeyedKept DEF SkipDuplicate
  <1>7. QED
    BY <1>4, <1>5, <1>6 DEF IInv

\* The one search of its date that stands before its query has not searched.
LEMMA BeginSearchKeeps ==
    ASSUME IInv, NEW id \in JobId, BeginSearch(id) PROVE IInv'
  <1> DEFINE q == [queue[id] EXCEPT !.step = "work"]
             d == queue[id].date
  <1>1. /\ queue[id] \in JobRecord /\ SoundRecord(queue[id], today, worked)
        /\ queue[id].state = "running" /\ queue[id].task = "daily_job_search"
        /\ queue[id].step = "query" /\ today \in Date
    BY DEF IInv, TypeOK, Sound, BeginSearch, Does
  <1>2. /\ q \in JobRecord /\ q.step = "work" /\ q.date = d
        /\ q.task = "daily_job_search" /\ SoundRecord(q, today, worked')
    BY <1>1 DEF JobRecord, SoundRecord
  <1>3. queue' = [queue EXCEPT ![id] = q]
    BY <1>1 DEF IInv, TypeOK, JobRecord, BeginSearch, GotoStep
  <1>4. d \in Date
    BY <1>1 DEF SoundRecord, Date
  <1>5. Searching(id) /\ searches[d] = 0 /\ d \in dateKeys
    BY <1>1 DEF IInv, Keyed, Searching
  <1>6. searches' = [searches EXCEPT ![d] = 1]
    BY <1>5 DEF BeginSearch
  <1> HIDE DEF q, d
  <1>7. TypeOK'
    <2>1. searches' \in [Date -> Nat]
      BY <1>4, <1>6 DEF IInv, TypeOK
    <2>2. QED
      BY <1>2, <1>3, <2>1 DEF IInv, TypeOK, BeginSearch
  <1>8. Sound' /\ Links'
    BY <1>1, <1>2, <1>3, SoundKept, LinksKept DEF BeginSearch
  <1>9. Searched'
    BY <1>4, <1>5, <1>6 DEF IInv, TypeOK, Searched, BeginSearch
  <1>10. \A other \in JobId : Searching(other) /\ queue[other].date = d => other = id
    BY <1>5 DEF IInv, Keyed, d
  <1>11. Keyed'
    <2>1. \A other \in JobId : other # id =>
              queue'[other] = queue[other] /\ (Searching(other)' <=> Searching(other))
      BY <1>3 DEF IInv, TypeOK, Searching
    <2>2. queue'[id] = q
      BY <1>3 DEF IInv, TypeOK
    <2>3. ASSUME NEW other \in JobId, Searching(other)', other # id
          PROVE  /\ queue[other].date \in dateKeys
                 /\ queue[other].date # d
                 /\ queue[other].step = "query" => searches'[queue[other].date] = 0
                 /\ \A third \in JobId : Searching(third)' /\ queue'[third].date = queue[other].date
                        => third = other
      <3>1. Searching(other) /\ queue[other].date # d /\ queue[other].date \in dateKeys
        BY <1>10, <2>1, <2>3 DEF IInv, Keyed
      <3>2. queue[other].step = "query" => searches'[queue[other].date] = 0
        BY <1>6, <3>1 DEF IInv, TypeOK, Keyed
      <3>3. ASSUME NEW third \in JobId, Searching(third)', queue'[third].date = queue[other].date
            PROVE third = other
        BY <1>2, <2>1, <2>2, <3>1, <3>3 DEF IInv, Keyed
      <3>4. QED
        BY <3>1, <3>2, <3>3
    <2>4. QED
      BY <1>2, <1>5, <2>1, <2>2, <2>3 DEF Keyed, BeginSearch
  <1>12. QED
    BY <1>7, <1>8, <1>9, <1>11 DEF IInv

LEMMA BeginWorkKeeps ==
    ASSUME IInv, NEW id \in JobId, BeginWork(id) PROVE IInv'
  <1> DEFINE q == [queue[id] EXCEPT !.step = "work", !.date = today]
  <1>1. /\ queue[id] \in JobRecord /\ today \in Date
        /\ queue[id].state = "running" /\ queue[id].task # "daily_job_search"
        /\ SoundRecord(queue[id], today, worked)
    BY DEF IInv, TypeOK, Sound, BeginWork, Does
  <1>2. /\ q \in JobRecord /\ q.task # "daily_job_search" /\ SoundRecord(q, today, worked')
    <2>1. today \in 0..LastDate /\ today \in 1..today
      BY <1>1 DEF Date
    <2>2. /\ q \in JobRecord /\ q.step = "work" /\ q.date = today
          /\ q.task = queue[id].task /\ q.state = "running"
      BY <1>1, <2>1 DEF JobRecord
    <2>3. SoundRecord(q, today, worked')
      BY <1>1, <2>1, <2>2 DEF SoundRecord
    <2>4. QED
      BY <1>1, <2>2, <2>3
  <1>3. queue' = [queue EXCEPT ![id] = q]
    BY <1>1 DEF IInv, TypeOK, JobRecord, BeginWork
  <1> HIDE DEF q
  <1>4. TypeOK'
    BY <1>2, <1>3 DEF IInv, TypeOK, BeginWork, history
  <1>5. Sound' /\ Links'
    BY <1>1, <1>2, <1>3, SoundKept, LinksKept DEF BeginWork, history
  <1>6. Keyed' /\ Searched'
    BY <1>2, <1>3, KeyedKept DEF BeginWork, history
  <1>7. QED
    BY <1>4, <1>5, <1>6 DEF IInv

LEMMA FinishWorkKeeps ==
    ASSUME IInv, NEW id \in JobId, FinishWork(id) PROVE IInv'
  <1>1. /\ queue[id] \in JobRecord /\ today \in Date /\ queue[id].task \in Task
        /\ queue[id].state = "running" /\ queue[id].step = "work"
        /\ SoundRecord(queue[id], today, worked)
    BY DEF IInv, TypeOK, Sound, SoundRecord, FinishWork, Does
  <1>2. queue[id].date \in Date
    BY <1>1 DEF SoundRecord, Date
  <1>3. worked \subseteq worked' /\ <<queue[id].task, queue[id].date>> \in worked'
    BY DEF FinishWork
  <1>4. PICK q \in JobRecord :
            /\ queue' = [queue EXCEPT ![id] = q] /\ SoundRecord(q, today, worked')
            /\ q.step # "start" => /\ q.step = "chain" /\ q.date = queue[id].date
                                   /\ q.task = queue[id].task
    <2>1. CASE queue' = Ended(id, "done")
      <3> DEFINE q == [NoJob EXCEPT !.task = queue[id].task, !.state = "done"]
      <3>1. q \in JobRecord /\ q.step = "start" /\ SoundRecord(q, today, worked')
        BY <1>1, RestingRecord
      <3>2. QED
        BY <2>1, <3>1 DEF Ended
    <2>2. CASE queue[id].task # "send_daily_digest" /\ GotoStep(id, "chain")
      <3> DEFINE q == [queue[id] EXCEPT !.step = "chain"]
      <3>1. /\ q \in JobRecord /\ q.step = "chain" /\ q.date = queue[id].date
            /\ q.task = queue[id].task /\ q.state = queue[id].state
        BY <1>1 DEF JobRecord
      <3>2. SoundRecord(q, today, worked')
        BY <1>1, <1>3, <2>2, <3>1 DEF SoundRecord
      <3>3. queue' = [queue EXCEPT ![id] = q]
        BY <1>1, <2>2 DEF IInv, TypeOK, JobRecord, GotoStep
      <3>4. QED
        BY <3>1, <3>2, <3>3
    <2>3. QED
      BY <1>1, <2>1, <2>2 DEF FinishWork, NextTask, Task
  <1>5. TypeOK'
    BY <1>1, <1>2, <1>4 DEF IInv, TypeOK, FinishWork
  <1>6. Sound' /\ Links'
    BY <1>1, <1>3, <1>4, SoundKept, LinksKept DEF FinishWork
  <1>7. q.task = "daily_job_search" /\ q.step # "start" =>
            Searching(id) /\ q.date = queue[id].date /\ q.step # "query"
    BY <1>1, <1>4 DEF Searching
  <1>8. Keyed' /\ Searched'
    BY <1>4, <1>7, KeyedKept DEF FinishWork
  <1>9. QED
    BY <1>5, <1>6, <1>8 DEF IInv

\* The successor a task queues comes after work that is done, on no later date.
LEMMA ChainKeeps ==
    ASSUME IInv, NEW id \in JobId, Chain(id) PROVE IInv'
  <1> DEFINE task == queue[id].task
             next == NextId(id)
             ended == [NoJob EXCEPT !.task = task, !.state = "done"]
             fresh == [NoJob EXCEPT !.task = NextTask(task), !.state = "queued"]
  <1>1. /\ task \in Task \ {"send_daily_digest"} /\ <<task, queue[id].date>> \in worked
        /\ queue[id].state = "running" /\ queue[id].date \in 1..today /\ today \in Date
    BY DEF IInv, TypeOK, Sound, SoundRecord, Chain, Does
  <1>2. NextTask(task) \in Task
    BY <1>1 DEF NextTask, Task
  <1>3. \/ task = "daily_job_search" /\ next = <<"analyze", queue[id].date>>
        \/ task = "analyze_new_jobs" /\ next = <<"match", today>>
        \/ task = "match_jobs" /\ next = <<"digest", today>>
    BY <1>1 DEF NextId, Task
  <1>4. queue[id].date \in Date
    BY <1>1 DEF Date
  <1>5. next \in JobId
    BY <1>1, <1>3, <1>4, IdsAreJobs
  <1>6. /\ ended \in JobRecord /\ ended.step = "start" /\ ended.state = "done"
        /\ fresh \in JobRecord /\ fresh.step = "start"
        /\ SoundRecord(ended, today, worked) /\ SoundRecord(fresh, today, worked)
    BY <1>1, <1>2, RestingRecord
  <1>7. \/ queue' = [queue EXCEPT ![id] = ended]
        \/ /\ queue[next].state = "absent"
           /\ queue' = [[queue EXCEPT ![id] = ended] EXCEPT ![next] = fresh]
    <2>1. Ended(id, "done") = [queue EXCEPT ![id] = ended]
      BY DEF Ended
    <2>2. next = id => Ended(id, "done")[next].state # "absent"
      BY <1>6, <2>1 DEF IInv, TypeOK
    <2>3. next # id => Ended(id, "done")[next] = queue[next]
      BY <1>5, <2>1 DEF IInv, TypeOK
    <2>4. QED
      BY <2>1, <2>2, <2>3 DEF Chain, Enqueued
  <1> HIDE DEF task, next, ended, fresh
  <1>8. \A other \in JobId : \/ queue'[other] = queue[other]
                            \/ queue'[other] \in {ended, fresh}
    BY <1>5, <1>7 DEF IInv, TypeOK
  <1>9. \A other \in JobId : queue'[other].state # "absent" =>
            queue[other].state # "absent" \/ other = next
    BY <1>1, <1>5, <1>7 DEF IInv, TypeOK
  <1>10. TypeOK'
    BY <1>5, <1>6, <1>7 DEF IInv, TypeOK, Chain, history
  <1>11. Sound'
    BY <1>6, <1>8 DEF IInv, Sound, Chain, history
  <1>12. Keyed' /\ Searched'
    <2>1. \A other \in JobId : Searching(other)' => Searching(other) /\ queue'[other] = queue[other]
      BY <1>6, <1>8 DEF Searching
    <2>2. QED
      BY <2>1 DEF IInv, Keyed, Searched, Chain, history
  <1>13. SearchFirst'
    <2>1. worked' = worked
      BY DEF Chain, history
    <2>2. ASSUME NEW d \in Date, queue'[<<"analyze", d>>].state # "absent"
          PROVE  <<"daily_job_search", d>> \in worked
      <3>1. CASE queue[<<"analyze", d>>].state # "absent"
        BY <3>1 DEF IInv, Links, SearchFirst
      <3>2. CASE <<"analyze", d>> = next
        <4>1. task = "daily_job_search" /\ d = queue[id].date
          BY <1>3, <3>2
        <4>2. QED
          BY <1>1, <4>1
      <3>3. QED
        BY <1>9, <2>2, <3>1, <3>2, IdsAreJobs
    <2>3. QED
      BY <2>1, <2>2 DEF SearchFirst
  <1>14. ChainOrder'
    <2>1. worked' = worked
      BY DEF Chain, history
    <2>2. ASSUME NEW d \in Date, queue'[<<"match", d>>].state # "absent"
          PROVE  \E e \in 1..d : <<"analyze_new_jobs", e>> \in worked
      <3>1. CASE queue[<<"match", d>>].state # "absent"
        BY <3>1 DEF IInv, Links, ChainOrder
      <3>2. CASE <<"match", d>> = next
        <4>1. task = "analyze_new_jobs" /\ d = today
          BY <1>3, <3>2
        <4>2. QED
          BY <1>1, <4>1
      <3>3. QED
        BY <1>9, <2>2, <3>1, <3>2, IdsAreJobs
    <2>3. ASSUME NEW d \in Date, queue'[<<"digest", d>>].state # "absent"
          PROVE  \E e \in 1..d : <<"match_jobs", e>> \in worked
      <3>1. CASE queue[<<"digest", d>>].state # "absent"
        BY <3>1 DEF IInv, Links, ChainOrder
      <3>2. CASE <<"digest", d>> = next
        <4>1. task = "match_jobs" /\ d = today
          BY <1>3, <3>2
        <4>2. QED
          BY <1>1, <4>1
      <3>3. QED
        BY <1>9, <2>3, <3>1, <3>2, IdsAreJobs
    <2>4. QED
      BY <2>1, <2>2, <2>3 DEF ChainOrder
  <1>15. QED
    BY <1>10, <1>11, <1>12, <1>13, <1>14 DEF IInv, Links

-------------------------------------------------------------------------------

LEMMA InitEstablishes == Init => IInv
  <1> SUFFICES ASSUME Init PROVE IInv
    OBVIOUS
  <1>1. NoJob \in JobRecord /\ NoJob.state = "absent" /\ NoJob.step = "start"
    BY DEF NoJob, JobRecord
  <1>2. TypeOK
    BY <1>1 DEF Init, TypeOK, Date
  <1>3. Sound /\ Keyed /\ Searched
    BY <1>1 DEF Init, Sound, SoundRecord, Keyed, Searched, Searching
  <1>4. Links
    BY <1>1, IdsAreJobs DEF Init, Links, SearchFirst, ChainOrder
  <1>5. QED
    BY <1>2, <1>3, <1>4 DEF IInv

LEMMA StepKeeps == IInv /\ [Next]_vars => IInv'
  <1> SUFFICES ASSUME IInv, [Next]_vars PROVE IInv'
    OBVIOUS
  <1>1. CASE FireCron
    <2>1. today \in Date /\ <<"cron", today>> \in JobId
      BY IdsAreJobs DEF IInv, TypeOK
    <2>2. <<"cron", today>> \notin {"analyze", "match", "digest"} \X Date
      OBVIOUS
    <2>3. QED
      BY <1>1, <2>1, <2>2, EnqueueKeeps DEF FireCron, Task
  <1>2. CASE Midnight
    BY <1>2, MidnightKeeps
  <1>3. ASSUME NEW m \in Manual, NEW task \in Task, EnqueueByHand(m, task) PROVE IInv'
    <2>1. <<"manual", m>> \in JobId
      BY DEF JobId
    <2>2. <<"manual", m>> \notin {"analyze", "match", "digest"} \X Date
      OBVIOUS
    <2>3. QED
      BY <1>3, <2>1, <2>2, EnqueueKeeps DEF EnqueueByHand
  <1>4. ASSUME NEW id \in JobId, StartTry(id) \/ TaskStep(id) \/ RaiseTry(id) \/ StopTry(id)
        PROVE  IInv'
    BY <1>4, StartTryKeeps, LostTryKeeps, AcquireDateKeeps, SkipDuplicateKeeps, BeginSearchKeeps,
       BeginWorkKeeps, FinishWorkKeeps, ChainKeeps DEF TaskStep
  <1>5. CASE UNCHANGED vars
    BY <1>5 DEF vars, history, IInv, TypeOK, Sound, Keyed, Searched, Searching, Links,
                SearchFirst, ChainOrder
  <1>6. QED
    BY <1>1, <1>2, <1>3, <1>4, <1>5 DEF Next

\* Whatever the cron, triggers by hand, restarts and midnight do, a date has one
\* search at most, and what is chained from it follows a search that finished
\* (workers/README.md:19 "one run per calendar day").
THEOREM OneSearchPerDateHolds == Spec => []OneSearchPerDate
  <1>1. IInv => OneSearchPerDate
    BY DEF IInv, Searched, Links, SearchFirst, OneSearchPerDate
  <1>2. QED
    BY InitEstablishes, StepKeeps, <1>1, PTL DEF Spec

\* match_jobs and the digest are queued under a date only once their predecessor
\* has done its work, that date or earlier (tasks.py:174-218).
THEOREM ChainOrderHolds == Spec => []ChainOrder
  <1>1. IInv => ChainOrder
    BY DEF IInv, Links
  <1>2. QED
    BY InitEstablishes, StepKeeps, <1>1, PTL DEF Spec

-------------------------------------------------------------------------------
(* Matching *)

USE MatchingAssumption

\* A process has its four attributes; what it has still to do is left open, as
\* the batches find their jobs by SelectSeq.
IsProcess(q) ==
    /\ q = [op |-> q.op, at |-> q.at, todo |-> q.todo, watch |-> q.watch]
    /\ q.watch \in Watch

Typed ==
    /\ proc = [p \in Process |-> proc[p]]
    /\ \A p \in Process : IsProcess(proc[p])
    /\ match \in [Job -> MatchRecord]
    /\ watch \in Watch

MatchInv == Typed /\ OutdatedOnlyByRace

\* A step of p changes no other process, and leaves p one.
StepOf(p) ==
    /\ proc' = [q \in Process |-> proc'[q]]
    /\ IsProcess(proc'[p])
    /\ \A q \in Process \ {p} : proc'[q] = proc[q]

-------------------------------------------------------------------------------
(* How processes move *)

LEMMA Update ==
    ASSUME Typed, NEW p \in Process, NEW q, IsProcess(q), proc' = [proc EXCEPT ![p] = q]
    PROVE  StepOf(p) /\ proc'[p] = q
  BY DEF Typed, StepOf

\* One attribute changes.
LEMMA Changed ==
    ASSUME NEW q, IsProcess(q), NEW x, NEW w \in Watch
    PROVE  /\ IsProcess([q EXCEPT !.op = x])
           /\ IsProcess([q EXCEPT !.at = x]) /\ [q EXCEPT !.at = x].at = x
           /\ IsProcess([q EXCEPT !.todo = x])
           /\ IsProcess([q EXCEPT !.watch = w])
  <1>0. PICK op, at, rest, seen : q = [op |-> op, at |-> at, todo |-> rest, watch |-> seen]
    BY DEF IsProcess
  <1>1. seen \in Watch
    BY <1>0 DEF IsProcess
  <1>2. [q EXCEPT !.op = x] = [op |-> x, at |-> at, todo |-> rest, watch |-> seen]
    BY <1>0
  <1>3. [q EXCEPT !.at = x] = [op |-> op, at |-> x, todo |-> rest, watch |-> seen]
    BY <1>0
  <1>4. [q EXCEPT !.todo = x] = [op |-> op, at |-> at, todo |-> x, watch |-> seen]
    BY <1>0
  <1>5. [q EXCEPT !.watch = w] = [op |-> op, at |-> at, todo |-> rest, watch |-> w]
    BY <1>0
  <1>6. ASSUME NEW o, NEW l, NEW t, NEW v \in Watch
        PROVE  IsProcess([op |-> o, at |-> l, todo |-> t, watch |-> v])
    BY DEF IsProcess
  <1>7. QED
    BY <1>1, <1>2, <1>3, <1>4, <1>5, <1>6

LEMMA Moved ==
    ASSUME NEW q, IsProcess(q), NEW place, NEW todo, NEW w \in Watch
    PROVE  /\ IsProcess([q EXCEPT !.at = place]) /\ [q EXCEPT !.at = place].at = place
           /\ IsProcess([q EXCEPT !.todo = todo, !.at = place])
           /\ IsProcess([q EXCEPT !.watch = w, !.at = place])
           /\ IsProcess([q EXCEPT !.at = place, !.watch = w])
  <1>1. IsProcess([q EXCEPT !.todo = todo]) /\ IsProcess([q EXCEPT !.watch = w])
        /\ IsProcess([q EXCEPT !.at = place]) /\ [q EXCEPT !.at = place].at = place
    BY Changed
  <1>2. IsProcess([[q EXCEPT !.todo = todo] EXCEPT !.at = place])
        /\ IsProcess([[q EXCEPT !.watch = w] EXCEPT !.at = place])
        /\ IsProcess([[q EXCEPT !.at = place] EXCEPT !.watch = w])
    BY <1>1, Changed
  <1>3. QED
    BY <1>1, <1>2

LEMMA GotoMoves ==
    ASSUME Typed, NEW p \in Process, NEW place, Goto(p, place)
    PROVE  StepOf(p) /\ proc'[p].at = place
  <1>1. IsProcess(proc[p]) /\ watch \in Watch
    BY DEF Typed
  <1>2. proc' = [proc EXCEPT ![p] = [proc[p] EXCEPT !.at = place]]
    BY <1>1 DEF Goto, Typed, IsProcess
  <1>3. IsProcess([proc[p] EXCEPT !.at = place]) /\ [proc[p] EXCEPT !.at = place].at = place
    BY <1>1, Changed
  <1>4. QED
    BY <1>2, <1>3, Update

LEMMA IdleIsProcess ==
    ASSUME NEW op, NEW place, NEW todo
    PROVE  /\ IsProcess(Idle) /\ IsProcess(Over)
           /\ IsProcess([Idle EXCEPT !.op = op, !.at = place, !.todo = todo])
  <1>1. IsProcess(Idle)
    BY DEF IsProcess, Idle, Watch
  <1>2. IsProcess(Over)
    BY <1>1, Changed DEF Over, Watch
  <1>3. IsProcess([Idle EXCEPT !.op = op])
    BY <1>1, Changed DEF Watch
  <1>4. IsProcess([[Idle EXCEPT !.op = op] EXCEPT !.at = place])
    BY <1>3, Changed DEF Watch
  <1>5. IsProcess([[[Idle EXCEPT !.op = op] EXCEPT !.at = place] EXCEPT !.todo = todo])
    BY <1>4, Changed DEF Watch
  <1>6. QED
    BY <1>1, <1>2, <1>5

LEMMA EndMoves ==
    ASSUME Typed, NEW p \in Process, End(p)
    PROVE  StepOf(p)
  BY IdleIsProcess, Update DEF End

LEMMA CollectMoves ==
    ASSUME Typed, NEW p \in Process, NEW jobs, NEW next, Collect(p, jobs, next)
    PROVE  StepOf(p)
  <1>1. CASE jobs = << >>
    BY <1>1, EndMoves DEF Collect
  <1>2. CASE jobs # << >>
    <2>1. IsProcess(proc[p]) /\ watch \in Watch
      BY DEF Typed
    <2>2. proc' = [proc EXCEPT ![p] = [proc[p] EXCEPT !.todo = jobs, !.at = next]]
      BY <1>2, <2>1 DEF Collect, Typed, IsProcess
    <2>3. QED
      BY <2>1, <2>2, Update, Moved
  <1>3. QED
    BY <1>1, <1>2

LEMMA NextJobMoves ==
    ASSUME Typed, NEW p \in Process, NextJob(p)
    PROVE  StepOf(p)
  BY CollectMoves DEF NextJob

LEMMA TypedKept ==
    ASSUME MatchInv, NEW p \in Process, StepOf(p), match' \in [Job -> MatchRecord], watch' \in Watch
    PROVE  Typed'
  BY DEF MatchInv, Typed, StepOf

-------------------------------------------------------------------------------
(* Steps that leave the table and the watchlist alone *)

LEMMA Harmless ==
    ASSUME MatchInv, NEW p \in Process, ~At(p, "mark"), StepOf(p), UNCHANGED <<match, watch>>,
           cut => cut'
    PROVE  MatchInv'
  <1>1. Typed'
    BY TypedKept DEF MatchInv, Typed
  <1>2. \A q \in Process : At(q, "mark") => At(q, "mark")'
    BY DEF StepOf, At
  <1>3. OutdatedOnlyByRace'
    BY <1>2 DEF MatchInv, OutdatedOnlyByRace, Current
  <1>4. QED
    BY <1>1, <1>3 DEF MatchInv

LEMMA BeginKeeps ==
    ASSUME MatchInv, NEW p \in Process, NEW op, NEW place, NEW jobs, Begin(p, op, place, jobs)
    PROVE  MatchInv'
  <1>1. StepOf(p)
    BY IdleIsProcess, Update DEF MatchInv, Begin
  <1>2. QED
    BY <1>1, Harmless DEF Begin, At

LEMMA ReadingKeeps ==
    ASSUME MatchInv, NEW p \in Process,
           \/ FindUnanalysed(p) \/ CheckAnalysis(p) \/ FindUnmatched(p) \/ LoadWatchlist(p)
           \/ CheckMatch(p) \/ ReadInputs(p) \/ WriteAnalysis(p) \/ FailAnalysis(p)
           \/ AbortAnalysis(p) \/ FailMatch(p)
    PROVE  MatchInv'
  <1>1. Typed
    BY DEF MatchInv
  <1>2. ~At(p, "mark") /\ UNCHANGED <<match, watch, cut>>
    BY DEF FindUnanalysed, CheckAnalysis, FindUnmatched, LoadWatchlist, CheckMatch, ReadInputs,
           WriteAnalysis, FailAnalysis, AbortAnalysis, FailMatch, At
  <1>3. CASE FindUnanalysed(p) \/ FindUnmatched(p)
    BY <1>1, <1>2, <1>3, CollectMoves, Harmless DEF FindUnanalysed, FindUnmatched
  <1>4. CASE CheckAnalysis(p) \/ CheckMatch(p)
    BY <1>1, <1>2, <1>4, NextJobMoves, GotoMoves, Harmless DEF CheckAnalysis, CheckMatch
  <1>5. CASE WriteAnalysis(p) \/ FailAnalysis(p) \/ AbortAnalysis(p)
    BY <1>1, <1>2, <1>5, NextJobMoves, EndMoves, Harmless
       DEF WriteAnalysis, FailAnalysis, AbortAnalysis
  <1>6. CASE FailMatch(p)
    BY <1>1, <1>2, <1>6, NextJobMoves, EndMoves, Harmless DEF FailMatch, GiveUp
  <1>7. CASE LoadWatchlist(p)
    <2>1. IsProcess(proc[p]) /\ watch \in Watch
      BY <1>1 DEF Typed
    <2>2. proc' = [proc EXCEPT ![p] = [proc[p] EXCEPT !.watch = watch, !.at = "check"]]
      BY <1>1, <1>7, <2>1 DEF LoadWatchlist, Typed, IsProcess
    <2>3. StepOf(p)
      BY <1>1, <2>1, <2>2, Update, Moved
    <2>4. QED
      BY <1>2, <2>3, Harmless
  <1>8. CASE ReadInputs(p)
    <2>1. IsProcess(proc[p]) /\ watch \in Watch
      BY <1>1 DEF Typed
    <2>2. PICK w \in Watch :
              proc' = [proc EXCEPT ![p] = [proc[p] EXCEPT !.at = "score", !.watch = w]]
      <3>1. CASE proc[p].op \in {"ensure", "change"}
        BY <1>1, <1>8, <2>1, <3>1 DEF ReadInputs, Typed, IsProcess
      <3>2. CASE proc[p].op \notin {"ensure", "change"}
        BY <1>1, <1>8, <2>1, <3>2 DEF ReadInputs, Typed, IsProcess
      <3>3. QED
        BY <3>1, <3>2
    <2>3. StepOf(p)
      BY <1>1, <2>1, <2>2, Update, Moved
    <2>4. QED
      BY <1>2, <2>3, Harmless
  <1>9. QED
    BY <1>3, <1>4, <1>5, <1>6, <1>7, <1>8

LEMMA QuietRequestKeeps ==
    ASSUME MatchInv, NEW r \in Process, GetForFeedback(r) \/ RefuseChange(r) \/ FindCompanyJobs(r)
    PROVE  MatchInv'
  <1>1. Typed /\ ~At(r, "mark") /\ UNCHANGED <<match, watch, cut>>
    BY DEF MatchInv, GetForFeedback, RefuseChange, FindCompanyJobs, At
  <1>2. StepOf(r)
    BY <1>1, GotoMoves, EndMoves, CollectMoves DEF GetForFeedback, RefuseChange, FindCompanyJobs
  <1>3. QED
    BY <1>1, <1>2, Harmless

-------------------------------------------------------------------------------
(* Steps that write *)

LEMMA ScoredType ==
    ASSUME Typed, NEW p \in Process, NEW j, NEW feedback \in BOOLEAN
    PROVE  /\ Scored(p, j, feedback) \in MatchRecord
           /\ Scored(p, j, feedback).feedback = feedback
           /\ j \in Linked \union Named /\ Scored(p, j, feedback).watch # watch =>
                  Scored(p, j, feedback).late
  <1>1. Entry(j, proc[p].watch) \in Watch
    BY DEF Typed, IsProcess, Entry, Watch
  <1>2. j \in Linked \union Named => Entry(j, proc[p].watch) = proc[p].watch /\ Entry(j, watch) = watch
    BY DEF Entry
  <1>3. QED
    BY <1>1, <1>2 DEF Scored, MatchRecord

\* A scoring that read the watchlist before a change knows it is late.
LEMMA WriteMatchKeeps ==
    ASSUME MatchInv, NEW p \in Process, WriteMatch(p)
    PROVE  MatchInv' /\ \A j \in Job : match[j].feedback => match'[j].feedback
  <1> DEFINE h == Head1(p)
             new == Scored(p, h, match[h].feedback)
  <1>1. Typed /\ ~At(p, "mark") /\ UNCHANGED <<watch, cut>>
    BY DEF MatchInv, WriteMatch, At
  <1>2. StepOf(p)
    BY <1>1, GotoMoves, NextJobMoves DEF WriteMatch
  <1>3. match' = [match EXCEPT ![h] = new]
    BY DEF WriteMatch
  <1>4. h \in Job => /\ new \in MatchRecord /\ new.feedback = match[h].feedback
                     /\ h \in Linked \union Named /\ new.watch # watch => new.late
    <2>1. h \in Job => match[h].feedback \in BOOLEAN
      BY <1>1 DEF Typed, MatchRecord
    <2>2. QED
      BY <1>1, <2>1, ScoredType
  <1> HIDE DEF h, new
  <1>5. match' \in [Job -> MatchRecord]
    BY <1>1, <1>3, <1>4 DEF Typed
  <1>6. Typed'
    BY <1>1, <1>2, <1>5, TypedKept DEF Typed
  <1>7. \A q \in Process : At(q, "mark") => At(q, "mark")'
    BY <1>1, <1>2 DEF StepOf, At
  <1>8. OutdatedOnlyByRace'
    <2>1. SUFFICES ASSUME NEW j \in Linked \union Named, Current(j)', match'[j].watch # watch,
                          ~match'[j].late, ~cut
                   PROVE  \E q \in Process : At(q, "mark")
      BY <1>1, <1>7 DEF OutdatedOnlyByRace
    <2>2. j \in Job
      OBVIOUS
    <2>3. CASE j = h
      BY <1>1, <1>3, <1>4, <2>1, <2>2, <2>3 DEF Typed
    <2>4. CASE j # h
      <3>1. match'[j] = match[j]
        BY <1>1, <1>3, <2>2, <2>4 DEF Typed
      <3>2. QED
        BY <2>1, <3>1 DEF MatchInv, OutdatedOnlyByRace, Current
    <2>5. QED
      BY <2>3, <2>4
  <1>9. \A j \in Job : match[j].feedback => match'[j].feedback
    BY <1>1, <1>3, <1>4 DEF Typed
  <1>10. QED
    BY <1>6, <1>8, <1>9 DEF MatchInv

LEMMA SetFeedbackKeeps ==
    ASSUME MatchInv, NEW p \in Process, SetFeedback(p)
    PROVE  MatchInv' /\ \A j \in Job : match[j].feedback => match'[j].feedback
  <1>1. Typed /\ ~At(p, "mark") /\ UNCHANGED <<watch, cut>>
    BY DEF MatchInv, SetFeedback, At
  <1>2. StepOf(p)
    BY <1>1, EndMoves DEF SetFeedback
  <1>3. \A j \in Job :
            /\ match'[j] \in MatchRecord /\ match'[j].version = match[j].version
            /\ match'[j].watch = match[j].watch /\ match'[j].late = match[j].late
            /\ match[j].feedback => match'[j].feedback
    BY <1>1 DEF Typed, MatchRecord, SetFeedback
  <1>4. match' \in [Job -> MatchRecord]
    BY <1>1, <1>3 DEF Typed, SetFeedback
  <1>5. Typed'
    BY <1>1, <1>2, <1>4, TypedKept DEF Typed
  <1>6. \A q \in Process : At(q, "mark") => At(q, "mark")'
    BY <1>1, <1>2 DEF StepOf, At
  <1>7. OutdatedOnlyByRace'
    BY <1>1, <1>3, <1>6 DEF MatchInv, OutdatedOnlyByRace, Current
  <1>8. QED
    BY <1>3, <1>5, <1>7 DEF MatchInv

\* From its write to its invalidation the change stands at "mark".
LEMMA ChangeEntryKeeps ==
    ASSUME MatchInv, NEW p \in Process, ChangeEntry(p) PROVE MatchInv'
  <1>1. Typed /\ UNCHANGED match /\ watch' \in Watch
    BY DEF MatchInv, ChangeEntry, Watch
  <1>2. StepOf(p) /\ proc'[p].at = "mark"
    BY <1>1, GotoMoves DEF ChangeEntry
  <1>3. Typed'
    BY <1>1, <1>2, TypedKept DEF Typed
  <1>4. QED
    BY <1>2, <1>3 DEF MatchInv, OutdatedOnlyByRace, At

\* The invalidation leaves no match of the company current.
LEMMA MarkStaleKeeps ==
    ASSUME MatchInv, NEW p \in Process, MarkStale(p)
    PROVE  MatchInv' /\ \A j \in Job : match[j].feedback => match'[j].feedback
  <1>1. Typed /\ UNCHANGED watch
    BY DEF MatchInv, MarkStale
  <1>2. StepOf(p)
    BY <1>1, GotoMoves DEF MarkStale
  <1>3. \A j \in Job :
            /\ match'[j] \in MatchRecord
            /\ match[j].feedback => match'[j].feedback
            /\ j \in Linked \union Named => match'[j].version # "current"
    BY <1>1 DEF Typed, MatchRecord, MarkStale, NoMatch
  <1>4. match' \in [Job -> MatchRecord]
    BY <1>3 DEF MarkStale
  <1>5. Typed'
    BY <1>1, <1>2, <1>4, TypedKept DEF Typed
  <1>6. OutdatedOnlyByRace'
    BY <1>3 DEF OutdatedOnlyByRace, Current
  <1>7. QED
    BY <1>3, <1>5, <1>6 DEF MatchInv

LEMMA StopKeeps ==
    ASSUME MatchInv, NEW r \in Process, Stop(r) PROVE MatchInv'
  <1>1. Typed /\ UNCHANGED <<match, watch>> /\ (cut => cut') /\ (At(r, "mark") => cut')
    BY DEF MatchInv, Stop
  <1>2. StepOf(r)
    BY <1>1, EndMoves DEF Stop
  <1>3. CASE ~At(r, "mark")
    BY <1>1, <1>2, <1>3, Harmless
  <1>4. CASE At(r, "mark")
    <2>1. Typed'
      BY <1>1, <1>2, TypedKept DEF Typed
    <2>2. QED
      BY <1>1, <1>4, <2>1 DEF MatchInv, OutdatedOnlyByRace
  <1>5. QED
    BY <1>3, <1>4

-------------------------------------------------------------------------------

LEMMA MatchInitEstablishes == MatchInit => MatchInv
  <1> SUFFICES ASSUME MatchInit PROVE MatchInv
    OBVIOUS
  <1>1. proc = [p \in Process |-> proc[p]] /\ \A p \in Process : proc[p] = Idle
    BY DEF MatchInit
  <1>2. \A p \in Process : IsProcess(proc[p])
    BY <1>1, IdleIsProcess
  <1>3. NoMatch \in MatchRecord /\ NoMatch.version # "current"
    BY DEF NoMatch, MatchRecord, Watch
  <1>4. Typed
    BY <1>1, <1>2, <1>3 DEF MatchInit, Typed
  <1>5. OutdatedOnlyByRace
    BY <1>3 DEF MatchInit, OutdatedOnlyByRace, Current
  <1>6. QED
    BY <1>4, <1>5 DEF MatchInv

LEMMA MatchStepKeeps ==
    ASSUME MatchInv, [MatchNext]_matchVars
    PROVE  MatchInv' /\ \A j \in Job : match[j].feedback => match'[j].feedback
  <1>1. CASE UNCHANGED matchVars
    BY <1>1 DEF matchVars, MatchInv, Typed, IsProcess, OutdatedOnlyByRace, Current, At
  <1>2. CASE BeginAnalyseBatch(Agent) \/ BeginEnsure(Agent)
    <2>1. Agent \in Process /\ match' = match
      BY <1>2 DEF Process, BeginAnalyseBatch, BeginEnsure, Begin
    <2>2. QED
      BY <1>2, <2>1, BeginKeeps DEF BeginAnalyseBatch, BeginEnsure
  <1>3. ASSUME NEW p \in Process,
               \/ BatchStep(p) \/ WriteAnalysis(p) \/ FailAnalysis(p)
               \/ AbortAnalysis(p) \/ FailMatch(p)
        PROVE  MatchInv' /\ match' = match
    <2>1. \/ FindUnanalysed(p) \/ CheckAnalysis(p) \/ FindUnmatched(p) \/ LoadWatchlist(p)
          \/ CheckMatch(p) \/ ReadInputs(p) \/ WriteAnalysis(p) \/ FailAnalysis(p)
          \/ AbortAnalysis(p) \/ FailMatch(p)
      BY <1>3 DEF BatchStep
    <2>2. match' = match
      BY <2>1 DEF FindUnanalysed, CheckAnalysis, FindUnmatched, LoadWatchlist, CheckMatch,
                  ReadInputs, WriteAnalysis, FailAnalysis, AbortAnalysis, FailMatch
    <2>3. QED
      BY <2>1, <2>2, ReadingKeeps
  <1>4. ASSUME NEW r \in Requests, RequestStep(r)
        PROVE  MatchInv' /\ \A j \in Job : match[j].feedback => match'[j].feedback
    <2>1. r \in Process
      BY DEF Process
    <2>2. CASE BeginEnsure(r) \/ BeginChange(r)
               \/ \E j \in Job : BeginMatch(r, j) \/ BeginFeedback(r, j)
      <3>1. match' = match
        BY <2>2 DEF BeginEnsure, BeginChange, BeginMatch, BeginFeedback, Begin
      <3>2. QED
        BY <2>1, <2>2, <3>1, BeginKeeps DEF BeginEnsure, BeginChange, BeginMatch, BeginFeedback
    <2>3. CASE GetForFeedback(r) \/ RefuseChange(r) \/ FindCompanyJobs(r)
      <3>1. match' = match
        BY <2>3 DEF GetForFeedback, RefuseChange, FindCompanyJobs
      <3>2. QED
        BY <2>1, <2>3, <3>1, QuietRequestKeeps
    <2>4. CASE ChangeEntry(r) \/ Stop(r)
      <3>1. match' = match
        BY <2>4 DEF ChangeEntry, Stop
      <3>2. QED
        BY <2>1, <2>4, <3>1, ChangeEntryKeeps, StopKeeps
    <2>5. CASE SetFeedback(r) \/ MarkStale(r)
      BY <2>1, <2>5, SetFeedbackKeeps, MarkStaleKeeps
    <2>6. QED
      BY <1>4, <2>2, <2>3, <2>4, <2>5 DEF RequestStep
  <1>5. ASSUME NEW p \in Process, WriteMatch(p)
        PROVE  MatchInv' /\ \A j \in Job : match[j].feedback => match'[j].feedback
    BY <1>5, WriteMatchKeeps
  <1>6. QED
    BY <1>1, <1>2, <1>3, <1>4, <1>5 DEF MatchNext

\* A match that is current and of another priority than today's, of a job the
\* invalidation covers, was scored by a racing process, or the change is not
\* past its write (company_service.py:188-196).
THEOREM OutdatedOnlyByRaceHolds == MatchSpec => []OutdatedOnlyByRace
  <1>1. MatchInv /\ [MatchNext]_matchVars => MatchInv'
    BY MatchStepKeeps
  <1>2. MatchInv => OutdatedOnlyByRace
    BY DEF MatchInv
  <1>3. QED
    BY MatchInitEstablishes, <1>1, <1>2, PTL DEF MatchSpec

\* A re-scoring never takes the user's feedback away (job_match_repository.py:20).
THEOREM FeedbackIsKept == MatchSpec => FeedbackKept
  <1>1. MatchInv /\ [MatchNext]_matchVars => MatchInv'
    BY MatchStepKeeps
  <1>2. MatchInv /\ [MatchNext]_matchVars => [\A j \in Job : match[j].feedback => match'[j].feedback]_matchVars
    BY MatchStepKeeps
  <1>3. QED
    BY MatchInitEstablishes, <1>1, <1>2, PTL DEF MatchSpec, FeedbackKept
===============================================================================
