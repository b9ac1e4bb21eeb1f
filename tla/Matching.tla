------------------------------- MODULE Matching -------------------------------
(*****************************************************************************)
(* Analyses, matches and the watchlist of one user: job_analysis_service.py, *)
(* candidate_matching_service.py, company_service.py and their repositories. *)
(*                                                                           *)
(* A match keeps the priority its job's company had when it was scored; the  *)
(* rest of the score is pure (module RuleBasedMatcher).  Every database call *)
(* that matters is a step of its own; the calls of one match_job that only   *)
(* read are one step, and so is each watchlist write with the lookup before  *)
(* it, since the unique key and the missing row decide the races there.  The *)
(* AI layer adds text or fails silently: it is the time between ReadInputs   *)
(* and WriteMatch.  No code deletes a job.                                   *)
(*****************************************************************************)
EXTENDS Naturals, Sequences, FiniteSets

CONSTANTS
    Newest,      \* the jobs, newest first: the order of the batch queries
    Linked,      \* jobs whose companyId is the company's
    Named,       \* jobs without companyId that carry the company's name
    Variant,     \* jobs without companyId and with another spelling of it
    Unreadable,  \* jobs whose analysis the language model always gets wrong
    Requests,    \* calls of the API, each made once
    Agent,       \* the worker, whose batches recur
    Limit,       \* agent_match_batch, agent_analyze_batch, match_batch_limit
    Priorities   \* the priorities of a watchlist entry

Job == {Newest[i] : i \in DOMAIN Newest}

ASSUME MatchingAssumption ==
    /\ Linked \subseteq Job /\ Named \subseteq Job /\ Variant \subseteq Job
    /\ Unreadable \subseteq Job
    /\ Agent \notin Requests
    /\ Limit \in Nat \ {0}
    /\ "off" \notin Priorities

Process == Requests \union {Agent}
Watch == Priorities \union {"off"}

VARIABLES
    analysed,  \* jobs with an analysis of the current prompt
    match,     \* the JobMatch row of each job
    watch,     \* the company's watchlist entry: its priority, or "off"
    proc,      \* what each process is doing
    cut        \* history: a change ended between its write and its invalidation

matchVars == <<analysed, match, watch, proc, cut>>

NoMatch == [version |-> "absent", watch |-> "off", feedback |-> FALSE, late |-> FALSE]

\* late is history: the priority had changed between its reading and the upsert.
MatchRecord == [version : {"absent", "current", "stale"}, watch : Watch,
                feedback : BOOLEAN, late : BOOLEAN]

Idle == [op |-> "none", at |-> "idle", todo |-> <<>>, watch |-> "off"]
Over == [Idle EXCEPT !.at = "ended"]

MatchTypeOK ==
    /\ analysed \subseteq Job
    /\ match \in [Job -> MatchRecord]
    /\ watch \in Watch
    /\ proc \in [Process -> [op : {"none", "analyse", "ensure", "match", "feedback", "change"},
                             at : {"idle", "find", "load", "check", "read", "score", "ask",
                                   "get", "set", "entry", "mark", "company", "ended"},
                             todo : Seq(Job), watch : Watch]]
    /\ cut \in BOOLEAN

MatchInit ==
    /\ analysed = {}
    /\ match = [j \in Job |-> NoMatch]
    /\ watch \in Watch
    /\ proc = [p \in Process |-> Idle]
    /\ cut = FALSE

-------------------------------------------------------------------------------
(* Helpers *)

At(p, place) == proc[p].at = place
Goto(p, place) == proc' = [proc EXCEPT ![p].at = place]
Current(j) == match[j].version = "current"
Head1(p) == Head(proc[p].todo)
Forced(p) == proc[p].op = "change"

\* The agent begins again, a request is over.
End(p) == proc' = [proc EXCEPT ![p] = IF p = Agent THEN Idle ELSE Over]

\* take=limit, order createdAt desc.
FirstOf(jobs) ==
    LET found == SelectSeq(Newest, LAMBDA j : j \in jobs)
    IN  SubSeq(found, 1, IF Len(found) < Limit THEN Len(found) ELSE Limit)

\* A batch is over with its last job: what it still reads changes nothing.
Collect(p, jobs, next) ==
    IF jobs = <<>> THEN End(p)
    ELSE proc' = [proc EXCEPT ![p].todo = jobs, ![p].at = next]

\* On to the next job of a batch.
NextJob(p) == Collect(p, Tail(proc[p].todo), "check")

\* An exception: a batch skips the job, a request fails.
GiveUp(p) == IF proc[p].op \in {"ensure", "change"} THEN NextJob(p) ELSE End(p)

\* _watchlist_entry_for: by company id, else by normalized name.
Entry(j, w) == IF j \in Linked \union Named \union Variant THEN w ELSE "off"

-------------------------------------------------------------------------------
(* What begins *)

Begin(p, op, place, jobs) ==
    /\ At(p, "idle")
    /\ proc' = [proc EXCEPT ![p] = [Idle EXCEPT !.op = op, !.at = place, !.todo = jobs]]
    /\ UNCHANGED <<analysed, match, watch, cut>>

BeginAnalyseBatch(p) == Begin(p, "analyse", "find", <<>>)
BeginEnsure(p) == Begin(p, "ensure", "find", <<>>)
BeginMatch(r, j) == Begin(r, "match", "check", <<j>>)
BeginFeedback(r, j) == Begin(r, "feedback", "get", <<j>>)
BeginChange(r) == Begin(r, "change", "entry", <<>>)

-------------------------------------------------------------------------------
(* Analyses *)

FindUnanalysed(p) ==
    /\ proc[p].op = "analyse" /\ At(p, "find")
    /\ Collect(p, FirstOf(Job \ analysed), "check")
    /\ UNCHANGED <<analysed, match, watch, cut>>

\* analyze_job returns the cached row of another batch, or asks the model.
CheckAnalysis(p) ==
    /\ proc[p].op = "analyse" /\ At(p, "check")
    /\ IF Head1(p) \in analysed THEN NextJob(p) ELSE Goto(p, "ask")
    /\ UNCHANGED <<analysed, match, watch, cut>>

WriteAnalysis(p) ==
    /\ At(p, "ask") /\ Head1(p) \notin Unreadable
    /\ analysed' = analysed \union {Head1(p)}
    /\ NextJob(p)
    /\ UNCHANGED <<match, watch, cut>>

\* LLMError: logged and skipped.
FailAnalysis(p) ==
    /\ At(p, "ask")
    /\ NextJob(p)
    /\ UNCHANGED <<analysed, match, watch, cut>>

\* Any other exception ends the batch.
AbortAnalysis(p) ==
    /\ At(p, "ask")
    /\ End(p)
    /\ UNCHANGED <<analysed, match, watch, cut>>

-------------------------------------------------------------------------------
(* Matches *)

\* Mutant of FindUnmatched: the newest jobs, matched or not.
FindNewest(p) ==
    /\ proc[p].op = "ensure" /\ At(p, "find")
    /\ Collect(p, FirstOf(Job), "load")
    /\ UNCHANGED <<analysed, match, watch, cut>>

FindUnmatched(p) ==
    /\ proc[p].op = "ensure" /\ At(p, "find")
    /\ Collect(p, FirstOf({j \in Job : ~Current(j)}), "load")
    /\ UNCHANGED <<analysed, match, watch, cut>>

\* One reading for the whole batch.
LoadWatchlist(p) ==
    /\ At(p, "load")
    /\ proc' = [proc EXCEPT ![p].watch = watch, ![p].at = "check"]
    /\ UNCHANGED <<analysed, match, watch, cut>>

\* match_job: the cached row unless forced.
CheckMatch(p) ==
    /\ proc[p].op # "analyse" /\ At(p, "check")
    /\ IF Forced(p) \/ ~Current(Head1(p)) THEN Goto(p, "read")
       ELSE IF proc[p].op = "feedback" THEN Goto(p, "set")
       ELSE NextJob(p)
    /\ UNCHANGED <<analysed, match, watch, cut>>

\* Profile, analysis and, outside a batch, the watchlist are read.
ReadInputs(p) ==
    /\ At(p, "read")
    /\ proc' = [proc EXCEPT ![p].at = "score",
                            ![p].watch = IF proc[p].op \in {"ensure", "change"} THEN @ ELSE watch]
    /\ UNCHANGED <<analysed, match, watch, cut>>

Scored(p, j, feedback) ==
    [version |-> "current", watch |-> Entry(j, proc[p].watch), feedback |-> feedback,
     late |-> Entry(j, proc[p].watch) # Entry(j, watch)]

\* Mutant of WriteMatch: the upsert writes every column.
WriteWholeMatch(p) ==
    /\ At(p, "score")
    /\ match' = [match EXCEPT ![Head1(p)] = Scored(p, Head1(p), FALSE)]
    /\ IF proc[p].op = "feedback" THEN Goto(p, "set") ELSE NextJob(p)
    /\ UNCHANGED <<analysed, watch, cut>>

\* The upsert leaves the feedback columns alone.
WriteMatch(p) ==
    /\ At(p, "score")
    /\ match' = [match EXCEPT ![Head1(p)] = Scored(p, Head1(p), @.feedback)]
    /\ IF proc[p].op = "feedback" THEN Goto(p, "set") ELSE NextJob(p)
    /\ UNCHANGED <<analysed, watch, cut>>

\* One of the calls since the check has raised.
FailMatch(p) ==
    /\ At(p, "score")
    /\ GiveUp(p)
    /\ UNCHANGED <<analysed, match, watch, cut>>

\* record_feedback makes the match first if there is none.
GetForFeedback(p) ==
    /\ At(p, "get")
    /\ Goto(p, IF match[Head1(p)] = NoMatch THEN "check" ELSE "set")
    /\ UNCHANGED <<analysed, match, watch, cut>>

SetFeedback(p) ==
    /\ At(p, "set")
    /\ match' = [match EXCEPT ![Head1(p)].feedback = TRUE]
    /\ End(p)
    /\ UNCHANGED <<analysed, watch, cut>>

-------------------------------------------------------------------------------
(* Watchlist changes *)

\* add_to_watchlist, update_entry, remove_entry.
ChangeEntry(p) ==
    /\ At(p, "entry")
    /\ \/ watch = "off" /\ watch' \in Priorities
       \/ watch # "off" /\ watch' \in Watch
    /\ Goto(p, "mark")
    /\ UNCHANGED <<analysed, match, cut>>

\* 409 for an entry that exists, 404 for one that does not.
RefuseChange(p) ==
    /\ At(p, "entry")
    /\ End(p)
    /\ UNCHANGED <<analysed, match, watch, cut>>

\* Mutant of MarkStale: without the branch on the name.
MarkLinkedStale(p) ==
    /\ At(p, "mark")
    /\ match' = [j \in Job |-> IF j \in Linked /\ match[j] # NoMatch
                               THEN [match[j] EXCEPT !.version = "stale"] ELSE match[j]]
    /\ Goto(p, "company")
    /\ UNCHANGED <<analysed, watch, cut>>

\* mark_stale_for_company: by company id, or by the company's name.
MarkStale(p) ==
    /\ At(p, "mark")
    /\ match' = [j \in Job |-> IF j \in Linked \union Named /\ match[j] # NoMatch
                               THEN [match[j] EXCEPT !.version = "stale"] ELSE match[j]]
    /\ Goto(p, "company")
    /\ UNCHANGED <<analysed, watch, cut>>

\* rescore_company: find_candidates_by_company looks by id only.
FindCompanyJobs(p) ==
    /\ At(p, "company")
    /\ Collect(p, FirstOf(Linked), "load")
    /\ UNCHANGED <<analysed, match, watch, cut>>

\* A request stops half-way: the client has gone, the server is restarted, or
\* a call outside the loops raises.
Stop(r) ==
    /\ proc[r].at \notin {"idle", "ended"}
    /\ cut' = (cut \/ At(r, "mark"))
    /\ End(r)
    /\ UNCHANGED <<analysed, match, watch>>

-------------------------------------------------------------------------------

BatchStep(p) ==
    \/ FindUnanalysed(p) \/ CheckAnalysis(p) \/ FindUnmatched(p) \/ LoadWatchlist(p)
    \/ CheckMatch(p) \/ ReadInputs(p)

RequestStep(r) ==
    \/ BeginEnsure(r) \/ BeginChange(r)
    \/ \E j \in Job : BeginMatch(r, j) \/ BeginFeedback(r, j)
    \/ GetForFeedback(r) \/ SetFeedback(r)
    \/ ChangeEntry(r) \/ RefuseChange(r) \/ MarkStale(r) \/ FindCompanyJobs(r) \/ Stop(r)

MatchNext ==
    \/ BeginAnalyseBatch(Agent) \/ BeginEnsure(Agent)
    \/ \E p \in Process : \/ BatchStep(p) \/ WriteAnalysis(p) \/ FailAnalysis(p)
                          \/ AbortAnalysis(p) \/ WriteMatch(p) \/ FailMatch(p)
    \/ \E r \in Requests : RequestStep(r)

\* The model's answer to the jobs it reads, its error to the others.
Answered(p) == WriteAnalysis(p) \/ (FailAnalysis(p) /\ Head1(p) \in Unreadable)

\* The agent runs both batches every day and each ends; a call that can succeed
\* is not refused for ever.
MatchSpec ==
    /\ MatchInit /\ [][MatchNext]_matchVars
    /\ SF_matchVars(BeginAnalyseBatch(Agent)) /\ SF_matchVars(BeginEnsure(Agent))
    /\ WF_matchVars(BatchStep(Agent))
    /\ \A j \in Job : SF_matchVars(WriteMatch(Agent) /\ Head1(Agent) = j)
                   /\ SF_matchVars(Answered(Agent) /\ Head1(Agent) = j)

-------------------------------------------------------------------------------
(* Properties *)

\* A re-scoring never takes the user's feedback away, whatever runs at once
\* (upsert_for_user_job, job_match_repository.py:20; set_feedback, :29).
FeedbackKept == [][\A j \in Job : match[j].feedback => match'[j].feedback]_matchVars

\* A match the batch queries pass over (its version is current) of a job the
\* invalidation covers was scored with another priority than today's only
\* because a scoring read the watchlist before a change and wrote after it, or
\* because the change is not past its write (company_service.py:188-196).
OutdatedOnlyByRace ==
    \A j \in Linked \union Named :
        Current(j) /\ match[j].watch # watch =>
            match[j].late \/ cut \/ \E p \in Process : At(p, "mark")

\* "Mark every stored match stale" (company_service.py:189-190), "the name
\* branch catches legacy jobs whose companyId is null"
\* (job_match_repository.py:103): once no process is under way and no change
\* was cut short, a current match agrees with the watchlist.
ChangeReachesMatches ==
    (~cut /\ \A p \in Process : proc[p].at \in {"idle", "ended"}) =>
        \A j \in Job : Current(j) /\ ~match[j].late => match[j].watch = Entry(j, watch)

\* The recurring batch scores every job in the end and keeps it so: neither the
\* limit with its newest-first order nor failures of single jobs nor the
\* invalidations starve one (candidate_matching_service.py:151).
AllScored == <>[](\A j \in Job : Current(j))
===============================================================================
