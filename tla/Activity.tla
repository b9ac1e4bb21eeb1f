------------------------------- MODULE Activity -------------------------------
(*****************************************************************************)
(* What one user does with a job: applications, saved jobs, feedback, and    *)
(* the preference signals all of these teach.  application_service.py,       *)
(* preference_signal_service.py, their repositories and routers.             *)
(*                                                                           *)
(* Each write is a step of its own, with the reading before it when nothing  *)
(* but this request's own choice depends on it.  No code deletes a job or an *)
(* application.  The match a feedback is written on is made in module        *)
(* Matching.                                                                 *)
(*****************************************************************************)
EXTENDS Naturals, Sequences

CONSTANTS
    Job,
    Requests,  \* calls of the API, each made once
    Status     \* ApplicationStatus

ASSUME ActivityAssumption == Job # {} /\ "APPLIED" \in Status /\ "none" \notin Status

Verdict == {"LIKE", "DISLIKE", "NOT_RELEVANT"}
Hide == {"HIDE_COMPANY", "HIDE_ROLE"}
Kind == Verdict \union Hide \union {"SAVE", "APPLY"}

VARIABLES
    app,      \* the application of each job: its status and whether it is dated
    trail,    \* the statuses of its events, in order
    saved,    \* the jobs with a SavedJob row
    opinion,  \* JobMatch.feedback
    taught,   \* the kinds of the signals of each job
    req,      \* what each request is doing
    crossed,  \* history: jobs two requests worked on at once
    cut,      \* history: jobs a request left half-way
    erased    \* history: jobs of which signals, or the date, were removed by hand

vars == <<app, trail, saved, opinion, taught, req, crossed, cut, erased>>
history == <<crossed, cut, erased>>

NoApp == [status |-> "none", dated |-> FALSE]
Waiting == [at |-> "idle", job |-> CHOOSE j \in Job : TRUE, status |-> "none",
            kind |-> "none", first |-> FALSE]

TypeOK ==
    /\ app \in [Job -> [status : Status \union {"none"}, dated : BOOLEAN]]
    /\ trail \in [Job -> Seq(Status)]
    /\ saved \subseteq Job
    /\ opinion \in [Job -> Verdict \union {"none"}]
    /\ taught \in [Job -> SUBSET Kind]
    /\ req \in [Requests ->
                  [at : {"idle", "find", "create", "stamp", "update", "event", "save", "unsave",
                         "feedback", "others", "teach", "unteach", "ended"},
                   job : Job, status : Status \union {"none"}, kind : Kind \union {"none"},
                   first : BOOLEAN]]
    /\ crossed \subseteq Job /\ cut \subseteq Job /\ erased \subseteq Job

Init ==
    /\ app = [j \in Job |-> NoApp]
    /\ trail = [j \in Job |-> <<>>]
    /\ saved = {}
    /\ opinion = [j \in Job |-> "none"]
    /\ taught = [j \in Job |-> {}]
    /\ req = [r \in Requests |-> Waiting]
    /\ crossed = {} /\ cut = {} /\ erased = {}

-------------------------------------------------------------------------------
(* Requests *)

At(r, place) == req[r].at = place
Of(r) == req[r].job
Goto(r, place) == req' = [req EXCEPT ![r].at = place]
Busy(j) == \E r \in Requests : req[r].job = j /\ req[r].at \notin {"idle", "ended"}

Begin(r, place, j, status, kind) ==
    /\ At(r, "idle")
    /\ req' = [req EXCEPT ![r] = [at |-> place, job |-> j, status |-> status,
                                  kind |-> kind, first |-> FALSE]]
    /\ crossed' = IF Busy(j) THEN crossed \union {j} ELSE crossed
    /\ UNCHANGED <<app, trail, saved, opinion, taught, cut, erased>>

BeginTrack(r, j, s) == Begin(r, "create", j, s, "none") /\ app[j] = NoApp
BeginStatus(r, j, s) == Begin(r, "find", j, s, "none")
BeginSave(r, j) == Begin(r, "save", j, "none", "SAVE")
BeginUnsave(r, j) == Begin(r, "unsave", j, "none", "SAVE")
BeginFeedback(r, j, k) == Begin(r, "feedback", j, "none", k)
BeginHide(r, j, k) == Begin(r, "teach", j, "none", k)

\* An exception, a client that has gone, a restart.
Stop(r) ==
    /\ req[r].at \notin {"idle", "ended"}
    /\ Goto(r, "ended")
    /\ cut' = cut \union {Of(r)}
    /\ UNCHANGED <<app, trail, saved, opinion, taught, crossed, erased>>

-------------------------------------------------------------------------------
(* Applications *)

\* track_job found none.  The unique key lets one create through.
CreateApplication(r) ==
    /\ At(r, "create")
    /\ IF app[Of(r)] = NoApp
       THEN /\ app' = [app EXCEPT ![Of(r)].status = req[r].status]
            /\ Goto(r, IF req[r].status = "APPLIED" THEN "stamp" ELSE "event")
       ELSE Goto(r, "ended") /\ UNCHANGED app
    /\ UNCHANGED <<trail, saved, opinion, taught, history>>

StampApplication(r) ==
    /\ At(r, "stamp")
    /\ app' = [app EXCEPT ![Of(r)].dated = TRUE]
    /\ req' = [req EXCEPT ![r].at = "event", ![r].first = TRUE]
    /\ UNCHANGED <<trail, saved, opinion, taught, history>>

\* update_status reads the row: 404 without one, nothing to do for the same
\* status.
FindApplication(r) ==
    /\ At(r, "find")
    /\ req' = [req EXCEPT
          ![r].at = IF app[Of(r)].status \in {"none", req[r].status} THEN "ended" ELSE "update",
          ![r].first = req[r].status = "APPLIED" /\ ~app[Of(r)].dated]
    /\ UNCHANGED <<app, trail, saved, opinion, taught, history>>

\* Mutant of UpdateStatus: the date is left to the details form.
UpdateStatusUndated(r) ==
    /\ At(r, "update")
    /\ app' = [app EXCEPT ![Of(r)].status = req[r].status]
    /\ Goto(r, "event")
    /\ UNCHANGED <<trail, saved, opinion, taught, history>>

UpdateStatus(r) ==
    /\ At(r, "update")
    /\ app' = [app EXCEPT ![Of(r)] = [status |-> req[r].status, dated |-> @.dated \/ req[r].first]]
    /\ Goto(r, "event")
    /\ UNCHANGED <<trail, saved, opinion, taught, history>>

\* A first application is taught too.
AddEvent(r) ==
    /\ At(r, "event")
    /\ trail' = [trail EXCEPT ![Of(r)] = Append(@, req[r].status)]
    /\ req' = [req EXCEPT ![r].at = IF req[r].first THEN "teach" ELSE "ended",
                          ![r].kind = "APPLY"]
    /\ UNCHANGED <<app, saved, opinion, taught, history>>

\* update_details: the user enters the date, or clears it.
EnterDate(r, j, dated) ==
    /\ At(r, "idle") /\ app[j] # NoApp
    /\ app' = [app EXCEPT ![j].dated = dated]
    /\ Goto(r, "ended")
    /\ crossed' = IF Busy(j) THEN crossed \union {j} ELSE crossed
    /\ erased' = erased \union {j}
    /\ UNCHANGED <<trail, saved, opinion, taught, cut>>

-------------------------------------------------------------------------------
(* Saved jobs, feedback, signals *)

SaveJob(r) ==
    /\ At(r, "save")
    /\ saved' = saved \union {Of(r)}
    /\ Goto(r, "teach")
    /\ UNCHANGED <<app, trail, opinion, taught, history>>

\* Mutant of UnsaveJob: the signal stays.
UnsaveOnly(r) ==
    /\ At(r, "unsave")
    /\ saved' = saved \ {Of(r)}
    /\ Goto(r, "ended")
    /\ UNCHANGED <<app, trail, opinion, taught, history>>

UnsaveJob(r) ==
    /\ At(r, "unsave")
    /\ saved' = saved \ {Of(r)}
    /\ Goto(r, "unteach")
    /\ UNCHANGED <<app, trail, opinion, taught, history>>

SetFeedback(r) ==
    /\ At(r, "feedback")
    /\ opinion' = [opinion EXCEPT ![Of(r)] = req[r].kind]
    /\ Goto(r, "others")
    /\ UNCHANGED <<app, trail, saved, taught, history>>

\* record: a verdict first deletes the other verdicts of the job.
DeleteOthers(r) ==
    /\ At(r, "others")
    /\ taught' = [taught EXCEPT ![Of(r)] = @ \ (Verdict \ {req[r].kind})]
    /\ Goto(r, "teach")
    /\ UNCHANGED <<app, trail, saved, opinion, history>>

Upsert(r) ==
    /\ At(r, "teach")
    /\ taught' = [taught EXCEPT ![Of(r)] = @ \union {req[r].kind}]
    /\ Goto(r, "ended")
    /\ UNCHANGED <<app, trail, saved, opinion, history>>

\* Mutant of DeleteKind: without the kind in its condition.
DeleteEveryKind(r) ==
    /\ At(r, "unteach")
    /\ taught' = [taught EXCEPT ![Of(r)] = {}]
    /\ Goto(r, "ended")
    /\ UNCHANGED <<app, trail, saved, opinion, history>>

DeleteKind(r) ==
    /\ At(r, "unteach")
    /\ taught' = [taught EXCEPT ![Of(r)] = @ \ {req[r].kind}]
    /\ Goto(r, "ended")
    /\ UNCHANGED <<app, trail, saved, opinion, history>>

\* DELETE /preferences/signals/{id}.
RemoveSignal(r, j, k) ==
    /\ At(r, "idle") /\ k \in taught[j]
    /\ taught' = [taught EXCEPT ![j] = @ \ {k}]
    /\ Goto(r, "ended")
    /\ erased' = erased \union {j}
    /\ UNCHANGED <<app, trail, saved, opinion, crossed, cut>>

\* DELETE /preferences.
Reset(r) ==
    /\ At(r, "idle")
    /\ taught' = [j \in Job |-> {}]
    /\ Goto(r, "ended")
    /\ erased' = Job
    /\ UNCHANGED <<app, trail, saved, opinion, crossed, cut>>

-------------------------------------------------------------------------------

Step(r) ==
    \/ CreateApplication(r) \/ StampApplication(r) \/ FindApplication(r) \/ UpdateStatus(r)
    \/ AddEvent(r) \/ SaveJob(r) \/ UnsaveJob(r) \/ SetFeedback(r) \/ DeleteOthers(r)
    \/ Upsert(r) \/ DeleteKind(r) \/ Reset(r) \/ Stop(r)

Next ==
    \E r \in Requests :
        \/ Step(r)
        \/ \E j \in Job :
             \/ \E s \in Status : BeginTrack(r, j, s) \/ BeginStatus(r, j, s)
             \/ \E k \in Verdict : BeginFeedback(r, j, k)
             \/ \E k \in Hide : BeginHide(r, j, k)
             \/ \E k \in Kind : RemoveSignal(r, j, k)
             \/ \E dated \in BOOLEAN : EnterDate(r, j, dated)
             \/ BeginSave(r, j) \/ BeginUnsave(r, j)

Spec == Init /\ [][Next]_vars

-------------------------------------------------------------------------------
(* Properties *)

Settled(j) == ~Busy(j) /\ j \notin cut
Verdicts(j) == taught[j] \intersect Verdict

\* What is learned agrees with what the user did: a job is taught as saved if
\* and only if it is saved, and one verdict at most is taught, that of the
\* match.  Only requests that overlap on the job, or stop half-way, can upset it
\* (preference_signal_service.py:31 "one verdict at a time", jobs.py:153).
TaughtMatchesFacts ==
    \A j \in Job : Settled(j) /\ j \notin crossed \union erased =>
        /\ ("SAVE" \in taught[j]) <=> (j \in saved)
        /\ Verdicts(j) = {opinion[j]} \ {"none"}

\* Whatever overlaps, a judged job keeps a verdict: two requests that each
\* delete the other's may leave two, never none
\* (preference_signal_service.py:180-189).
VerdictSurvives ==
    \A j \in Job : Settled(j) /\ j \notin erased /\ opinion[j] # "none" => Verdicts(j) # {}

\* Whatever overlaps, an application that is APPLIED carries its date, its
\* timeline says so and the signal is taught, unless the user removed one or a
\* request stopped half-way: track_job would find the row and return it, so
\* nothing repairs it later (application_service.py:41-52, 79-98).
AppliedIsDatedAndTaught ==
    \A j \in Job : Settled(j) /\ j \notin erased /\ app[j].status = "APPLIED" =>
        /\ app[j].dated /\ "APPLY" \in taught[j]
        /\ \E i \in DOMAIN trail[j] : trail[j][i] = "APPLIED"
===============================================================================
