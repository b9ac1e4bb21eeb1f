------------------------------- MODULE Discovery -------------------------------
(*****************************************************************************)
(* DiscoveryService.run_search: select the sources, open a SearchRun row,    *)
(* fetch from the sources concurrently, hand what came back to               *)
(* Deduplication, close the row.  Several searches run at once; each is      *)
(* called directly by the API or by the scheduled task, and may raise, or    *)
(* stop with the process (or be cancelled, which run_search does not catch), *)
(* between any two of its database calls.                                    *)
(*****************************************************************************)
EXTENDS Naturals, SequencesExt, FiniteSets

CONSTANTS
    Similarity(_, _), Unknown, Weight, MinTitle, LinkThreshold, MergeThreshold,
    Run, Offer, Source, KnownSource,
    ExternalId, ContentHash, Url, Company, Metadata,
    NoValue, Absent, MaxCandidates,
    Registered, \* the registry's source names, sorted: a sequence
    Request,    \* source lists a query may carry, without repeats; NoValue: all
    Enabled,    \* sets of sources that may be enabled when a search starts
    Fetch       \* the normalized postings a source may come back with

VARIABLES
    jobs, listings, companies, pc, batch, target, result,
    phase,   \* where each search is in run_search
    plan,    \* the sources by name, in order: the ones to call, the rejected ones
    fetched, \* what each source's call has come to
    row      \* the SearchRun row of each search

dedupVars == <<jobs, listings, companies, pc, batch, target, result>>
vars == <<dedupVars, phase, plan, fetched, row>>

Dedup == INSTANCE Deduplication WITH Batches <- Seq(Offer), Unreliable <- Run

\* SourceFetchResult
Pending == [state |-> "pending", jobs |-> << >>]
Failed == [state |-> "error", jobs |-> << >>]
Answer(postings) == [state |-> "ok", jobs |-> postings]

\* Of the postings, what Deduplication assumes of them.
ASSUME RequestAssumption ==
    /\ Offer \subseteq [source : Source, externalId : ExternalId \union {NoValue},
                        contentHash : ContentHash, canonicalUrl : Url \union {NoValue},
                        company : Company, metadata : Metadata \union {NoValue}]
    /\ KnownSource \subseteq Source
    /\ MaxCandidates \in Nat
    /\ Absent \notin Metadata \union {NoValue}
    /\ NoValue \notin ExternalId \union Url \union Metadata
    /\ IsFiniteSet(Run)
    /\ Registered \in Seq(Source)
    /\ Request \subseteq Seq(Source) \union {NoValue}
    /\ Enabled \subseteq SUBSET ToSet(Registered)
    /\ \A s \in ToSet(Registered) : Fetch[s] \subseteq Seq(Offer)

NoRow == [status |-> "none", attempted |-> {}, succeeded |-> {}, failed |-> {},
          found |-> 0, new |-> 0, duplicate |-> 0]

Init ==
    /\ Dedup!Init
    /\ phase = [r \in Run |-> "idle"]
    /\ plan = [r \in Run |-> [names |-> << >>, runnable |-> {}, rejected |-> {}]]
    /\ fetched = [r \in Run |-> [s \in Source |-> Pending]]
    /\ row = [r \in Run |-> NoRow]

Runnable(r) == plan[r].runnable
Attempted(r) == Runnable(r) \union plan[r].rejected
Succeeded(r) == {s \in Runnable(r) : fetched[r][s] # Failed}
FailedSources(r) == Attempted(r) \ Succeeded(r)

\* The postings of the sources without error, source by source; one that was
\* not called has none.
BatchOf(r) ==
    FlattenSeq([n \in DOMAIN plan[r].names |-> fetched[r][plan[r].names[n]].jobs])

Enter(r, label) == phase' = [phase EXCEPT ![r] = label]

-------------------------------------------------------------------------------

\* InvalidInputError for an unknown name, before a row exists.
Refuse(r) ==
    /\ phase[r] = "idle"
    /\ \E names \in Request \ {NoValue} : ~(ToSet(names) \subseteq ToSet(Registered))
    /\ Enter(r, "refused")
    /\ UNCHANGED <<dedupVars, plan, fetched, row>>

\* Select the sources and create the row.  A disabled source is rejected if it
\* was asked for by name and left out otherwise.
Launch(r) ==
    /\ phase[r] = "idle"
    /\ \E request \in Request, enabled \in Enabled :
         LET names    == IF request = NoValue THEN Registered ELSE request
             runnable == ToSet(names) \intersect enabled
             rejected == IF request = NoValue THEN {} ELSE ToSet(names) \ enabled
         IN  /\ ToSet(names) \subseteq ToSet(Registered)
             /\ plan' = [plan EXCEPT ![r] = [names |-> names, runnable |-> runnable,
                                             rejected |-> rejected]]
             /\ row' = [row EXCEPT ![r].status = "RUNNING",
                                   ![r].attempted = runnable \union rejected]
    /\ Enter(r, "fetching")
    /\ UNCHANGED <<dedupVars, fetched>>

\* One source's call ends: with postings, with a source error, with the timeout,
\* or with any other exception, which gather returns instead of raising.
SettleFetch(r, s) ==
    /\ phase[r] = "fetching"
    /\ s \in Runnable(r) /\ fetched[r][s] = Pending
    /\ \E outcome \in {Answer(b) : b \in Fetch[s]} \union {Failed} :
         fetched' = [fetched EXCEPT ![r][s] = outcome]
    /\ UNCHANGED <<dedupVars, phase, plan, row>>

\* Mutant of BeginPersist: one failed source holds the others up.
BeginPersistIfAllAnswer(r) ==
    /\ phase[r] = "fetching"
    /\ \A s \in Runnable(r) : fetched[r][s].state = "ok"
    /\ Dedup!StartBatch(r, BatchOf(r))
    /\ Enter(r, "persisting")
    /\ UNCHANGED <<plan, fetched, row>>

\* All calls have ended: the postings go to persist_batch.
BeginPersist(r) ==
    /\ phase[r] = "fetching"
    /\ \A s \in Runnable(r) : fetched[r][s] # Pending
    /\ Dedup!StartBatch(r, BatchOf(r))
    /\ Enter(r, "persisting")
    /\ UNCHANGED <<plan, fetched, row>>

Persist(r) ==
    /\ phase[r] = "persisting"
    /\ Dedup!PersistStep(r)
    /\ UNCHANGED <<phase, plan, fetched, row>>

\* Mutant of FinalStatus: the rejected sources are forgotten.
FinalStatusOfRunnable(r) ==
    IF Succeeded(r) = Runnable(r) THEN "COMPLETED"
    ELSE IF Succeeded(r) # {} THEN "PARTIAL"
    ELSE "FAILED"

\* A run that attempted nothing is not a failure.
FinalStatus(r) ==
    IF FailedSources(r) = {} THEN "COMPLETED"
    ELSE IF Succeeded(r) # {} THEN "PARTIAL"
    ELSE "FAILED"

\* What finish writes.
Closing(r) ==
    [status |-> FinalStatus(r), attempted |-> row[r].attempted,
     succeeded |-> Succeeded(r), failed |-> FailedSources(r),
     found |-> result[r].found, new |-> Cardinality(result[r].new),
     duplicate |-> result[r].duplicate]

\* Mutants of Finish: every job there is counts as new; persist_batch is not
\* awaited; the row is closed while the batch is going on, and again later.
FinishCountingAllJobs(r) ==
    /\ phase[r] = "persisting" /\ pc[r] = "returned"
    /\ row' = [row EXCEPT ![r] = [Closing(r) EXCEPT !.new = Len(jobs)]]
    /\ Enter(r, "finished")
    /\ UNCHANGED <<dedupVars, plan, fetched>>

FinishUnawaited(r) ==
    /\ phase[r] = "persisting"
    /\ row' = [row EXCEPT ![r] = Closing(r)]
    /\ Enter(r, "finished")
    /\ UNCHANGED <<dedupVars, plan, fetched>>

FinishAsItGoes(r) ==
    /\ phase[r] = "persisting"
    /\ row' = [row EXCEPT ![r] = Closing(r)]
    /\ Enter(r, IF pc[r] = "returned" THEN "finished" ELSE "persisting")
    /\ UNCHANGED <<dedupVars, plan, fetched>>

Finish(r) ==
    /\ phase[r] = "persisting" /\ pc[r] = "returned"
    /\ row' = [row EXCEPT ![r] = Closing(r)]
    /\ Enter(r, "finished")
    /\ UNCHANGED <<dedupVars, plan, fetched>>

\* A database call of _execute raises: in the batch, or in finish, which may
\* have written the row by then (the reply was lost).
Raise(r) ==
    /\ phase[r] = "persisting"
    /\ \/ Dedup!AbortBatch(r) /\ UNCHANGED row
       \/ /\ pc[r] = "returned" /\ UNCHANGED dedupVars
          /\ row' \in {row, [row EXCEPT ![r] = Closing(r)]}
    /\ Enter(r, "raised")
    /\ UNCHANGED <<plan, fetched>>

\* except Exception: the row is closed as FAILED with nothing found; if that
\* raises too, it stays as it is.  The exception goes to the caller.
HandleException(r) ==
    /\ phase[r] = "raised"
    /\ \/ row' = [row EXCEPT ![r] =
                    [NoRow EXCEPT !.status = "FAILED", !.attempted = row[r].attempted,
                                  !.failed = row[r].attempted]]
       \/ UNCHANGED row
    /\ Enter(r, "failed")
    /\ UNCHANGED <<dedupVars, plan, fetched>>

\* The process stops, or the call is cancelled (a timed-out job, a closed
\* connection): CancelledError is not an Exception.
Stop(r) ==
    /\ phase[r] \in {"fetching", "persisting", "raised"}
    /\ \/ Dedup!AbortBatch(r)
       \/ pc[r] \notin Dedup!Busy /\ UNCHANGED dedupVars
    /\ Enter(r, "stopped")
    /\ UNCHANGED <<plan, fetched, row>>

SearchStep(r) ==
    \/ \E s \in Source : SettleFetch(r, s)
    \/ BeginPersist(r) \/ Persist(r) \/ Finish(r) \/ HandleException(r)

Next == \E r \in Run : Refuse(r) \/ Launch(r) \/ SearchStep(r) \/ Raise(r) \/ Stop(r)

\* The event loop runs a search that can go on; nothing obliges a call to raise.
Spec == Init /\ [][Next]_vars /\ \A r \in Run : WF_vars(SearchStep(r))

-------------------------------------------------------------------------------
(* Properties *)

Finished(r) == phase[r] = "finished"

\* A closed row tells the truth about its sources: they are the attempted
\* ones, split in two; COMPLETED means none of them failed (or none ran),
\* FAILED that none succeeded, PARTIAL that some did and some did not
\* (discovery_service.py:200-208), on the normal path and on the error path.
RowTruthful ==
    \A r \in Run : row[r].status \notin {"none", "RUNNING"} =>
        /\ row[r].succeeded \union row[r].failed = row[r].attempted
        /\ row[r].succeeded \intersect row[r].failed = {}
        /\ row[r].status = "COMPLETED" => row[r].failed = {}
        /\ row[r].status = "FAILED" => row[r].succeeded = {}
        /\ row[r].status = "PARTIAL" => row[r].failed # {} /\ row[r].succeeded # {}

Deliverable(r) ==
    {i \in DOMAIN BatchOf(r) : BatchOf(r)[i].source \in KnownSource}

\* The counts of a search that finished add up to what its sources delivered,
\* and the jobs of the catalogue are at least the ones all rows call new,
\* whichever searches overlapped with it (discovery_service.py:210-217).
CountsTruthful ==
    /\ \A r \in Run : Finished(r) =>
         /\ row[r].found = Cardinality(Deliverable(r))
         /\ row[r].found = row[r].new + row[r].duplicate
    /\ Len(jobs) >= SumFunction([r \in Run |-> row[r].new])

\* When a search has finished, every posting with an id that came back from a
\* source with a row is listed, by this search or by one that overlapped.
DeliveredIsListed ==
    \A r \in Run : Finished(r) => \A i \in Deliverable(r) :
        LET offer == BatchOf(r)[i]
        IN  offer.externalId # NoValue => Dedup!ListingsOf(offer) # {}

\* A closed row is written again only by the error path of run_search, where
\* the exception came after finish had written it, and then says FAILED: no
\* search that is over, and no search still at work, changes what a row has
\* been closed with (discovery_service.py:142-156).
ClosedRowsStay ==
    [][\A r \in Run : row[r].status \notin {"none", "RUNNING"} =>
         \/ row'[r] = row[r]
         \/ phase[r] = "raised" /\ row'[r].status = "FAILED"]_vars

\* A search that opened a row closes it, whatever its sources do, unless the
\* process stops under it or the database refuses that very update.
RowsClose ==
    \A r \in Run : row[r].status = "RUNNING" ~>
        row[r].status # "RUNNING" \/ phase[r] \in {"stopped", "failed"}
===============================================================================
