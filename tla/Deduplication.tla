----------------------------- MODULE Deduplication -----------------------------
(*****************************************************************************)
(* DeduplicationService.persist_batch: how the jobs of a search run enter    *)
(* the catalogue.  Several runs (a manual search overlapping the scheduled   *)
(* one) share the database and every step below is one database call of one  *)
(* run, so the lookups of a run and the write they lead to are separated by  *)
(* whatever the other runs commit in between.                                *)
(*                                                                           *)
(* Rows are identified by their position in jobs and listings, in the order  *)
(* of createdAt.  A Job row keeps the posting it was created from: nothing   *)
(* in the backend updates or deletes a job.                                  *)
(*****************************************************************************)
EXTENDS DuplicateDetection, Sequences, FiniteSets

CONSTANTS
    Run,          \* the searches that share the database
    Unreliable,   \* the ones whose calls may raise or whose process may stop
    Offer,        \* normalized postings the connectors return
    Source,       \* source names that occur in them
    KnownSource,  \* the ones with a JobSource row
    ExternalId, ContentHash, Url, Company, Metadata,
    NoValue,      \* None / NULL
    Absent,       \* a company that has no row yet
    Batches,      \* the batches a run may be handed
    MaxCandidates \* dedup_max_candidates

ASSUME OfferAssumption ==
    /\ Offer \subseteq [source : Source, externalId : ExternalId \union {NoValue},
                        contentHash : ContentHash, canonicalUrl : Url \union {NoValue},
                        company : Company, metadata : Metadata \union {NoValue}]
    /\ Unreliable \subseteq Run
    /\ KnownSource \subseteq Source
    /\ Batches \subseteq Seq(Offer)
    /\ MaxCandidates \in Nat
    /\ Absent \notin Metadata \union {NoValue}
    /\ NoValue \notin ExternalId \union Url \union Metadata

VARIABLES
    jobs,      \* Job rows: the posting each was created from, duplicateOfId
    listings,  \* JobSourceListing rows
    companies, \* Company rows: Absent, or the startup metadata (NoValue: null)
    pc,        \* the call each run makes next
    batch,     \* postings each run has still to place; the first is in hand
    target,    \* the row the lookups of the posting in hand have settled on
    result     \* BatchPersistResult

vars == <<jobs, listings, companies, pc, batch, target, result>>

Job == [offer : Offer, duplicateOf : Nat]
Listing == [job : Nat, source : Source, externalId : ExternalId \union {NoValue},
            canonicalUrl : Url \union {NoValue}, isPrimary : BOOLEAN]
Busy == {"next", "fill", "listing", "refresh", "hash", "url", "fuzzy",
         "attach", "append", "create"}
Label == Busy \union {"idle", "returned", "raised"}
BatchResult == [found : Nat, new : SUBSET Nat, duplicate : Nat]

TypeOK ==
    /\ jobs \in Seq(Job)
    /\ listings \in Seq(Listing)
    /\ companies \in [Company -> Metadata \union {NoValue, Absent}]
    /\ pc \in [Run -> Label]
    /\ batch \in [Run -> Seq(Offer)]
    /\ target \in [Run -> Nat]
    /\ result \in [Run -> BatchResult]

Init ==
    /\ jobs = << >>
    /\ listings = << >>
    /\ companies = [c \in Company |-> Absent]
    /\ pc = [r \in Run |-> "idle"]
    /\ batch = [r \in Run |-> << >>]
    /\ target = [r \in Run |-> NoMatch]
    /\ result = [r \in Run |-> [found |-> 0, new |-> {}, duplicate |-> 0]]

-------------------------------------------------------------------------------
(* Queries *)

Current(r) == Head(batch[r])

ListingsOf(offer) ==
    {l \in DOMAIN listings : /\ offer.externalId # NoValue
                             /\ listings[l].source = offer.source
                             /\ listings[l].externalId = offer.externalId}

JobsWithHash(hash) == {j \in DOMAIN jobs : jobs[j].offer.contentHash = hash}

JobsWithUrl(url) ==
    {j \in DOMAIN jobs : url # NoValue /\ jobs[j].offer.canonicalUrl = url}

\* The order is createdAt ascending: the first row is the oldest.
IsOldest(j, S) == j \in S /\ \A k \in S : j <= k

\* The newest jobs of the company, at most MaxCandidates of them.
Candidates(company) ==
    LET ofCompany == {j \in DOMAIN jobs : jobs[j].offer.company = company}
    IN  {j \in ofCompany :
           Cardinality({k \in ofCompany : k > j}) < MaxCandidates}

Detected(offer) == Decide(offer, jobs, Candidates(offer.company))

\* An ID-less listing is recognised by its job, source and URL.
SameIdlessListing(job, offer) ==
    {l \in DOMAIN listings : /\ listings[l].job = job
                             /\ listings[l].source = offer.source
                             /\ listings[l].canonicalUrl = offer.canonicalUrl}

NewListing(job, offer, isPrimary) ==
    [job |-> job, source |-> offer.source, externalId |-> offer.externalId,
     canonicalUrl |-> offer.canonicalUrl, isPrimary |-> isPrimary]

-------------------------------------------------------------------------------
(* Steps of a run *)

Goto(r, label) == pc' = [pc EXCEPT ![r] = label]

\* The posting in hand is placed; the loop takes the next one.
Placed(r) ==
    /\ Goto(r, "next")
    /\ batch' = [batch EXCEPT ![r] = Tail(@)]
    /\ target' = [target EXCEPT ![r] = NoMatch]

CountDuplicate(r) == result' = [result EXCEPT ![r].duplicate = @ + 1]

StartBatch(r, b) ==
    /\ pc[r] = "idle"
    /\ Goto(r, "next")
    /\ batch' = [batch EXCEPT ![r] = b]
    /\ UNCHANGED <<jobs, listings, companies, target, result>>

\* The source has no JobSource row: skipped, and not counted as found.
SkipUnknownSource(r) ==
    /\ pc[r] = "next" /\ batch[r] # << >>
    /\ Current(r).source \notin KnownSource
    /\ Placed(r)
    /\ UNCHANGED <<jobs, listings, companies, result>>

\* Create the company row if there is none.  Metadata is filled in later, by
\* another call, if the row read here has none.
ResolveCompany(r) ==
    /\ pc[r] = "next" /\ batch[r] # << >>
    /\ Current(r).source \in KnownSource
    /\ LET c == Current(r).company IN
        /\ companies' = [companies EXCEPT ![c] = IF @ = Absent THEN NoValue ELSE @]
        /\ Goto(r, IF Current(r).metadata # NoValue /\ companies'[c] = NoValue
                   THEN "fill" ELSE "listing")
    /\ result' = [result EXCEPT ![r].found = @ + 1]
    /\ UNCHANGED <<jobs, listings, batch, target>>

FillCompany(r) ==
    /\ pc[r] = "fill"
    /\ companies' = [companies EXCEPT ![Current(r).company] = Current(r).metadata]
    /\ Goto(r, "listing")
    /\ UNCHANGED <<jobs, listings, batch, target, result>>

\* (a) Same source and external id: seen before.
FindListing(r) ==
    /\ pc[r] = "listing"
    /\ \/ /\ \E l \in ListingsOf(Current(r)) : target' = [target EXCEPT ![r] = l]
          /\ Goto(r, "refresh")
       \/ /\ ListingsOf(Current(r)) = {}
          /\ Goto(r, "hash")
          /\ UNCHANGED target
    /\ UNCHANGED <<jobs, listings, companies, batch, result>>

RefreshListing(r) ==
    /\ pc[r] = "refresh"
    /\ listings' = [listings EXCEPT ![target[r]].canonicalUrl = Current(r).canonicalUrl]
    /\ Placed(r)
    /\ CountDuplicate(r)
    /\ UNCHANGED <<jobs, companies>>

\* A hit settles on the oldest of the jobs found, a miss goes on looking.
Lookup(r, found, onMiss) ==
    \/ /\ \E j \in DOMAIN jobs : /\ IsOldest(j, found)
                                 /\ target' = [target EXCEPT ![r] = j]
       /\ Goto(r, "attach")
    \/ /\ found = {}
       /\ Goto(r, onMiss)
       /\ UNCHANGED target

\* (b) Same content.
FindByContentHash(r) ==
    /\ pc[r] = "hash"
    /\ Lookup(r, JobsWithHash(Current(r).contentHash), "url")
    /\ UNCHANGED <<jobs, listings, companies, batch, result>>

\* Mutant of FindByCanonicalUrl: the lookup is left out.
SkipUrlLookup(r) ==
    /\ pc[r] = "url"
    /\ Goto(r, "fuzzy")
    /\ UNCHANGED <<jobs, listings, companies, batch, target, result>>

\* (c) Same URL; a posting without one finds nothing.
FindByCanonicalUrl(r) ==
    /\ pc[r] = "url"
    /\ Lookup(r, JobsWithUrl(Current(r).canonicalUrl), "fuzzy")
    /\ UNCHANGED <<jobs, listings, companies, batch, result>>

\* (d) A near duplicate becomes a job of its own, linked to the one it is near.
DetectDuplicate(r) ==
    /\ pc[r] = "fuzzy"
    /\ \E decision \in {Detected(Current(r))} :
        /\ target' = [target EXCEPT ![r] = decision.job]
        /\ Goto(r, IF decision.verdict = "DUPLICATE" THEN "attach" ELSE "create")
    /\ UNCHANGED <<jobs, listings, companies, batch, result>>

\* Mutants of AttachListing: the listing becomes a second primary one; a listing
\* somebody else made meanwhile is moved to the job found here.
AttachAsPrimary(r) ==
    /\ pc[r] = "attach"
    /\ Current(r).externalId # NoValue
    /\ ListingsOf(Current(r)) = {}
    /\ listings' = Append(listings, NewListing(target[r], Current(r), TRUE))
    /\ Placed(r)
    /\ CountDuplicate(r)
    /\ UNCHANGED <<jobs, companies>>

MoveListing(r) ==
    /\ pc[r] = "attach"
    /\ Current(r).externalId # NoValue
    /\ \/ \E l \in ListingsOf(Current(r)) :
            listings' = [listings EXCEPT ![l].job = target[r]]
       \/ /\ ListingsOf(Current(r)) = {}
          /\ listings' = Append(listings, NewListing(target[r], Current(r), FALSE))
    /\ Placed(r)
    /\ CountDuplicate(r)
    /\ UNCHANGED <<jobs, companies>>

\* upsert_listing with an external id: one statement.  If another run has
\* listed the posting meanwhile, that listing keeps its job.
AttachListing(r) ==
    /\ pc[r] = "attach"
    /\ Current(r).externalId # NoValue
    /\ \/ \E l \in ListingsOf(Current(r)) :
            listings' = [listings EXCEPT ![l].canonicalUrl = Current(r).canonicalUrl]
       \/ /\ ListingsOf(Current(r)) = {}
          /\ listings' = Append(listings, NewListing(target[r], Current(r), FALSE))
    /\ Placed(r)
    /\ CountDuplicate(r)
    /\ UNCHANGED <<jobs, companies>>

\* upsert_listing without one: look for the listing, and if there is one touch
\* only columns this model has not.
FindIdlessListing(r) ==
    /\ pc[r] = "attach"
    /\ Current(r).externalId = NoValue
    /\ \/ /\ SameIdlessListing(target[r], Current(r)) # {}
          /\ Placed(r)
          /\ CountDuplicate(r)
       \/ /\ SameIdlessListing(target[r], Current(r)) = {}
          /\ Goto(r, "append")
          /\ UNCHANGED <<batch, target, result>>
    /\ UNCHANGED <<jobs, listings, companies>>

AppendIdlessListing(r) ==
    /\ pc[r] = "append"
    /\ listings' = Append(listings, NewListing(target[r], Current(r), FALSE))
    /\ Placed(r)
    /\ CountDuplicate(r)
    /\ UNCHANGED <<jobs, companies>>

\* Mutant of CreateJob: the link points from the older job to the new one.
CreateLinkedFromOlder(r) ==
    /\ pc[r] = "create"
    /\ ListingsOf(Current(r)) = {}
    /\ jobs' = Append([j \in DOMAIN jobs |->
                         IF j = target[r] THEN [jobs[j] EXCEPT !.duplicateOf = Len(jobs) + 1]
                         ELSE jobs[j]],
                      [offer |-> Current(r), duplicateOf |-> NoMatch])
    /\ listings' = Append(listings, NewListing(Len(jobs) + 1, Current(r), TRUE))
    /\ Placed(r)
    /\ result' = [result EXCEPT ![r].new = @ \union {Len(jobs) + 1}]
    /\ UNCHANGED companies

\* The job and its primary listing, in one transaction.
CreateJob(r) ==
    /\ pc[r] = "create"
    /\ ListingsOf(Current(r)) = {}
    /\ jobs' = Append(jobs, [offer |-> Current(r), duplicateOf |-> target[r]])
    /\ listings' = Append(listings, NewListing(Len(jobs) + 1, Current(r), TRUE))
    /\ Placed(r)
    /\ result' = [result EXCEPT ![r].new = @ \union {Len(jobs) + 1}]
    /\ UNCHANGED companies

\* Mutants of LoseRace: the other run's job is reported as new; the exception
\* is not handled and ends the batch.
LoseRaceAsNew(r) ==
    /\ pc[r] = "create"
    /\ ListingsOf(Current(r)) # {}
    /\ Placed(r)
    /\ result' = [result EXCEPT ![r].new = @ \union {Len(jobs)}]
    /\ UNCHANGED <<jobs, listings, companies>>

LoseRaceUnhandled(r) ==
    /\ pc[r] = "create"
    /\ ListingsOf(Current(r)) # {}
    /\ Goto(r, "raised")
    /\ UNCHANGED <<jobs, listings, companies, batch, target, result>>

\* UniqueViolationError: another run has listed the posting since FindListing.
LoseRace(r) ==
    /\ pc[r] = "create"
    /\ ListingsOf(Current(r)) # {}
    /\ Placed(r)
    /\ CountDuplicate(r)
    /\ UNCHANGED <<jobs, listings, companies>>

ReturnBatch(r) ==
    /\ pc[r] = "next" /\ batch[r] = << >>
    /\ Goto(r, "returned")
    /\ UNCHANGED <<jobs, listings, companies, batch, target, result>>

\* A database call raises, or the process stops: what is committed stays.
AbortBatch(r) ==
    /\ r \in Unreliable
    /\ pc[r] \in Busy
    /\ Goto(r, "raised")
    /\ UNCHANGED <<jobs, listings, companies, batch, target, result>>

PersistStep(r) ==
    \/ SkipUnknownSource(r) \/ ResolveCompany(r) \/ FillCompany(r)
    \/ FindListing(r) \/ RefreshListing(r)
    \/ FindByContentHash(r) \/ FindByCanonicalUrl(r) \/ DetectDuplicate(r)
    \/ AttachListing(r) \/ FindIdlessListing(r) \/ AppendIdlessListing(r)
    \/ CreateJob(r) \/ LoseRace(r) \/ ReturnBatch(r)

Next ==
    \E r \in Run : \/ \E b \in Batches : StartBatch(r, b)
                   \/ PersistStep(r)
                   \/ AbortBatch(r)

Spec == Init /\ [][Next]_vars /\ \A r \in Run : WF_vars(PersistStep(r))

-------------------------------------------------------------------------------
(* Properties *)

\* "a Job must never exist without its primary listing"
\* (job_repository.py:225-226): every job has exactly one primary listing, for
\* the posting it was created from, and every listing belongs to a job.
PrimaryListings ==
    /\ \A j \in DOMAIN jobs : \E l \in DOMAIN listings :
         /\ listings[l].job = j
         /\ listings[l].isPrimary
         /\ listings[l].source = jobs[j].offer.source
         /\ listings[l].externalId = jobs[j].offer.externalId
    /\ \A l \in DOMAIN listings : listings[l].job \in DOMAIN jobs
    /\ \A l, m \in DOMAIN listings :
         /\ listings[l].job = listings[m].job
         /\ listings[l].isPrimary /\ listings[m].isPrimary
         => l = m

\* The jobs the runs report as new are the jobs there are, each reported by
\* one run, and found = new + duplicate when no posting is in hand: nothing is
\* counted twice when two runs race for a posting (BatchPersistResult).
InHand(r) == pc[r] \in Busy \ {"next"}

JobsCreditedOnce ==
    /\ DOMAIN jobs = UNION {result[r].new : r \in Run}
    /\ \A r, s \in Run : r # s => result[r].new \intersect result[s].new = {}
    /\ \A r \in Run : pc[r] # "raised" =>
         result[r].found = Cardinality(result[r].new) + result[r].duplicate
                           + (IF InHand(r) THEN 1 ELSE 0)

\* "within one run, a later occurrence of the same job (cross-source) must see
\* the earlier one's committed rows" (deduplication_service.py:54-55): a run
\* never creates two jobs with one content hash, or with one URL, whatever the
\* other runs do.
NoRepeatWithinRun ==
    \A r \in Run : \A j, k \in result[r].new :
        \/ j = k
        \/ /\ jobs[j].offer.contentHash # jobs[k].offer.contentHash
           /\ \/ jobs[j].offer.canonicalUrl = NoValue
              \/ jobs[j].offer.canonicalUrl # jobs[k].offer.canonicalUrl

\* A near-duplicate link leads to an older job of the same company, so links
\* form no cycle, although the other job was chosen some calls earlier.
LinksLeadBack ==
    \A j \in DOMAIN jobs :
        jobs[j].duplicateOf # NoMatch =>
            /\ jobs[j].duplicateOf < j
            /\ jobs[jobs[j].duplicateOf].offer.company = jobs[j].offer.company

\* "another source - record the extra listing, never mutate the Job"
\* (deduplication_service.py:96-97), as the abstract catalogue has it.
ListingKey == Source \X ExternalId
KeyOf(l) == <<listings[l].source, listings[l].externalId>>
KeyedListings == {l \in DOMAIN listings : listings[l].externalId # NoValue}

Home ==
    [k \in {KeyOf(l) : l \in KeyedListings} |->
        listings[CHOOSE l \in KeyedListings : KeyOf(l) = k].job]

Catalog == INSTANCE JobCatalog WITH home <- Home, size <- Len(jobs)

CatalogSpec == Catalog!Spec

\* "treat it as the duplicate it is instead of failing the whole SearchRun"
\* (deduplication_service.py:139-142): a run whose own calls succeed returns,
\* and every posting of a source with a row that it was handed comes to be
\* listed, whatever came before it in the batch - a source without a row, a
\* duplicate, a race lost to another run - and wherever other runs break off.
Awaits(r, offer) == \E i \in DOMAIN batch[r] : batch[r][i] = offer

Listed(offer) ==
    IF offer.externalId # NoValue THEN ListingsOf(offer) # {}
    ELSE \E l \in DOMAIN listings : /\ listings[l].source = offer.source
                                    /\ listings[l].canonicalUrl = offer.canonicalUrl

PostingsPlaced ==
    \A r \in Run \ Unreliable :
        /\ pc[r] = "next" ~> pc[r] = "returned"
        /\ \A offer \in {o \in Offer : o.source \in KnownSource} :
               Awaits(r, offer) ~> Listed(offer)

\* "a later source never overwrites what an earlier one - or the user -
\* recorded" (company_repository.py:19-21).
MetadataKept ==
    [][\A c \in Company : companies[c] \in Metadata => companies'[c] = companies[c]]_vars
===============================================================================
