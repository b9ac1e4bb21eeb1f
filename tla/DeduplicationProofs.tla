-------------------------- MODULE DeduplicationProofs --------------------------
(*****************************************************************************)
(* Theorems about Deduplication, for any number of overlapping runs, any     *)
(* postings, any batches and any similarity measure.                         *)
(*****************************************************************************)
EXTENDS Deduplication, FiniteSetTheorems, SequenceTheorems, TLAPS

USE OfferAssumption DEF NoMatch

-------------------------------------------------------------------------------
(* The decision of the duplicate detection *)

\* The job decide() settles on is one of the candidates it was given.
LEMMA DecideAmongCandidates ==
    ASSUME NEW c, NEW stored, NEW ids
    PROVE  LET d == Decide(c, stored, ids)
           IN  /\ d.job = NoMatch \/ d.job \in ids
               /\ d.verdict = "DUPLICATE" => d.job \in ids
  <1> DEFINE best == Best(c, stored, ids)
             job  == CHOOSE i \in best : TRUE
  <1>1. best \subseteq ids
    BY DEF Best, Eligible
  <1>2. best # {} => job \in best
    OBVIOUS
  <1>3. QED
    BY <1>1, <1>2 DEF Decide

\* Step (d) finds no job, or a stored job of the posting's company.
LEMMA DetectedAmongJobs ==
    ASSUME NEW offer
    PROVE  /\ \/ Detected(offer).job = NoMatch
              \/ /\ Detected(offer).job \in DOMAIN jobs
                 /\ jobs[Detected(offer).job].offer.company = offer.company
           /\ Detected(offer).verdict = "DUPLICATE" => Detected(offer).job \in DOMAIN jobs
  <1>1. Candidates(offer.company) \subseteq
          {j \in DOMAIN jobs : jobs[j].offer.company = offer.company}
    BY DEF Candidates
  <1>2. QED
    BY <1>1, DecideAmongCandidates DEF Detected

-------------------------------------------------------------------------------
(* Types *)

LEMMA HeadTail ==
    ASSUME NEW s \in Seq(Offer), s # << >>
    PROVE  /\ Head(s) \in Offer
           /\ Tail(s) \in Seq(Offer)
  OBVIOUS

\* upsert_listing and create_from_normalized store well-typed rows.
LEMMA NewListingType ==
    ASSUME NEW offer \in Offer, NEW job \in Nat, NEW primary \in BOOLEAN
    PROVE  NewListing(job, offer, primary) \in Listing
  BY DEF NewListing, Listing

\* The posting in hand is one: batch[r] is not empty while r is past "next".
InHandOK == \A r \in Run : InHand(r) => batch[r] # << >>

Typed == TypeOK /\ InHandOK

\* A run that moves to a label keeps pc well-typed.
LEMMA GotoTyped ==
    ASSUME Typed, NEW r \in Run, NEW label \in Label, Goto(r, label)
    PROVE  pc' \in [Run -> Label]
  BY DEF Typed, TypeOK, Goto

\* Dropping the placed posting keeps the run's variables well-typed.
LEMMA PlacedTyped ==
    ASSUME Typed, NEW r \in Run, batch[r] # << >>, Placed(r)
    PROVE  /\ pc' \in [Run -> Label]
           /\ batch' \in [Run -> Seq(Offer)]
           /\ target' \in [Run -> Nat]
           /\ InHandOK'
  <1>1. Tail(batch[r]) \in Seq(Offer)
    BY HeadTail DEF Typed, TypeOK
  <1>2. "next" \in Label
    BY DEF Label, Busy
  <1>3. QED
    BY <1>1, <1>2 DEF Typed, TypeOK, InHandOK, InHand, Placed, Goto

\* Counting a duplicate keeps the result well-typed.
LEMMA CountTyped ==
    ASSUME Typed, NEW r \in Run, CountDuplicate(r)
    PROVE  result' \in [Run -> BatchResult]
  <1>1. result[r] \in BatchResult
    BY DEF Typed, TypeOK
  <1>2. [result[r] EXCEPT !.duplicate = @ + 1] \in BatchResult
    BY <1>1 DEF BatchResult
  <1>3. QED
    BY <1>2 DEF Typed, TypeOK, CountDuplicate

\* Refreshing a listing's URL keeps the listings well-typed.
LEMMA TouchTyped ==
    ASSUME Typed, NEW l, NEW url \in Url \union {NoValue},
           listings' = [listings EXCEPT ![l].canonicalUrl = url]
    PROVE  listings' \in Seq(Listing)
  <1>1. listings \in Seq(Listing)
    BY DEF Typed, TypeOK
  <1>2. CASE l \in DOMAIN listings
    <2>1. listings[l] \in Listing
      BY <1>1, <1>2
    <2>2. [listings[l] EXCEPT !.canonicalUrl = url] \in Listing
      BY <2>1 DEF Listing
    <2>3. listings' = [listings EXCEPT ![l] = [listings[l] EXCEPT !.canonicalUrl = url]]
      OBVIOUS
    <2>4. QED
      BY <1>1, <1>2, <2>2, <2>3, ExceptSeq
  <1>3. CASE l \notin DOMAIN listings
    <2>1. listings' = listings
      BY <1>1, <1>3
    <2>2. QED
      BY <1>1, <2>1
  <1>4. QED
    BY <1>2, <1>3

\* Adding a listing keeps the listings well-typed.
LEMMA AppendTyped ==
    ASSUME Typed, NEW x \in Listing, listings' = Append(listings, x)
    PROVE  listings' \in Seq(Listing)
  BY DEF Typed, TypeOK

\* A step that hands r another label and leaves its batch alone.
LEMMA StillInHand ==
    ASSUME Typed, NEW r \in Run, NEW label \in Label, Goto(r, label),
           batch[r] # << >>, batch' = batch
    PROVE  InHandOK'
  BY DEF Typed, TypeOK, InHandOK, InHand, Goto

\* The empty catalogue is well-typed.
LEMMA TypingStart == Init => Typed
  BY DEF Init, Typed, TypeOK, InHandOK, InHand, Label, Busy, BatchResult

\* persist_batch keeps every variable in its type, and a run past "next" has a
\* posting in hand: Head and Tail are never taken of an empty batch.
LEMMA TypingStep == Typed /\ [Next]_vars => Typed'
  <1> SUFFICES ASSUME Typed, [Next]_vars
               PROVE  Typed'
    OBVIOUS
  <1>a. /\ Busy \subseteq Label
        /\ {"idle", "returned", "raised"} \subseteq Label
        /\ "idle" \notin Busy /\ "returned" \notin Busy /\ "raised" \notin Busy
    BY DEF Label, Busy
  <1>b. \A r \in Run : pc[r] \in Busy \ {"next"} => batch[r] # << >>
    BY DEF Typed, InHandOK, InHand
  <1>c. \A r \in Run : batch[r] # << >> => Current(r) \in Offer
    BY HeadTail DEF Typed, TypeOK, Current
  <1>1. ASSUME NEW r \in Run, NEW b \in Batches, StartBatch(r, b)
        PROVE  Typed'
    BY <1>1 DEF StartBatch, Typed, TypeOK, InHandOK, InHand, Goto, Label, Busy
  <1>2. ASSUME NEW r \in Run, SkipUnknownSource(r)
        PROVE  Typed'
    BY <1>2, PlacedTyped DEF SkipUnknownSource, Typed, TypeOK
  <1>3. ASSUME NEW r \in Run, ResolveCompany(r)
        PROVE  Typed'
    <2>1. PICK label \in Busy : Goto(r, label)
      BY <1>3 DEF ResolveCompany, Busy
    <2>2. companies' \in [Company -> Metadata \union {NoValue, Absent}]
      BY <1>3 DEF ResolveCompany, Typed, TypeOK
    <2>3. result' \in [Run -> BatchResult]
      <3>1. result[r] \in BatchResult
        BY DEF Typed, TypeOK
      <3>2. [result[r] EXCEPT !.found = @ + 1] \in BatchResult
        BY <3>1 DEF BatchResult
      <3>3. QED
        BY <1>3, <3>2 DEF ResolveCompany, Typed, TypeOK
    <2>4. QED
      BY <1>3, <1>a, <2>1, <2>2, <2>3, GotoTyped, StillInHand
         DEF ResolveCompany, Typed, TypeOK
  <1>4. ASSUME NEW r \in Run, FillCompany(r)
        PROVE  Typed'
    <2>1. batch[r] # << >> /\ Current(r) \in Offer
      BY <1>4, <1>b, <1>c DEF FillCompany, Busy
    <2>2. companies' \in [Company -> Metadata \union {NoValue, Absent}]
      BY <1>4, <2>1 DEF FillCompany, Typed, TypeOK
    <2>3. QED
      BY <1>4, <2>1, <2>2, GotoTyped, StillInHand
         DEF FillCompany, Typed, TypeOK, Label, Busy
  <1>5. ASSUME NEW r \in Run, FindListing(r)
        PROVE  Typed'
    <2>1. batch[r] # << >>
      BY <1>5, <1>b DEF FindListing, Busy
    <2>2. PICK label \in Busy : Goto(r, label)
      BY <1>5 DEF FindListing, Busy
    <2>3. target' \in [Run -> Nat]
      BY <1>5 DEF FindListing, ListingsOf, Typed, TypeOK
    <2>4. QED
      BY <1>5, <1>a, <2>1, <2>2, <2>3, GotoTyped, StillInHand
         DEF FindListing, Typed, TypeOK
  <1>6. ASSUME NEW r \in Run, RefreshListing(r)
        PROVE  Typed'
    <2>1. batch[r] # << >> /\ Current(r) \in Offer
      BY <1>6, <1>b, <1>c DEF RefreshListing, Busy
    <2>2. Current(r).canonicalUrl \in Url \union {NoValue}
      BY <2>1
    <2>3. listings' \in Seq(Listing)
      BY <1>6, <2>2, TouchTyped DEF RefreshListing
    <2>4. QED
      BY <1>6, <2>1, <2>3, PlacedTyped, CountTyped DEF RefreshListing, Typed, TypeOK
  <1>7. ASSUME NEW r \in Run, FindByContentHash(r)
        PROVE  Typed'
    <2>1. batch[r] # << >>
      BY <1>7, <1>b DEF FindByContentHash, Busy
    <2>2. PICK label \in Busy : Goto(r, label)
      BY <1>7 DEF FindByContentHash, Lookup, Busy
    <2>3. target' \in [Run -> Nat]
      <3>1. DOMAIN jobs \subseteq Nat
        BY DEF Typed, TypeOK
      <3>2. QED
        BY <1>7, <3>1 DEF FindByContentHash, Lookup, Typed, TypeOK
    <2>4. QED
      BY <1>7, <1>a, <2>1, <2>2, <2>3, GotoTyped, StillInHand
         DEF FindByContentHash, Typed, TypeOK
  <1>8. ASSUME NEW r \in Run, FindByCanonicalUrl(r)
        PROVE  Typed'
    <2>1. batch[r] # << >>
      BY <1>8, <1>b DEF FindByCanonicalUrl, Busy
    <2>2. PICK label \in Busy : Goto(r, label)
      BY <1>8 DEF FindByCanonicalUrl, Lookup, Busy
    <2>3. target' \in [Run -> Nat]
      <3>1. DOMAIN jobs \subseteq Nat
        BY DEF Typed, TypeOK
      <3>2. QED
        BY <1>8, <3>1 DEF FindByCanonicalUrl, Lookup, Typed, TypeOK
    <2>4. QED
      BY <1>8, <1>a, <2>1, <2>2, <2>3, GotoTyped, StillInHand
         DEF FindByCanonicalUrl, Typed, TypeOK
  <1>9. ASSUME NEW r \in Run, DetectDuplicate(r)
        PROVE  Typed'
    <2>1. batch[r] # << >>
      BY <1>9, <1>b DEF DetectDuplicate, Busy
    <2>2. PICK label \in Busy : Goto(r, label)
      BY <1>9 DEF DetectDuplicate, Busy
    <2>3. Detected(Current(r)).job \in Nat
      <3>1. DOMAIN jobs \subseteq Nat
        BY DEF Typed, TypeOK
      <3>2. Detected(Current(r)).job \in {NoMatch} \union DOMAIN jobs
        BY DetectedAmongJobs
      <3>3. QED
        BY <3>1, <3>2 DEF NoMatch
    <2>4. target' \in [Run -> Nat]
      BY <1>9, <2>3 DEF DetectDuplicate, Typed, TypeOK
    <2>5. QED
      BY <1>9, <1>a, <2>1, <2>2, <2>4, GotoTyped, StillInHand
         DEF DetectDuplicate, Typed, TypeOK
  <1>10. ASSUME NEW r \in Run, AttachListing(r)
         PROVE  Typed'
    <2>1. batch[r] # << >> /\ Current(r) \in Offer
      BY <1>10, <1>b, <1>c DEF AttachListing, Busy
    <2>2. Current(r).canonicalUrl \in Url \union {NoValue}
      BY <2>1
    <2>3. target[r] \in Nat
      BY DEF Typed, TypeOK
    <2>4. NewListing(target[r], Current(r), FALSE) \in Listing
      BY <2>1, <2>3, NewListingType
    <2>5. listings' \in Seq(Listing)
      BY <1>10, <2>2, <2>4, TouchTyped, AppendTyped DEF AttachListing
    <2>6. QED
      BY <1>10, <2>1, <2>5, PlacedTyped, CountTyped DEF AttachListing, Typed, TypeOK
  <1>11. ASSUME NEW r \in Run, FindIdlessListing(r)
         PROVE  Typed'
    <2>1. batch[r] # << >>
      BY <1>11, <1>b DEF FindIdlessListing, Busy
    <2>2. CASE Placed(r) /\ CountDuplicate(r)
      BY <1>11, <2>1, <2>2, PlacedTyped, CountTyped DEF FindIdlessListing, Typed, TypeOK
    <2>3. CASE Goto(r, "append") /\ UNCHANGED <<batch, target, result>>
      BY <1>11, <2>1, <2>3, GotoTyped, StillInHand
         DEF FindIdlessListing, Typed, TypeOK, Label, Busy
    <2>4. QED
      BY <1>11, <2>2, <2>3 DEF FindIdlessListing
  <1>12. ASSUME NEW r \in Run, AppendIdlessListing(r)
         PROVE  Typed'
    <2>1. batch[r] # << >> /\ Current(r) \in Offer
      BY <1>12, <1>b, <1>c DEF AppendIdlessListing, Busy
    <2>2. target[r] \in Nat
      BY DEF Typed, TypeOK
    <2>3. NewListing(target[r], Current(r), FALSE) \in Listing
      BY <2>1, <2>2, NewListingType
    <2>4. listings' \in Seq(Listing)
      BY <1>12, <2>3, AppendTyped DEF AppendIdlessListing
    <2>5. QED
      BY <1>12, <2>1, <2>4, PlacedTyped, CountTyped
         DEF AppendIdlessListing, Typed, TypeOK
  <1>13. ASSUME NEW r \in Run, CreateJob(r)
         PROVE  Typed'
    <2>1. batch[r] # << >> /\ Current(r) \in Offer
      BY <1>13, <1>b, <1>c DEF CreateJob, Busy
    <2>2. target[r] \in Nat /\ Len(jobs) + 1 \in Nat
      BY DEF Typed, TypeOK
    <2>3. NewListing(Len(jobs) + 1, Current(r), TRUE) \in Listing
      BY <2>1, <2>2, NewListingType
    <2>4. jobs' \in Seq(Job)
      BY <1>13, <2>1, <2>2 DEF CreateJob, Typed, TypeOK, Job
    <2>5. result' \in [Run -> BatchResult]
      BY <1>13, <2>2 DEF CreateJob, Typed, TypeOK, BatchResult
    <2>6. listings' \in Seq(Listing)
      BY <1>13, <2>3, AppendTyped DEF CreateJob
    <2>7. QED
      BY <1>13, <2>1, <2>4, <2>5, <2>6, PlacedTyped DEF CreateJob, Typed, TypeOK
  <1>14. ASSUME NEW r \in Run, LoseRace(r)
         PROVE  Typed'
    <2>1. batch[r] # << >>
      BY <1>14, <1>b DEF LoseRace, Busy
    <2>2. QED
      BY <1>14, <2>1, PlacedTyped, CountTyped DEF LoseRace, Typed, TypeOK
  <1>15. ASSUME NEW r \in Run, ReturnBatch(r)
         PROVE  Typed'
    BY <1>15 DEF ReturnBatch, Typed, TypeOK, InHandOK, InHand, Goto, Label, Busy
  <1>16. ASSUME NEW r \in Run, AbortBatch(r)
         PROVE  Typed'
    BY <1>16 DEF AbortBatch, Typed, TypeOK, InHandOK, InHand, Goto, Label, Busy
  <1>17. CASE UNCHANGED vars
    BY <1>17 DEF vars, Typed, TypeOK, InHandOK, InHand
  <1>18. QED
    BY <1>1, <1>2, <1>3, <1>4, <1>5, <1>6, <1>7, <1>8, <1>9, <1>10, <1>11,
       <1>12, <1>13, <1>14, <1>15, <1>16, <1>17 DEF Next, PersistStep

\* So it is always.
THEOREM Typing == Spec => []Typed
  BY TypingStart, TypingStep, PTL DEF Spec

-------------------------------------------------------------------------------
(* What a step does to the catalogue *)

SameIdentity(l) ==
    /\ listings'[l].job = listings[l].job
    /\ listings'[l].source = listings[l].source
    /\ listings'[l].externalId = listings[l].externalId
    /\ listings'[l].isPrimary = listings[l].isPrimary

SameListings ==
    /\ DOMAIN listings' = DOMAIN listings
    /\ \A l \in DOMAIN listings : SameIdentity(l)

SameCredit == \A s \in Run : result'[s].new = result[s].new

\* A step of r changes the catalogue in one of three ways.
Quiet == jobs' = jobs /\ SameListings /\ SameCredit

Attaches(r) ==
    /\ pc[r] \in {"attach", "append"}
    /\ pc[r] = "append" \/ ListingsOf(Current(r)) = {}
    /\ pc[r] = "append" \/ Current(r).externalId # NoValue
    /\ listings' = Append(listings, NewListing(target[r], Current(r), FALSE))
    /\ jobs' = jobs
    /\ SameCredit

RunStep(r) == (\E b \in Batches : StartBatch(r, b)) \/ PersistStep(r) \/ AbortBatch(r)

\* Refreshing a listing's URL leaves job, source, id and primacy of all listings.
LEMMA TouchKeepsIdentity ==
    ASSUME Typed, NEW l, NEW url,
           listings' = [listings EXCEPT ![l].canonicalUrl = url]
    PROVE  SameListings
  <1>1. listings \in Seq(Listing)
    BY DEF Typed, TypeOK
  <1>2. \A m \in DOMAIN listings : listings[m] \in Listing
    BY <1>1
  <1>3. DOMAIN listings' = DOMAIN listings
    BY <1>1
  <1>4. \A m \in DOMAIN listings : SameIdentity(m)
    BY <1>1, <1>2 DEF SameIdentity, Listing
  <1>5. QED
    BY <1>3, <1>4 DEF SameListings

\* Counting a duplicate credits no run with a new job.
LEMMA CountKeepsCredit ==
    ASSUME Typed, NEW r \in Run, CountDuplicate(r)
    PROVE  SameCredit
  BY DEF Typed, TypeOK, BatchResult, CountDuplicate, SameCredit

\* A step of a run leaves rows and credits alone, attaches a listing or creates a job.
LEMMA StepKinds ==
    ASSUME Typed, NEW r \in Run, RunStep(r)
    PROVE  Quiet \/ Attaches(r) \/ CreateJob(r)
  <1>a. UNCHANGED listings => SameListings
    BY DEF SameListings, SameIdentity
  <1>b. UNCHANGED result => SameCredit
    BY DEF SameCredit
  <1>1. ASSUME NEW b \in Batches, StartBatch(r, b) PROVE Quiet
    BY <1>1, <1>a, <1>b DEF StartBatch, Quiet
  <1>2. CASE SkipUnknownSource(r)
    BY <1>2, <1>a, <1>b DEF SkipUnknownSource, Quiet
  <1>3. CASE ResolveCompany(r)
    <2>1. SameCredit
      BY <1>3 DEF ResolveCompany, SameCredit, Typed, TypeOK, BatchResult
    <2>2. QED
      BY <1>3, <1>a, <2>1 DEF ResolveCompany, Quiet
  <1>4. CASE FillCompany(r)
    BY <1>4, <1>a, <1>b DEF FillCompany, Quiet
  <1>5. CASE FindListing(r)
    BY <1>5, <1>a, <1>b DEF FindListing, Quiet
  <1>6. CASE RefreshListing(r)
    BY <1>6, TouchKeepsIdentity, CountKeepsCredit DEF RefreshListing, Quiet
  <1>7. CASE FindByContentHash(r)
    BY <1>7, <1>a, <1>b DEF FindByContentHash, Quiet
  <1>8. CASE FindByCanonicalUrl(r)
    BY <1>8, <1>a, <1>b DEF FindByCanonicalUrl, Quiet
  <1>9. CASE DetectDuplicate(r)
    BY <1>9, <1>a, <1>b DEF DetectDuplicate, Quiet
  <1>10. CASE AttachListing(r)
    <2>1. ASSUME NEW l,
                 listings' = [listings EXCEPT ![l].canonicalUrl = Current(r).canonicalUrl]
          PROVE  Quiet
      BY <1>10, <2>1, TouchKeepsIdentity, CountKeepsCredit DEF AttachListing, Quiet
    <2>2. CASE /\ ListingsOf(Current(r)) = {}
               /\ listings' = Append(listings, NewListing(target[r], Current(r), FALSE))
      BY <1>10, <2>2, CountKeepsCredit DEF AttachListing, Attaches
    <2>3. QED
      BY <1>10, <2>1, <2>2 DEF AttachListing
  <1>11. CASE FindIdlessListing(r)
    BY <1>11, <1>a, <1>b, CountKeepsCredit DEF FindIdlessListing, Quiet
  <1>12. CASE AppendIdlessListing(r)
    BY <1>12, CountKeepsCredit DEF AppendIdlessListing, Attaches
  <1>13. CASE LoseRace(r)
    BY <1>13, <1>a, CountKeepsCredit DEF LoseRace, Quiet
  <1>14. CASE ReturnBatch(r)
    BY <1>14, <1>a, <1>b DEF ReturnBatch, Quiet
  <1>15. CASE AbortBatch(r)
    BY <1>15, <1>a, <1>b DEF AbortBatch, Quiet
  <1>16. QED
    BY <1>1, <1>2, <1>3, <1>4, <1>5, <1>6, <1>7, <1>8, <1>9, <1>10, <1>11,
       <1>12, <1>13, <1>14, <1>15 DEF RunStep, PersistStep

\* The locals of the other runs are theirs.
LEMMA OthersUntouched ==
    ASSUME Typed, NEW r \in Run, RunStep(r), NEW s \in Run, s # r
    PROVE  /\ pc'[s] = pc[s] /\ batch'[s] = batch[s]
           /\ target'[s] = target[s] /\ result'[s] = result[s]
  <1> USE DEF Typed, TypeOK, Goto, Placed, CountDuplicate
  <1>1. ASSUME NEW b \in Batches, StartBatch(r, b)
        PROVE  /\ pc'[s] = pc[s] /\ batch'[s] = batch[s]
               /\ target'[s] = target[s] /\ result'[s] = result[s]
    BY <1>1 DEF StartBatch
  <1>2. CASE SkipUnknownSource(r)
    BY <1>2 DEF SkipUnknownSource
  <1>3. CASE ResolveCompany(r)
    BY <1>3 DEF ResolveCompany
  <1>4. CASE FillCompany(r)
    BY <1>4 DEF FillCompany
  <1>5. CASE FindListing(r)
    BY <1>5 DEF FindListing
  <1>6. CASE RefreshListing(r)
    BY <1>6 DEF RefreshListing
  <1>7. CASE FindByContentHash(r)
    BY <1>7 DEF FindByContentHash, Lookup
  <1>8. CASE FindByCanonicalUrl(r)
    BY <1>8 DEF FindByCanonicalUrl, Lookup
  <1>9. CASE DetectDuplicate(r)
    BY <1>9 DEF DetectDuplicate
  <1>10. CASE AttachListing(r)
    BY <1>10 DEF AttachListing
  <1>11. CASE FindIdlessListing(r)
    BY <1>11 DEF FindIdlessListing
  <1>12. CASE AppendIdlessListing(r)
    BY <1>12 DEF AppendIdlessListing
  <1>13. CASE CreateJob(r)
    BY <1>13 DEF CreateJob
  <1>14. CASE LoseRace(r)
    BY <1>14 DEF LoseRace
  <1>15. CASE ReturnBatch(r)
    BY <1>15 DEF ReturnBatch
  <1>16. CASE AbortBatch(r)
    BY <1>16 DEF AbortBatch
  <1>17. QED
    BY <1>1, <1>2, <1>3, <1>4, <1>5, <1>6, <1>7, <1>8, <1>9, <1>10, <1>11,
       <1>12, <1>13, <1>14, <1>15, <1>16 DEF RunStep, PersistStep

-------------------------------------------------------------------------------
(* The inductive invariant: what the lookups of the posting in hand have      *)
(* established stays true until the write that relies on it.                  *)

\* A run that missed in the content-hash lookup has created no such job: only
\* it could have, and it has been busy with this posting since.
HashFresh(r) ==
    \A j \in result[r].new : jobs[j].offer.contentHash # Current(r).contentHash

UrlFresh(r) ==
    \A j \in result[r].new :
        \/ Current(r).canonicalUrl = NoValue
        \/ jobs[j].offer.canonicalUrl # Current(r).canonicalUrl

LinkOK(r) ==
    \/ target[r] = NoMatch
    \/ /\ target[r] \in DOMAIN jobs
       /\ jobs[target[r]].offer.company = Current(r).company

HandOK(r) ==
    /\ pc[r] = "refresh" => target[r] \in ListingsOf(Current(r))
    /\ pc[r] \in {"attach", "append"} => target[r] \in DOMAIN jobs
    /\ pc[r] = "append" => Current(r).externalId = NoValue
    /\ pc[r] = "create" => LinkOK(r)
    /\ pc[r] \in {"url", "fuzzy", "create"} => HashFresh(r)
    /\ pc[r] \in {"fuzzy", "create"} => UrlFresh(r)

NewAreJobs ==
    /\ \A j : j \in DOMAIN jobs <=> \E r \in Run : j \in result[r].new
    /\ \A r, s \in Run : r # s => result[r].new \intersect result[s].new = {}

\* @@unique([sourceId, externalId]), on which the abstract catalogue rests.
ListedOnce ==
    \A l, m \in DOMAIN listings :
        /\ listings[l].externalId # NoValue
        /\ listings[l].source = listings[m].source
        /\ listings[l].externalId = listings[m].externalId
        => l = m

CatalogOK == PrimaryListings /\ ListedOnce /\ LinksLeadBack

IInv ==
    /\ Typed
    /\ CatalogOK
    /\ NewAreJobs
    /\ NoRepeatWithinRun
    /\ \A r \in Run : HandOK(r)

\* What Append does to the domain and the elements of a sequence.
LEMMA AppendFacts ==
    ASSUME NEW S, NEW s \in Seq(S), NEW x
    PROVE  /\ Len(s) + 1 \notin DOMAIN s
           /\ Len(s) + 1 \in Nat \ {0}
           /\ \A i \in DOMAIN s : i < Len(s) + 1
           /\ DOMAIN Append(s, x) = DOMAIN s \union {Len(s) + 1}
           /\ Append(s, x)[Len(s) + 1] = x
           /\ \A i \in DOMAIN s : Append(s, x)[i] = s[i]
  OBVIOUS

\* A step that keeps the listings' identity keeps the catalogue's invariants.
LEMMA QuietCatalog ==
    ASSUME CatalogOK, jobs' = jobs, SameListings
    PROVE  CatalogOK'
  <1>1. PrimaryListings'
    BY DEF CatalogOK, PrimaryListings, SameListings, SameIdentity
  <1>2. ListedOnce'
    BY DEF CatalogOK, ListedOnce, SameListings, SameIdentity
  <1>3. LinksLeadBack'
    BY DEF CatalogOK, LinksLeadBack
  <1>4. QED
    BY <1>1, <1>2, <1>3 DEF CatalogOK

\* upsert_listing's insert keeps the catalogue's invariants.
LEMMA AttachCatalog ==
    ASSUME IInv, NEW r \in Run, Attaches(r)
    PROVE  CatalogOK'
  <1> DEFINE n == Len(listings) + 1
             x == NewListing(target[r], Current(r), FALSE)
  <1>1. /\ n \notin DOMAIN listings
        /\ DOMAIN listings' = DOMAIN listings \union {n}
        /\ listings'[n] = x
        /\ \A l \in DOMAIN listings : listings'[l] = listings[l]
        /\ jobs' = jobs
    <2>1. listings \in Seq(Listing)
      BY DEF IInv, Typed, TypeOK
    <2>2. listings' = Append(listings, x) /\ jobs' = jobs
      BY DEF Attaches
    <2> HIDE DEF x
    <2>3. QED
      BY <2>1, <2>2, AppendFacts
  <1>2. target[r] \in DOMAIN jobs
    BY DEF Attaches, IInv, HandOK
  <1>3. /\ x.job = target[r] /\ x.isPrimary = FALSE
        /\ x.source = Current(r).source /\ x.externalId = Current(r).externalId
    BY DEF NewListing
  <1>4. x.externalId # NoValue => ListingsOf(Current(r)) = {}
    BY <1>3 DEF Attaches, IInv, HandOK
  <1> HIDE DEF n, x
  <1>5. PrimaryListings'
    BY <1>1, <1>2, <1>3 DEF IInv, CatalogOK, PrimaryListings
  <1>6. ListedOnce'
    BY <1>1, <1>3, <1>4 DEF IInv, CatalogOK, ListedOnce, ListingsOf
  <1>7. LinksLeadBack'
    BY <1>1 DEF IInv, CatalogOK, LinksLeadBack
  <1>8. QED
    BY <1>5, <1>6, <1>7 DEF CatalogOK

\* What CreateJob appends, spelled out.
LEMMA CreateFacts ==
    ASSUME Typed, NEW r \in Run, CreateJob(r)
    PROVE  LET n == Len(listings) + 1
               m == Len(jobs) + 1
           IN  /\ n \notin DOMAIN listings /\ m \notin DOMAIN jobs
               /\ m \in Nat \ {0}
               /\ \A j \in DOMAIN jobs : j < m
               /\ DOMAIN listings' = DOMAIN listings \union {n}
               /\ DOMAIN jobs' = DOMAIN jobs \union {m}
               /\ listings'[n] = NewListing(m, Current(r), TRUE)
               /\ jobs'[m] = [offer |-> Current(r), duplicateOf |-> target[r]]
               /\ \A l \in DOMAIN listings : listings'[l] = listings[l]
               /\ \A j \in DOMAIN jobs : jobs'[j] = jobs[j]
  <1> DEFINE x == NewListing(Len(jobs) + 1, Current(r), TRUE)
             job == [offer |-> Current(r), duplicateOf |-> target[r]]
  <1>1. listings' = Append(listings, x) /\ jobs' = Append(jobs, job)
    BY DEF CreateJob
  <1>2. listings \in Seq(Listing) /\ jobs \in Seq(Job)
    BY DEF Typed, TypeOK
  <1> HIDE DEF x, job
  <1>3. /\ Len(listings) + 1 \notin DOMAIN listings
        /\ DOMAIN listings' = DOMAIN listings \union {Len(listings) + 1}
        /\ listings'[Len(listings) + 1] = x
        /\ \A l \in DOMAIN listings : listings'[l] = listings[l]
    BY <1>1, <1>2, AppendFacts
  <1>4. /\ Len(jobs) + 1 \notin DOMAIN jobs
        /\ Len(jobs) + 1 \in Nat \ {0}
        /\ \A j \in DOMAIN jobs : j < Len(jobs) + 1
        /\ DOMAIN jobs' = DOMAIN jobs \union {Len(jobs) + 1}
        /\ jobs'[Len(jobs) + 1] = job
        /\ \A j \in DOMAIN jobs : jobs'[j] = jobs[j]
    BY <1>1, <1>2, AppendFacts
  <1>5. QED
    BY <1>3, <1>4 DEF x, job

\* create_from_normalized keeps the catalogue's invariants.
LEMMA CreateCatalog ==
    ASSUME IInv, NEW r \in Run, CreateJob(r)
    PROVE  CatalogOK'
  <1> DEFINE n == Len(listings) + 1
             m == Len(jobs) + 1
             x == NewListing(m, Current(r), TRUE)
             job == [offer |-> Current(r), duplicateOf |-> target[r]]
  <1>1. /\ n \notin DOMAIN listings /\ m \notin DOMAIN jobs
        /\ m \in Nat \ {0}
        /\ \A j \in DOMAIN jobs : j < m
        /\ DOMAIN listings' = DOMAIN listings \union {n}
        /\ DOMAIN jobs' = DOMAIN jobs \union {m}
        /\ listings'[n] = x
        /\ jobs'[m] = job
        /\ \A l \in DOMAIN listings : listings'[l] = listings[l]
        /\ \A j \in DOMAIN jobs : jobs'[j] = jobs[j]
    BY CreateFacts DEF IInv
  <1>2. /\ x.job = m /\ x.isPrimary = TRUE
        /\ x.source = Current(r).source /\ x.externalId = Current(r).externalId
        /\ job.offer = Current(r) /\ job.duplicateOf = target[r]
    BY DEF NewListing
  <1>3. ListingsOf(Current(r)) = {} /\ LinkOK(r)
    BY DEF CreateJob, IInv, HandOK
  <1> HIDE DEF n, m, x, job
  <1>4. PrimaryListings'
    <2>1. \A j \in DOMAIN jobs' : \E l \in DOMAIN listings' :
            /\ listings'[l].job = j
            /\ listings'[l].isPrimary
            /\ listings'[l].source = jobs'[j].offer.source
            /\ listings'[l].externalId = jobs'[j].offer.externalId
      <3> TAKE j \in DOMAIN jobs'
      <3>1. CASE j = m
        BY <1>1, <1>2, <3>1
      <3>2. CASE j \in DOMAIN jobs
        BY <1>1, <3>2 DEF IInv, CatalogOK, PrimaryListings
      <3>3. QED
        BY <1>1, <3>1, <3>2
    <2>2. \A l \in DOMAIN listings' : listings'[l].job \in DOMAIN jobs'
      BY <1>1, <1>2 DEF IInv, CatalogOK, PrimaryListings
    <2>3. \A l, k \in DOMAIN listings' :
            /\ listings'[l].job = listings'[k].job
            /\ listings'[l].isPrimary /\ listings'[k].isPrimary
            => l = k
      BY <1>1, <1>2 DEF IInv, CatalogOK, PrimaryListings
    <2>4. QED
      BY <2>1, <2>2, <2>3 DEF PrimaryListings
  <1>5. ListedOnce'
    BY <1>1, <1>2, <1>3 DEF IInv, CatalogOK, ListedOnce, ListingsOf
  <1>6. LinksLeadBack'
    <2>1. \A j \in DOMAIN jobs : jobs[j].duplicateOf # NoMatch =>
            jobs[j].duplicateOf \in DOMAIN jobs
      <3>1. jobs \in Seq(Job)
        BY DEF IInv, Typed, TypeOK
      <3>2. \A j \in DOMAIN jobs : jobs[j] \in Job
        BY <3>1
      <3>3. \A j \in DOMAIN jobs : jobs[j].duplicateOf \in Nat
        BY <3>2 DEF Job
      <3>4. Len(jobs) \in Nat /\ DOMAIN jobs = 1..Len(jobs)
        BY <3>1
      <3>5. QED
        BY <3>3, <3>4 DEF IInv, CatalogOK, LinksLeadBack
    <2>2. QED
      BY <1>1, <1>2, <1>3, <2>1 DEF IInv, CatalogOK, LinksLeadBack, LinkOK
  <1>7. QED
    BY <1>4, <1>5, <1>6 DEF CatalogOK

\* So does every step of a run.
LEMMA CatalogStep ==
    ASSUME IInv, NEW r \in Run, RunStep(r)
    PROVE  CatalogOK'
  <1>1. CASE Quiet
    BY <1>1, QuietCatalog DEF Quiet, IInv
  <1>2. CASE Attaches(r)
    BY <1>2, AttachCatalog
  <1>3. CASE CreateJob(r)
    BY <1>3, CreateCatalog
  <1>4. QED
    BY <1>1, <1>2, <1>3, StepKinds DEF IInv

\* CreateJob credits its run, and nobody else, with the job it adds.
LEMMA CreateCredit ==
    ASSUME Typed, NEW r \in Run, CreateJob(r)
    PROVE  /\ result'[r].new = result[r].new \union {Len(jobs) + 1}
           /\ \A s \in Run : s # r => result'[s].new = result[s].new
  BY DEF CreateJob, Typed, TypeOK, BatchResult

\* The jobs the runs report as new stay the jobs there are, each reported once.
LEMMA NewJobsStep ==
    ASSUME IInv, NEW r \in Run, RunStep(r)
    PROVE  NewAreJobs'
  <1>1. CASE jobs' = jobs /\ SameCredit
    BY <1>1 DEF SameCredit, IInv, NewAreJobs
  <1>2. CASE CreateJob(r)
    <2> DEFINE m == Len(jobs) + 1
    <2>1. /\ m \notin DOMAIN jobs
          /\ DOMAIN jobs' = DOMAIN jobs \union {m}
      BY <1>2, CreateFacts DEF IInv
    <2>2. /\ result'[r].new = result[r].new \union {m}
          /\ \A s \in Run : s # r => result'[s].new = result[s].new
      BY <1>2, CreateCredit DEF IInv
    <2> HIDE DEF m
    <2>3. \A s \in Run : result[s].new \subseteq DOMAIN jobs
      BY DEF IInv, NewAreJobs
    <2>4. \A j : j \in DOMAIN jobs' <=> \E s \in Run : j \in result'[s].new
      <3>1. TAKE j
      <3>2. CASE j = m
        BY <2>1, <2>2, <3>2
      <3>3. CASE j # m
        BY <2>1, <2>2, <3>3 DEF IInv, NewAreJobs
      <3>4. QED
        BY <3>2, <3>3
    <2>5. \A s, t \in Run : s # t => result'[s].new \intersect result'[t].new = {}
      BY <2>1, <2>2, <2>3 DEF IInv, NewAreJobs
    <2>6. QED
      BY <2>4, <2>5 DEF NewAreJobs
  <1>3. QED
    BY <1>1, <1>2, StepKinds DEF Quiet, Attaches, IInv

\* A job a run creates has a content hash and a URL new to that run's jobs.
LEMMA NoRepeatStep ==
    ASSUME IInv, NEW r \in Run, RunStep(r)
    PROVE  NoRepeatWithinRun'
  <1>1. CASE jobs' = jobs /\ SameCredit
    BY <1>1 DEF SameCredit, IInv, NoRepeatWithinRun
  <1>2. CASE CreateJob(r)
    <2> DEFINE m == Len(jobs) + 1
    <2>1. /\ m \notin DOMAIN jobs
          /\ jobs'[m].offer = Current(r)
          /\ \A j \in DOMAIN jobs : jobs'[j] = jobs[j]
      <3>1. /\ m \notin DOMAIN jobs
            /\ jobs'[m] = [offer |-> Current(r), duplicateOf |-> target[r]]
            /\ \A j \in DOMAIN jobs : jobs'[j] = jobs[j]
        BY <1>2, CreateFacts DEF IInv
      <3>2. QED
        BY <3>1
    <2>2. /\ result'[r].new = result[r].new \union {m}
          /\ \A s \in Run : s # r => result'[s].new = result[s].new
      BY <1>2, CreateCredit DEF IInv
    <2> HIDE DEF m
    <2>3. \A s \in Run : result[s].new \subseteq DOMAIN jobs
      BY DEF IInv, NewAreJobs
    <2>4. HashFresh(r) /\ UrlFresh(r)
      BY <1>2 DEF IInv, HandOK, CreateJob
    <2>5. SUFFICES ASSUME NEW s \in Run, NEW j \in result'[s].new,
                          NEW k \in result'[s].new, j # k
                   PROVE  /\ jobs'[j].offer.contentHash # jobs'[k].offer.contentHash
                          /\ \/ jobs'[j].offer.canonicalUrl = NoValue
                             \/ jobs'[j].offer.canonicalUrl # jobs'[k].offer.canonicalUrl
      BY DEF NoRepeatWithinRun
    <2>6. CASE j \in result[s].new /\ k \in result[s].new
      BY <2>1, <2>3, <2>5, <2>6 DEF IInv, NoRepeatWithinRun
    <2>7. CASE j = m /\ s = r /\ k \in result[r].new
      BY <2>1, <2>3, <2>4, <2>7 DEF HashFresh, UrlFresh
    <2>8. CASE k = m /\ s = r /\ j \in result[r].new
      BY <2>1, <2>3, <2>4, <2>8 DEF HashFresh, UrlFresh
    <2>9. QED
      BY <2>2, <2>5, <2>6, <2>7, <2>8
  <1>3. QED
    BY <1>1, <1>2, StepKinds DEF Quiet, Attaches, IInv

\* Rows are never removed, a job row never changes, and a listing stays the
\* listing of its posting.
Growth ==
    /\ DOMAIN jobs \subseteq DOMAIN jobs'
    /\ \A j \in DOMAIN jobs : jobs'[j] = jobs[j]
    /\ DOMAIN listings \subseteq DOMAIN listings'
    /\ \A l \in DOMAIN listings : SameIdentity(l)

\* No step of a run removes a row or changes a job.
LEMMA GrowthStep ==
    ASSUME Typed, NEW r \in Run, RunStep(r)
    PROVE  Growth
  <1>1. CASE Quiet
    BY <1>1 DEF Quiet, SameListings, Growth
  <1>2. CASE Attaches(r)
    <2>1. listings \in Seq(Listing)
      BY DEF Typed, TypeOK
    <2>2. /\ DOMAIN listings \subseteq DOMAIN listings'
          /\ \A l \in DOMAIN listings : listings'[l] = listings[l]
      <3> DEFINE x == NewListing(target[r], Current(r), FALSE)
      <3>1. listings' = Append(listings, x)
        BY <1>2 DEF Attaches
      <3> HIDE DEF x
      <3>2. QED
        BY <2>1, <3>1, AppendFacts
    <2>3. QED
      BY <1>2, <2>2 DEF Attaches, Growth, SameIdentity
  <1>3. CASE CreateJob(r)
    <2>1. /\ DOMAIN listings \subseteq DOMAIN listings'
          /\ DOMAIN jobs \subseteq DOMAIN jobs'
          /\ \A l \in DOMAIN listings : listings'[l] = listings[l]
          /\ \A j \in DOMAIN jobs : jobs'[j] = jobs[j]
      BY <1>3, CreateFacts
    <2>2. QED
      BY <2>1 DEF Growth, SameIdentity
  <1>4. QED
    BY <1>1, <1>2, <1>3, StepKinds

\* A posting that is listed stays listed.
LEMMA StaysListed ==
    ASSUME Growth, NEW offer, NEW l \in ListingsOf(offer)
    PROVE  l \in ListingsOf(offer)'
  BY DEF Growth, SameIdentity, ListingsOf

\* What a run has in hand is not disturbed by the steps of the others.
LEMMA CarryHand ==
    ASSUME IInv, NEW s \in Run, Growth,
           pc'[s] = pc[s], batch'[s] = batch[s], target'[s] = target[s],
           result'[s] = result[s]
    PROVE  HandOK(s)'
  <1>1. Current(s)' = Current(s)
    BY DEF Current
  <1>2. result[s].new \subseteq DOMAIN jobs
    BY DEF IInv, NewAreJobs
  <1>3. HandOK(s)
    BY DEF IInv
  <1>4. HashFresh(s) => HashFresh(s)'
    BY <1>1, <1>2 DEF HashFresh, Growth
  <1>5. UrlFresh(s) => UrlFresh(s)'
    BY <1>1, <1>2 DEF UrlFresh, Growth
  <1>6. LinkOK(s) => LinkOK(s)'
    BY <1>1 DEF LinkOK, Growth
  <1>7. target[s] \in ListingsOf(Current(s)) => target'[s] \in ListingsOf(Current(s))'
    BY <1>1, StaysListed
  <1>8. QED
    BY <1>1, <1>3, <1>4, <1>5, <1>6, <1>7 DEF HandOK, Growth

\* A step of r that reads only: its lookups establish what the labels it can
\* reach next rely on.
LEMMA LookupHand ==
    ASSUME IInv, NEW r \in Run, NEW found, NEW onMiss \in {"url", "fuzzy"},
           found \subseteq DOMAIN jobs, Lookup(r, found, onMiss),
           UNCHANGED <<jobs, listings, batch, result>>,
           found = {} => HashFresh(r),
           (found = {} /\ onMiss = "fuzzy") => UrlFresh(r)
    PROVE  HandOK(r)'
  <1>1. CASE /\ \E j \in DOMAIN jobs : /\ IsOldest(j, found)
                                        /\ target' = [target EXCEPT ![r] = j]
             /\ Goto(r, "attach")
    BY <1>1 DEF HandOK, Goto, IInv, Typed, TypeOK
  <1>2. CASE found = {} /\ Goto(r, onMiss) /\ UNCHANGED target
    <2>1. pc'[r] = onMiss
      BY <1>2 DEF Goto, IInv, Typed, TypeOK
    <2>2. HashFresh(r)' <=> HashFresh(r)
      BY DEF HashFresh, Current
    <2>3. UrlFresh(r)' <=> UrlFresh(r)
      BY DEF UrlFresh, Current
    <2>4. QED
      BY <1>2, <2>1, <2>2, <2>3 DEF HandOK
  <1>3. QED
    BY <1>1, <1>2 DEF Lookup

\* What each run has looked up and still relies on stays true.
LEMMA HandStep ==
    ASSUME IInv, NEW r \in Run, RunStep(r)
    PROVE  \A s \in Run : HandOK(s)'
  <1>1. Growth
    BY GrowthStep DEF IInv
  <1>2. ASSUME NEW s \in Run, s # r PROVE HandOK(s)'
    BY <1>1, <1>2, OthersUntouched, CarryHand DEF IInv
  <1>3. HandOK(r)'
    <2> DEFINE Relying == {"refresh", "attach", "append", "create", "url", "fuzzy"}
    <2>a. pc'[r] \notin Relying => HandOK(r)'
      BY DEF HandOK
    <2>b. \A label : Goto(r, label) => pc'[r] = label
      BY DEF Goto, IInv, Typed, TypeOK
    <2>c. Placed(r) => HandOK(r)'
      BY <2>a, <2>b DEF Placed
    <2>d. result[r].new \subseteq DOMAIN jobs
      BY DEF IInv, NewAreJobs
    <2> HIDE DEF Relying
    <2>1. ASSUME NEW b \in Batches, StartBatch(r, b) PROVE HandOK(r)'
      BY <2>1, <2>a, <2>b DEF StartBatch, Relying
    <2>2. CASE ResolveCompany(r)
      <3>1. pc'[r] = "fill" \/ pc'[r] = "listing"
        BY <2>2, <2>b DEF ResolveCompany
      <3>2. QED
        BY <3>1, <2>a DEF Relying
    <2>3. CASE FillCompany(r)
      BY <2>3, <2>a, <2>b DEF FillCompany, Relying
    <2>4. CASE FindListing(r)
      <3>1. CASE pc'[r] = "hash"
        BY <3>1, <2>a DEF Relying
      <3>2. ASSUME NEW l \in ListingsOf(Current(r)), Goto(r, "refresh"),
                   target' = [target EXCEPT ![r] = l]
            PROVE  HandOK(r)'
        <4>1. pc'[r] = "refresh" /\ target'[r] = l
          BY <3>2, <2>b DEF IInv, Typed, TypeOK
        <4>2. l \in ListingsOf(Current(r))'
          BY <2>4, <3>2 DEF FindListing, ListingsOf, Current
        <4>3. QED
          BY <4>1, <4>2 DEF HandOK
      <3>3. QED
        BY <2>4, <2>b, <3>1, <3>2 DEF FindListing
    <2>5. CASE FindByContentHash(r)
      <3>1. JobsWithHash(Current(r).contentHash) = {} => HashFresh(r)
        BY <2>d DEF JobsWithHash, HashFresh
      <3>2. JobsWithHash(Current(r).contentHash) \subseteq DOMAIN jobs
        BY DEF JobsWithHash
      <3>3. QED
        BY <2>5, <3>1, <3>2, LookupHand DEF FindByContentHash
    <2>6. CASE FindByCanonicalUrl(r)
      <3>1. JobsWithUrl(Current(r).canonicalUrl) = {} => UrlFresh(r)
        BY <2>d DEF JobsWithUrl, UrlFresh
      <3>2. JobsWithUrl(Current(r).canonicalUrl) \subseteq DOMAIN jobs
        BY DEF JobsWithUrl
      <3>3. HashFresh(r)
        BY <2>6 DEF FindByCanonicalUrl, IInv, HandOK
      <3>4. QED
        BY <2>6, <3>1, <3>2, <3>3, LookupHand DEF FindByCanonicalUrl
    <2>7. CASE DetectDuplicate(r)
      <3> DEFINE d == Detected(Current(r))
      <3>1. /\ target'[r] = d.job
            /\ pc'[r] = IF d.verdict = "DUPLICATE" THEN "attach" ELSE "create"
            /\ UNCHANGED <<jobs, listings, batch, result>>
        BY <2>7, <2>b DEF DetectDuplicate, IInv, Typed, TypeOK
      <3>2. /\ \/ d.job = NoMatch
               \/ d.job \in DOMAIN jobs /\ jobs[d.job].offer.company = Current(r).company
            /\ d.verdict = "DUPLICATE" => d.job \in DOMAIN jobs
        BY DetectedAmongJobs
      <3>3. HashFresh(r) /\ UrlFresh(r)
        BY <2>7 DEF DetectDuplicate, IInv, HandOK
      <3>4. HashFresh(r)' /\ UrlFresh(r)'
        BY <3>1, <3>3 DEF HashFresh, UrlFresh, Current
      <3>5. CASE d.verdict = "DUPLICATE"
        BY <3>1, <3>2, <3>5 DEF HandOK
      <3>6. CASE d.verdict # "DUPLICATE"
        <4>1. LinkOK(r)'
          BY <3>1, <3>2 DEF LinkOK, Current
        <4>2. QED
          BY <3>1, <3>4, <3>6, <4>1 DEF HandOK
      <3>7. QED
        BY <3>5, <3>6
    <2>8. CASE FindIdlessListing(r)
      <3>1. CASE Placed(r)
        BY <3>1, <2>c
      <3>2. CASE Goto(r, "append") /\ UNCHANGED <<batch, target>>
        <4>1. target[r] \in DOMAIN jobs /\ Current(r).externalId = NoValue
          BY <2>8 DEF FindIdlessListing, IInv, HandOK
        <4>2. pc'[r] = "append"
          BY <3>2, <2>b
        <4>3. QED
          BY <2>8, <3>2, <4>1, <4>2 DEF FindIdlessListing, HandOK, Current
      <3>3. QED
        BY <2>8, <3>1, <3>2 DEF FindIdlessListing
    <2>9. CASE ReturnBatch(r)
      BY <2>9, <2>a, <2>b DEF ReturnBatch, Relying
    <2>10. CASE AbortBatch(r)
      BY <2>10, <2>a, <2>b DEF AbortBatch, Relying
    <2>11. QED
      BY <2>c, <2>1, <2>2, <2>3, <2>4, <2>5, <2>6, <2>7, <2>8, <2>9, <2>10
         DEF RunStep, PersistStep, SkipUnknownSource, RefreshListing, AttachListing,
             AppendIdlessListing, CreateJob, LoseRace
  <1>4. QED
    BY <1>2, <1>3

-------------------------------------------------------------------------------
(* Theorems *)

\* The empty catalogue satisfies the invariant.
LEMMA InvariantStart == Init => IInv
  BY TypingStart DEF Init, IInv, CatalogOK, PrimaryListings, ListedOnce, LinksLeadBack,
                     NewAreJobs, NoRepeatWithinRun, HandOK

\* Every step of a run keeps it.
LEMMA InvariantStep == IInv /\ [Next]_vars => IInv'
  <1> SUFFICES ASSUME IInv, [Next]_vars
               PROVE  IInv'
    OBVIOUS
  <1>1. Typed'
    BY TypingStep DEF IInv
  <1>2. ASSUME NEW r \in Run, RunStep(r) PROVE IInv'
    BY <1>1, <1>2, CatalogStep, NewJobsStep, NoRepeatStep, HandStep DEF IInv
  <1>3. CASE UNCHANGED vars
    <2>1. \A r \in Run : HandOK(r)'
      BY <1>3 DEF vars, IInv, HandOK, HashFresh, UrlFresh, LinkOK, Current, ListingsOf
    <2>2. QED
      BY <1>1, <1>3, <2>1 DEF vars, IInv, CatalogOK, PrimaryListings, ListedOnce,
                              LinksLeadBack, NewAreJobs, NoRepeatWithinRun
  <1>4. QED
    BY <1>2, <1>3 DEF Next, RunStep

LEMMA Invariance == Spec => []IInv
  BY InvariantStart, InvariantStep, PTL DEF Spec

\* Every variable keeps its type.
THEOREM TypeCorrect == Spec => []TypeOK
  <1>1. IInv => TypeOK
    BY DEF IInv, Typed
  <1>2. QED
    BY <1>1, Invariance, PTL

\* A job is never without its one primary listing.
THEOREM PrimaryListingsHold == Spec => []PrimaryListings
  <1>1. IInv => PrimaryListings
    BY DEF IInv, CatalogOK
  <1>2. QED
    BY <1>1, Invariance, PTL

\* A run never creates a job whose content or URL it has already created.
THEOREM NoRepeatHolds == Spec => []NoRepeatWithinRun
  <1>1. IInv => NoRepeatWithinRun
    BY DEF IInv
  <1>2. QED
    BY <1>1, Invariance, PTL

\* Near-duplicate links lead to older jobs of the same company.
THEOREM LinksHold == Spec => []LinksLeadBack
  <1>1. IInv => LinksLeadBack
    BY DEF IInv, CatalogOK
  <1>2. QED
    BY <1>1, Invariance, PTL

-------------------------------------------------------------------------------
(* The counters *)

Counted(r) ==
    /\ IsFiniteSet(result[r].new)
    /\ pc[r] # "raised" =>
         result[r].found = Cardinality(result[r].new) + result[r].duplicate
                           + (IF InHand(r) THEN 1 ELSE 0)

\* A posting that is a duplicate moves from "in hand" to "duplicate".
LEMMA CountedDuplicate ==
    ASSUME IInv, NEW r \in Run, Counted(r), InHand(r), pc[r] # "raised",
           Placed(r), CountDuplicate(r)
    PROVE  Counted(r)'
  <1>1. /\ result'[r].new = result[r].new /\ result'[r].found = result[r].found
        /\ result'[r].duplicate = result[r].duplicate + 1
    BY DEF IInv, Typed, TypeOK, BatchResult, CountDuplicate
  <1>2. ~InHand(r)'
    BY DEF IInv, Typed, TypeOK, Placed, Goto, InHand
  <1>3. /\ result[r].found \in Nat /\ result[r].duplicate \in Nat
        /\ Cardinality(result[r].new) \in Nat
    BY FS_CardinalityType DEF IInv, Typed, TypeOK, BatchResult, Counted
  <1>4. QED
    BY <1>1, <1>2, <1>3 DEF Counted

\* A step of r that neither finds nor places a posting.
LEMMA CountedSame ==
    ASSUME NEW r \in Run, Counted(r), pc[r] # "raised", result' = result,
           InHand(r)' <=> InHand(r)
    PROVE  Counted(r)'
  BY DEF Counted

\* Every posting a run counts as found is new, a duplicate or in hand.
LEMMA CountedStep ==
    ASSUME IInv, NEW r \in Run, RunStep(r), \A s \in Run : Counted(s)
    PROVE  \A s \in Run : Counted(s)'
  <1>1. ASSUME NEW s \in Run, s # r PROVE Counted(s)'
    BY <1>1, OthersUntouched DEF Counted, InHand, IInv
  <1>2. Counted(r)'
    <2>a. \A label : Goto(r, label) => pc'[r] = label
      BY DEF Goto, IInv, Typed, TypeOK
    <2>b. \A label \in Busy \ {"next"} : Goto(r, label) => InHand(r)'
      BY <2>a DEF InHand
    <2>c. "raised" \notin Busy
      BY DEF Busy
    <2>1. ASSUME NEW b \in Batches, StartBatch(r, b) PROVE Counted(r)'
      BY <2>1, <2>a, CountedSame DEF StartBatch, InHand, Busy
    <2>2. CASE SkipUnknownSource(r)
      BY <2>2, <2>a, CountedSame DEF SkipUnknownSource, Placed, InHand
    <2>3. CASE ResolveCompany(r)
      <3>1. /\ result'[r].new = result[r].new
            /\ result'[r].duplicate = result[r].duplicate
            /\ result'[r].found = result[r].found + 1
        BY <2>3 DEF ResolveCompany, IInv, Typed, TypeOK, BatchResult
      <3>2. pc[r] = "next" /\ InHand(r)' /\ ~InHand(r)
        BY <2>3, <2>b DEF ResolveCompany, Busy, InHand
      <3>3. /\ result[r].found \in Nat /\ result[r].duplicate \in Nat
            /\ Cardinality(result[r].new) \in Nat
        BY FS_CardinalityType DEF IInv, Typed, TypeOK, BatchResult, Counted
      <3>4. QED
        BY <3>1, <3>2, <3>3 DEF Counted
    <2>4. CASE FillCompany(r)
      BY <2>4, <2>b, CountedSame DEF FillCompany, InHand, Busy
    <2>5. CASE FindListing(r)
      BY <2>5, <2>b, CountedSame DEF FindListing, InHand, Busy
    <2>6. CASE RefreshListing(r)
      BY <2>6, CountedDuplicate DEF RefreshListing, InHand, Busy
    <2>7. CASE FindByContentHash(r)
      BY <2>7, <2>b, CountedSame DEF FindByContentHash, Lookup, InHand, Busy
    <2>8. CASE FindByCanonicalUrl(r)
      BY <2>8, <2>b, CountedSame DEF FindByCanonicalUrl, Lookup, InHand, Busy
    <2>9. CASE DetectDuplicate(r)
      <3>1. InHand(r)'
        BY <2>9, <2>b DEF DetectDuplicate, Busy
      <3>2. QED
        BY <2>9, <3>1, CountedSame DEF DetectDuplicate, InHand, Busy
    <2>10. CASE AttachListing(r)
      BY <2>10, CountedDuplicate DEF AttachListing, InHand, Busy
    <2>11. CASE FindIdlessListing(r)
      <3>1. CASE Placed(r) /\ CountDuplicate(r)
        BY <2>11, <3>1, CountedDuplicate DEF FindIdlessListing, InHand, Busy
      <3>2. CASE Goto(r, "append") /\ UNCHANGED result
        BY <2>11, <3>2, <2>b, CountedSame DEF FindIdlessListing, InHand, Busy
      <3>3. QED
        BY <2>11, <3>1, <3>2 DEF FindIdlessListing
    <2>12. CASE AppendIdlessListing(r)
      BY <2>12, CountedDuplicate DEF AppendIdlessListing, InHand, Busy
    <2>13. CASE CreateJob(r)
      <3> DEFINE m == Len(jobs) + 1
      <3>1. m \notin result[r].new
        BY <2>13, CreateFacts DEF IInv, NewAreJobs
      <3>2. /\ result'[r].new = result[r].new \union {m}
            /\ result'[r].duplicate = result[r].duplicate
            /\ result'[r].found = result[r].found
        BY <2>13 DEF CreateJob, IInv, Typed, TypeOK, BatchResult
      <3>3. pc[r] = "create" /\ InHand(r) /\ ~InHand(r)'
        BY <2>13, <2>a DEF CreateJob, Placed, InHand, Busy
      <3>4. /\ result[r].found \in Nat /\ result[r].duplicate \in Nat
            /\ Cardinality(result[r].new) \in Nat
        BY FS_CardinalityType DEF IInv, Typed, TypeOK, BatchResult, Counted
      <3> HIDE DEF m
      <3>5. /\ IsFiniteSet(result'[r].new)
            /\ Cardinality(result'[r].new) = Cardinality(result[r].new) + 1
        <4>1. IsFiniteSet(result[r].new)
          BY DEF Counted
        <4>2. QED
          BY <3>1, <3>2, <4>1, FS_AddElement, ZenonT(30)
      <3>6. QED
        BY <3>2, <3>3, <3>4, <3>5 DEF Counted
    <2>14. CASE LoseRace(r)
      BY <2>14, CountedDuplicate DEF LoseRace, InHand, Busy
    <2>15. CASE ReturnBatch(r)
      BY <2>15, <2>a, CountedSame DEF ReturnBatch, InHand, Busy
    <2>16. CASE AbortBatch(r)
      BY <2>16, <2>a DEF AbortBatch, Counted
    <2>17. QED
      BY <2>1, <2>2, <2>3, <2>4, <2>5, <2>6, <2>7, <2>8, <2>9, <2>10, <2>11,
         <2>12, <2>13, <2>14, <2>15, <2>16 DEF RunStep, PersistStep
  <1>3. QED
    BY <1>1, <1>2

\* The inductive invariant with the counters.
CountsInv == IInv /\ \A r \in Run : Counted(r)

\* It holds of the empty catalogue.
LEMMA CountsStart == Init => CountsInv
  <1> SUFFICES ASSUME Init PROVE \A r \in Run : Counted(r)
    BY InvariantStart DEF CountsInv
  <1>1. IsFiniteSet({}) /\ Cardinality({}) = 0
    BY FS_EmptySet
  <1>2. ASSUME NEW r \in Run
        PROVE  /\ result[r] = [found |-> 0, new |-> {}, duplicate |-> 0]
               /\ ~InHand(r)
    BY DEF Init, InHand, Busy
  <1>3. ASSUME NEW r \in Run PROVE Counted(r)
    <2>1. /\ result[r].new = {} /\ result[r].found = 0 /\ result[r].duplicate = 0
          /\ ~InHand(r)
      BY <1>2
    <2>2. QED
      BY <1>1, <2>1 DEF Counted
  <1>4. QED
    BY <1>3

\* Every step of a run keeps it.
LEMMA CountsStep == CountsInv /\ [Next]_vars => CountsInv'
  <1> SUFFICES ASSUME CountsInv, [Next]_vars
               PROVE  (\A r \in Run : Counted(r))'
    BY InvariantStep DEF CountsInv
  <1>1. ASSUME NEW r \in Run, RunStep(r) PROVE \A s \in Run : Counted(s)'
    BY <1>1, CountedStep DEF CountsInv
  <1>2. CASE UNCHANGED vars
    BY <1>2 DEF vars, CountsInv, Counted, InHand
  <1>3. QED
    BY <1>1, <1>2 DEF Next, RunStep

\* It says more than JobsCreditedOnce.
LEMMA CountsCredit == CountsInv => JobsCreditedOnce
  <1> SUFFICES ASSUME IInv, \A r \in Run : Counted(r)
               PROVE  JobsCreditedOnce
    BY DEF CountsInv
  <1>1. DOMAIN jobs = UNION {result[r].new : r \in Run}
    <2>1. ASSUME NEW j \in DOMAIN jobs PROVE j \in UNION {result[r].new : r \in Run}
      <3>1. PICK r \in Run : j \in result[r].new
        BY DEF IInv, NewAreJobs
      <3>2. QED
        BY <3>1, Zenon
    <2>2. ASSUME NEW j \in UNION {result[r].new : r \in Run} PROVE j \in DOMAIN jobs
      <3>1. PICK r \in Run : j \in result[r].new
        BY <2>2, Zenon
      <3>2. QED
        BY <3>1 DEF IInv, NewAreJobs
    <2>3. QED
      BY <2>1, <2>2
  <1>2. QED
    BY <1>1 DEF IInv, NewAreJobs, Counted, JobsCreditedOnce

\* Every job is credited to the one run that created it, and the counters of a
\* run add up, whatever races it wins or loses.
THEOREM JobsCreditedOnceHolds == Spec => []JobsCreditedOnce
  BY CountsStart, CountsStep, CountsCredit, PTL DEF Spec

-------------------------------------------------------------------------------
(* What a step of persist_batch does with the postings of its run, for those *)
(* that call it                                                              *)

ListedNext(offer) ==
    \E l \in DOMAIN listings' : /\ listings'[l].source = offer.source
                                /\ listings'[l].externalId = offer.externalId

Skips(r) ==
    /\ pc[r] = "next" /\ batch[r] # << >> /\ Current(r).source \notin KnownSource
    /\ pc'[r] = "next" /\ batch'[r] = Tail(batch[r]) /\ result' = result

Takes(r) ==
    /\ pc[r] = "next" /\ batch[r] # << >> /\ Current(r).source \in KnownSource
    /\ InHand(r)' /\ batch' = batch /\ result'[r].found = result[r].found + 1

Looks(r) == InHand(r) /\ InHand(r)' /\ batch' = batch /\ result' = result

Places(r) ==
    /\ InHand(r) /\ batch[r] # << >> /\ pc'[r] = "next" /\ batch'[r] = Tail(batch[r])
    /\ result'[r].found = result[r].found
    /\ Current(r).externalId # NoValue => ListedNext(Current(r))

Returns(r) ==
    /\ pc[r] = "next" /\ batch[r] = << >> /\ pc'[r] = "returned"
    /\ batch' = batch /\ result' = result

\* The listing a posting has stays its listing, and one that was just added is.
LEMMA ListedAfter ==
    ASSUME IInv, NEW r \in Run, RunStep(r), NEW offer
    PROVE  ListingsOf(offer) # {} => ListedNext(offer)
  <1>1. Growth
    BY GrowthStep DEF IInv
  <1>2. QED
    BY <1>1 DEF Growth, SameIdentity, ListingsOf, ListedNext

\* A posting is skipped because its source is unknown, or taken, counted as
\* found, and, when it is placed, listed if it has an id.
LEMMA PersistKinds ==
    ASSUME IInv, NEW r \in Run, PersistStep(r)
    PROVE  Skips(r) \/ Takes(r) \/ Looks(r) \/ Places(r) \/ Returns(r)
  <1>a. \A label : Goto(r, label) => pc'[r] = label
    BY DEF Goto, IInv, Typed, TypeOK
  <1>b. \A label \in Busy \ {"next"} : Goto(r, label) => InHand(r)'
    BY <1>a DEF InHand
  <1>c. Placed(r) => pc'[r] = "next" /\ batch'[r] = Tail(batch[r])
    BY <1>a DEF Placed, IInv, Typed, TypeOK
  <1>d. CountDuplicate(r) => result'[r].found = result[r].found
    BY DEF CountDuplicate, IInv, Typed, TypeOK, BatchResult
  <1>e. InHand(r) => batch[r] # << >>
    BY DEF IInv, Typed, InHandOK
  <1>f. ListingsOf(Current(r)) # {} => ListedNext(Current(r))
    BY ListedAfter DEF RunStep
  <1>g. ASSUME NEW job, NEW primary,
               listings' = Append(listings, NewListing(job, Current(r), primary))
        PROVE  ListedNext(Current(r))
    <2> DEFINE x == NewListing(job, Current(r), primary)
               n == Len(listings) + 1
    <2>1. x.source = Current(r).source /\ x.externalId = Current(r).externalId
      BY DEF NewListing
    <2>2. listings \in Seq(Listing) /\ listings' = Append(listings, x)
      BY <1>g DEF IInv, Typed, TypeOK
    <2> HIDE DEF x
    <2>3. n \in DOMAIN listings' /\ listings'[n] = x
      BY <2>2, AppendFacts
    <2>4. QED
      BY <2>1, <2>3 DEF ListedNext
  <1>1. CASE SkipUnknownSource(r)
    BY <1>1, <1>c DEF SkipUnknownSource, Skips
  <1>2. CASE ResolveCompany(r)
    <2>1. result'[r].found = result[r].found + 1
      BY <1>2 DEF ResolveCompany, IInv, Typed, TypeOK, BatchResult
    <2>2. InHand(r)'
      BY <1>2, <1>b DEF ResolveCompany, Busy
    <2>3. QED
      BY <1>2, <2>1, <2>2 DEF ResolveCompany, Takes
  <1>3. CASE FillCompany(r)
    BY <1>3, <1>b DEF FillCompany, Looks, InHand, Busy
  <1>4. CASE FindListing(r)
    BY <1>4, <1>b DEF FindListing, Looks, InHand, Busy
  <1>5. CASE RefreshListing(r)
    <2>1. InHand(r) /\ ListingsOf(Current(r)) # {}
      BY <1>5 DEF RefreshListing, IInv, HandOK, InHand, Busy
    <2>2. QED
      BY <1>5, <2>1, <1>c, <1>d, <1>e, <1>f DEF RefreshListing, Places
  <1>6. CASE FindByContentHash(r)
    BY <1>6, <1>b DEF FindByContentHash, Lookup, Looks, InHand, Busy
  <1>7. CASE FindByCanonicalUrl(r)
    BY <1>7, <1>b DEF FindByCanonicalUrl, Lookup, Looks, InHand, Busy
  <1>8. CASE DetectDuplicate(r)
    <2>1. InHand(r)'
      BY <1>8, <1>b DEF DetectDuplicate, Busy
    <2>2. QED
      BY <1>8, <2>1 DEF DetectDuplicate, Looks, InHand, Busy
  <1>9. CASE AttachListing(r)
    <2>1. ListedNext(Current(r))
      BY <1>9, <1>f, <1>g DEF AttachListing
    <2>2. InHand(r)
      BY <1>9 DEF AttachListing, InHand, Busy
    <2>3. QED
      BY <1>9, <2>1, <2>2, <1>c, <1>d, <1>e DEF AttachListing, Places
  <1>10. CASE FindIdlessListing(r)
    <2>1. InHand(r) /\ Current(r).externalId = NoValue
      BY <1>10 DEF FindIdlessListing, InHand, Busy
    <2>2. CASE Placed(r) /\ CountDuplicate(r)
      BY <2>1, <2>2, <1>c, <1>d, <1>e DEF Places
    <2>3. CASE Goto(r, "append") /\ UNCHANGED <<batch, result>>
      BY <2>1, <2>3, <1>b DEF Looks, Busy
    <2>4. QED
      BY <1>10, <2>2, <2>3 DEF FindIdlessListing
  <1>11. CASE AppendIdlessListing(r)
    <2>1. InHand(r) /\ ListedNext(Current(r))
      BY <1>11, <1>g DEF AppendIdlessListing, InHand, Busy
    <2>2. QED
      BY <1>11, <2>1, <1>c, <1>d, <1>e DEF AppendIdlessListing, Places
  <1>12. CASE CreateJob(r)
    <2>1. InHand(r) /\ ListedNext(Current(r))
      BY <1>12, <1>g DEF CreateJob, InHand, Busy
    <2>2. result'[r].found = result[r].found
      BY <1>12 DEF CreateJob, IInv, Typed, TypeOK, BatchResult
    <2>3. QED
      BY <1>12, <2>1, <2>2, <1>c, <1>e DEF CreateJob, Places
  <1>13. CASE LoseRace(r)
    <2>1. InHand(r) /\ ListingsOf(Current(r)) # {}
      BY <1>13 DEF LoseRace, InHand, Busy
    <2>2. QED
      BY <1>13, <2>1, <1>c, <1>d, <1>e, <1>f DEF LoseRace, Places
  <1>14. CASE ReturnBatch(r)
    BY <1>14, <1>a DEF ReturnBatch, Returns
  <1>15. QED
    BY <1>1, <1>2, <1>3, <1>4, <1>5, <1>6, <1>7, <1>8, <1>9, <1>10, <1>11,
       <1>12, <1>13, <1>14 DEF PersistStep

-------------------------------------------------------------------------------
(* Deduplication implements JobCatalog *)

\* Since a posting is listed once, Home is the job of its listing.
HomeMaps ==
    /\ DOMAIN Home = {<<listings[l].source, listings[l].externalId>> : l \in KeyedListings}
    /\ \A l \in KeyedListings :
         Home[<<listings[l].source, listings[l].externalId>>] = listings[l].job

\* With every posting listed once, the CHOOSE in Home has one choice.
LEMMA HomeFacts == ListedOnce => HomeMaps
  <1> SUFFICES ASSUME ListedOnce PROVE HomeMaps
    OBVIOUS
  <1>1. DOMAIN Home = {KeyOf(l) : l \in KeyedListings}
    BY DEF Home
  <1>2. ASSUME NEW l \in KeyedListings PROVE Home[KeyOf(l)] = listings[l].job
    <2> DEFINE m == CHOOSE m \in KeyedListings : KeyOf(m) = KeyOf(l)
    <2>1. m \in KeyedListings /\ KeyOf(m) = KeyOf(l)
      OBVIOUS
    <2>2. Home[KeyOf(l)] = listings[m].job
      BY DEF Home
    <2>3. m = l
      BY <2>1 DEF ListedOnce, KeyedListings, KeyOf
    <2>4. QED
      BY <2>2, <2>3
  <1>3. QED
    BY <1>1, <1>2 DEF HomeMaps, KeyOf

\* The same after a step.
LEMMA HomeFactsPrime == ListedOnce' => HomeMaps'
  BY HomeFacts, PTL

\* Home is determined by its domain and values.
LEMMA HomeIsFunction == Home = [k \in DOMAIN Home |-> Home[k]]
  BY DEF Home

\* The same after a step.
LEMMA HomeIsFunctionPrime == Home' = [k \in DOMAIN Home' |-> Home'[k]]
  BY DEF Home

\* Listings that keep job, source and external id keep Home.
LEMMA HomeKept ==
    ASSUME ListedOnce, ListedOnce', KeyedListings' = KeyedListings,
           \A l \in KeyedListings : SameIdentity(l)
    PROVE  Home' = Home
  <1>1. HomeMaps /\ HomeMaps'
    BY HomeFacts, HomeFactsPrime
  <1>2. DOMAIN Home' = DOMAIN Home
    BY <1>1 DEF HomeMaps, SameIdentity
  <1>3. ASSUME NEW k \in DOMAIN Home PROVE Home'[k] = Home[k]
    BY <1>1 DEF HomeMaps, SameIdentity
  <1>4. QED
    BY <1>2, <1>3, HomeIsFunction, HomeIsFunctionPrime

\* A step that keeps the listings' identity keeps every posting's home.
LEMMA QuietHome ==
    ASSUME ListedOnce, ListedOnce', SameListings
    PROVE  Home' = Home
  <1>1. KeyedListings' = KeyedListings
    BY DEF KeyedListings, SameListings, SameIdentity
  <1>2. QED
    BY <1>1, HomeKept DEF KeyedListings, SameListings

\* Home with one more posting.
HomeWith(k, job) == [x \in DOMAIN Home \union {k} |-> IF x = k THEN job ELSE Home[x]]

\* A listing n added for the posting offer to job: Home gains its key, if any.
LEMMA HomeExtended ==
    ASSUME ListedOnce, ListedOnce', NEW offer, NEW n, n \notin DOMAIN listings,
           NEW job, NEW primary,
           DOMAIN listings' = DOMAIN listings \union {n},
           listings'[n] = NewListing(job, offer, primary),
           \A l \in DOMAIN listings : listings'[l] = listings[l],
           offer.externalId # NoValue => ListingsOf(offer) = {}
    PROVE  /\ offer.externalId = NoValue => Home' = Home
           /\ offer.externalId # NoValue =>
                /\ <<offer.source, offer.externalId>> \notin DOMAIN Home
                /\ Home' = HomeWith(<<offer.source, offer.externalId>>, job)
  <1>1. /\ listings'[n].job = job /\ listings'[n].source = offer.source
        /\ listings'[n].externalId = offer.externalId
    BY DEF NewListing
  <1>2. /\ KeyedListings \subseteq DOMAIN listings
        /\ \A l \in KeyedListings : SameIdentity(l)
    BY DEF KeyedListings, SameIdentity
  <1>3. HomeMaps /\ HomeMaps'
    BY HomeFacts, HomeFactsPrime
  <1>4. CASE offer.externalId = NoValue
    <2>1. KeyedListings' = KeyedListings
      BY <1>1, <1>4 DEF KeyedListings
    <2>2. QED
      BY <1>2, <1>4, <2>1, HomeKept
  <1>5. CASE offer.externalId # NoValue
    <2> DEFINE k == <<offer.source, offer.externalId>>
               key(l) == <<listings[l].source, listings[l].externalId>>
    <2>1. KeyedListings' = KeyedListings \union {n}
      BY <1>1, <1>5 DEF KeyedListings
    <2>2. <<listings'[n].source, listings'[n].externalId>> = k
      BY <1>1
    <2>3. \A l \in KeyedListings :
            /\ key(l) # k
            /\ <<listings'[l].source, listings'[l].externalId>> = key(l)
            /\ listings'[l].job = listings[l].job
      BY <1>2, <1>5 DEF KeyedListings, ListingsOf, SameIdentity
    <2>4. /\ DOMAIN Home = {key(l) : l \in KeyedListings}
          /\ \A l \in KeyedListings : Home[key(l)] = listings[l].job
      BY <1>3 DEF HomeMaps
    <2>5. k \notin DOMAIN Home
      BY <2>3, <2>4
    <2>6. DOMAIN Home' = DOMAIN Home \union {k}
      BY <1>3, <2>1, <2>2, <2>3, <2>4 DEF HomeMaps
    <2>7. Home'[k] = job
      BY <1>1, <1>3, <2>1, <2>2 DEF HomeMaps
    <2>8. ASSUME NEW x \in DOMAIN Home PROVE Home'[x] = Home[x]
      <3>1. PICK l \in KeyedListings : x = key(l)
        BY <2>4
      <3>2. Home'[x] = listings'[l].job
        BY <1>3, <2>1, <2>3, <3>1 DEF HomeMaps
      <3>3. QED
        BY <2>3, <2>4, <3>1, <3>2
    <2> HIDE DEF k
    <2>9. Home' = HomeWith(k, job)
      BY <2>5, <2>6, <2>7, <2>8, HomeIsFunctionPrime DEF HomeWith
    <2>10. QED
      BY <1>5, <2>5, <2>9 DEF k
  <1>6. QED
    BY <1>4, <1>5

\* Whatever the runs do, a posting stays with the job it was first given to,
\* and a new job brings a posting nobody had: Deduplication implements the
\* abstract catalogue under the mapping home <- Home, size <- Len(jobs).
THEOREM ImplementsCatalog == Spec => CatalogSpec
  <1> USE DEF Catalog!catalogVars
  <1>1. Init => Catalog!Init
    <2> SUFFICES ASSUME Init PROVE Home = << >> /\ Len(jobs) = 0
      BY DEF Catalog!Init
    <2>1. KeyedListings = {} /\ Len(jobs) = 0
      BY DEF Init, KeyedListings
    <2>2. QED
      BY <2>1 DEF Home
  <1>2. IInv /\ IInv' /\ [Next]_vars => [Catalog!Next]_(Catalog!catalogVars)
    <2> SUFFICES ASSUME IInv, IInv', [Next]_vars
                 PROVE  [Catalog!Next]_(Catalog!catalogVars)
      OBVIOUS
    <2>a. ListedOnce /\ ListedOnce'
      BY DEF IInv, CatalogOK
    <2>b. \A r \in Run : InHand(r) => Current(r) \in Offer
      BY HeadTail DEF IInv, Typed, TypeOK, InHandOK, Current
    <2>c. \A offer \in Offer : offer.externalId # NoValue =>
            <<offer.source, offer.externalId>> \in ListingKey
      BY DEF ListingKey
    <2>d. Len(jobs) \in Nat /\ DOMAIN jobs = 1..Len(jobs)
      BY DEF IInv, Typed, TypeOK
    <2>1. CASE jobs' = jobs /\ SameListings
      BY <2>a, <2>1, QuietHome
    <2>2. ASSUME NEW r \in Run, Attaches(r)
          PROVE  [Catalog!Next]_(Catalog!catalogVars)
      <3> DEFINE n == Len(listings) + 1
                 offer == Current(r)
                 k == <<offer.source, offer.externalId>>
      <3>1. /\ n \notin DOMAIN listings
            /\ DOMAIN listings' = DOMAIN listings \union {n}
            /\ listings'[n] = NewListing(target[r], offer, FALSE)
            /\ \A l \in DOMAIN listings : listings'[l] = listings[l]
        <4>1. listings \in Seq(Listing)
          BY DEF IInv, Typed, TypeOK
        <4>2. listings' = Append(listings, NewListing(target[r], offer, FALSE))
          BY <2>2 DEF Attaches
        <4>3. QED
          <5> DEFINE x == NewListing(target[r], offer, FALSE)
          <5>1. listings' = Append(listings, x)
            BY <4>2
          <5> HIDE DEF x
          <5>2. /\ n \notin DOMAIN listings
                /\ DOMAIN listings' = DOMAIN listings \union {n}
                /\ listings'[n] = x
                /\ \A l \in DOMAIN listings : listings'[l] = listings[l]
            BY <4>1, <5>1, AppendFacts
          <5>3. QED
            BY <5>2 DEF x
      <3>2. /\ offer \in Offer /\ jobs' = jobs
            /\ target[r] \in 1..Len(jobs)
            /\ offer.externalId # NoValue => ListingsOf(offer) = {}
        BY <2>2, <2>b, <2>d DEF Attaches, InHand, Busy, IInv, HandOK
      <3> HIDE DEF n, offer
      <3>3. CASE offer.externalId = NoValue
        BY <2>a, <3>1, <3>2, <3>3, HomeExtended
      <3>4. CASE offer.externalId # NoValue
        <4>1. /\ k \notin DOMAIN Home
              /\ Home' = HomeWith(k, target[r])
          BY <2>a, <3>1, <3>2, <3>4, HomeExtended
        <4>2. k \in ListingKey
          BY <2>c, <3>2, <3>4
        <4> HIDE DEF k
        <4>3. Catalog!AttachListing(k, target[r])
          BY <3>2, <4>1 DEF Catalog!AttachListing, HomeWith
        <4>4. QED
          BY <3>2, <4>2, <4>3 DEF Catalog!Next
      <3>5. QED
        BY <3>3, <3>4
    <2>3. ASSUME NEW r \in Run, CreateJob(r)
          PROVE  [Catalog!Next]_(Catalog!catalogVars)
      <3> DEFINE n == Len(listings) + 1
                 offer == Current(r)
                 k == <<offer.source, offer.externalId>>
      <3>1. /\ n \notin DOMAIN listings
            /\ DOMAIN listings' = DOMAIN listings \union {n}
            /\ listings'[n] = NewListing(Len(jobs) + 1, offer, TRUE)
            /\ \A l \in DOMAIN listings : listings'[l] = listings[l]
        BY <2>3, CreateFacts DEF IInv
      <3>2. /\ offer \in Offer
            /\ Len(jobs') = Len(jobs) + 1
            /\ ListingsOf(offer) = {}
        <4>1. jobs \in Seq(Job)
          BY DEF IInv, Typed, TypeOK
        <4>2. Len(jobs') = Len(jobs) + 1
          BY <2>3, <4>1 DEF CreateJob
        <4>3. QED
          BY <2>3, <2>b, <4>2 DEF CreateJob, InHand, Busy
      <3> HIDE DEF n, offer
      <3>3. CASE offer.externalId = NoValue
        <4>1. Catalog!AddAnonymousJob
          BY <2>a, <3>1, <3>2, <3>3, HomeExtended DEF Catalog!AddAnonymousJob
        <4>2. QED
          BY <4>1 DEF Catalog!Next
      <3>4. CASE offer.externalId # NoValue
        <4>1. /\ k \notin DOMAIN Home
              /\ Home' = HomeWith(k, Len(jobs) + 1)
          BY <2>a, <3>1, <3>2, <3>4, HomeExtended
        <4>2. k \in ListingKey
          BY <2>c, <3>2, <3>4
        <4> HIDE DEF k
        <4>3. Catalog!AddJob(k)
          BY <3>2, <4>1 DEF Catalog!AddJob, HomeWith
        <4>4. QED
          BY <4>2, <4>3 DEF Catalog!Next
      <3>5. QED
        BY <3>3, <3>4
    <2>4. CASE UNCHANGED vars
      BY <2>1, <2>4 DEF vars, SameListings, SameIdentity
    <2>5. QED
      BY <2>1, <2>2, <2>3, <2>4, StepKinds DEF Next, RunStep, Quiet, IInv
  <1>3. QED
    BY <1>1, <1>2, Invariance, PTL DEF Spec, CatalogSpec, Catalog!Spec
===============================================================================
