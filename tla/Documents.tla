------------------------------ MODULE Documents ------------------------------
(*****************************************************************************)
(* One user's resumes, what is derived from them for one job, and the drafts *)
(* of an application: resume_service.py, resume_storage.py,                  *)
(* resume_analysis_service.py, resume_gap_service.py,                        *)
(* application_assistant_service.py and their repositories.                  *)
(*                                                                           *)
(* A resume and a version carry the name of the request that creates them.   *)
(* Each database or file call is a step; readings that nothing between can   *)
(* spoil are joined.  Times are counts of the analyses written so far.       *)
(*****************************************************************************)
EXTENDS Naturals, FiniteSets

CONSTANTS
    Requests,  \* calls of the API, each made once
    First,     \* the resume, and its version, that is there to begin with
    Text,      \* contents of files
    Section    \* ApplicationDraftKind

Id == Requests \union {First}
None == "none"

VARIABLES
    resumes,   \* rows of Resume
    versions,  \* rows of ResumeVersion, each with the time of its analysis
    files,     \* versions with a file on disk
    selected,  \* UserProfile.selectedResumeId
    jobAt,     \* the time of the job's analysis, 0 without one
    gaps,      \* rows of ResumeGapAnalysis, by version
    drafts,    \* rows of ApplicationDraft, by kind
    clock,     \* analyses written
    req,       \* what each request is doing
    unsure,    \* history: versions whose insertion raised after its commit
    orphaned   \* history: versions whose request stopped half-way, or which a
               \* deletion under way did not list

vars == <<resumes, versions, files, selected, jobAt, gaps, drafts, clock, req, unsure, orphaned>>
rowsOfResumes == <<resumes, versions, files, selected, unsure, orphaned>>
derived == <<jobAt, gaps, drafts, clock>>

NoVersion == [resume |-> None, number |-> 0, text |-> None, analysed |-> 0]
NoGap == [resume |-> 0, job |-> 0, at |-> 0, late |-> FALSE]
NoDraft == [generated |-> FALSE, edited |-> FALSE, version |-> None, source |-> None]
Waiting == [at |-> "idle", resume |-> None, version |-> None, text |-> None, number |-> 0,
            force |-> FALSE, paths |-> {}, kinds |-> {}, result |-> "none", read |-> 0, job |-> 0]

Exists(v) == versions[v] # NoVersion
VersionsOf(q) == {v \in Id : versions[v].resume = q}
Latest(q) ==
    IF VersionsOf(q) = {} THEN None
    ELSE CHOOSE v \in VersionsOf(q) : \A w \in VersionsOf(q) : versions[w].number <= versions[v].number
SelectedVersion == IF selected = None THEN None ELSE Latest(selected)

TypeOK ==
    /\ resumes \subseteq Id /\ files \subseteq Id
    /\ versions \in [Id -> [resume : Id \union {None}, number : Nat, text : Text \union {None},
                            analysed : Nat]]
    /\ selected \in resumes \union {None}
    /\ jobAt \in 0 .. clock /\ clock \in Nat
    /\ gaps \in [Id -> [resume : Nat, job : Nat, at : Nat, late : BOOLEAN]]
    /\ drafts \in [Section -> [generated : BOOLEAN, edited : BOOLEAN,
                            version : Id \union {None}, source : Id \union {None}]]
    /\ \A r \in Requests : req[r].paths \subseteq Id /\ req[r].kinds \subseteq Section
    /\ \A v \in Id : Exists(v) => versions[v].resume \in resumes
    /\ \A k \in Section : drafts[k].version # None => Exists(drafts[k].version)

\* The user has uploaded and selected one resume.
Init ==
    /\ resumes = {First} /\ files = {First} /\ selected = First
    /\ \E t \in Text :
         versions = [v \in Id |-> IF v = First
                                  THEN [resume |-> First, number |-> 1, text |-> t, analysed |-> 0]
                                  ELSE NoVersion]
    /\ jobAt = 0 /\ clock = 0
    /\ gaps = [v \in Id |-> NoGap]
    /\ drafts = [k \in Section |-> NoDraft]
    /\ req = [r \in Requests |-> Waiting]
    /\ unsure = {} /\ orphaned = {}

-------------------------------------------------------------------------------
(* Requests *)

At(r, place) == req[r].at = place
\* A request that has ended keeps nothing.
Moved(r, place) ==
    IF place = "ended" THEN [Waiting EXCEPT !.at = "ended"] ELSE [req[r] EXCEPT !.at = place]
Goto(r, place) == req' = [req EXCEPT ![r] = Moved(r, place)]
Busy(r) == req[r].at \notin {"idle", "ended"}

Begin(r, record) ==
    /\ At(r, "idle")
    /\ req' = [req EXCEPT ![r] = record]
    /\ UNCHANGED <<rowsOfResumes, derived>>

\* An exception, a client that has gone, a restart.
Stop(r) ==
    /\ Busy(r)
    /\ Goto(r, "ended")
    /\ orphaned' = orphaned \union {v \in {r} \intersect files : ~Exists(v)} \union req[r].paths
    /\ UNCHANGED <<resumes, versions, files, selected, unsure, derived>>

-------------------------------------------------------------------------------
(* upload, select, delete *)

BeginUpload(r, t) ==
    /\ Begin(r, [Waiting EXCEPT !.at = "create", !.resume = r, !.text = t, !.number = 1])

CreateResume(r) ==
    /\ At(r, "create")
    /\ resumes' = resumes \union {r}
    /\ Goto(r, "store")
    /\ UNCHANGED <<versions, files, selected, unsure, orphaned, derived>>

\* 409 for the contents of the latest version.
BeginNextVersion(r, q, t) ==
    /\ q \in resumes
    /\ Latest(q) # None => versions[Latest(q)].text # t
    /\ Begin(r, [Waiting EXCEPT !.at = "store", !.resume = q, !.text = t,
                 !.number = IF Latest(q) = None THEN 1 ELSE versions[Latest(q)].number + 1])

StoreFile(r) ==
    /\ At(r, "store")
    /\ files' = files \union {r}
    /\ Goto(r, "insert")
    /\ UNCHANGED <<resumes, versions, selected, unsure, orphaned, derived>>

\* The foreign key, and the unique key (resume, number).
CanInsert(r) ==
    /\ req[r].resume \in resumes
    /\ \A v \in VersionsOf(req[r].resume) : versions[v].number # req[r].number

Inserted(r) ==
    [versions EXCEPT ![r] = [resume |-> req[r].resume, number |-> req[r].number,
                             text |-> req[r].text, analysed |-> 0]]

CreateVersion(r) ==
    /\ At(r, "insert")
    /\ IF CanInsert(r)
       THEN versions' = Inserted(r) /\ Goto(r, "look")
       ELSE Goto(r, "unlink") /\ UNCHANGED versions
    /\ UNCHANGED <<resumes, files, selected, unsure, orphaned, derived>>

\* The connection is lost after the commit: an exception like any other.
CreateVersionUnheard(r) ==
    /\ At(r, "insert") /\ CanInsert(r)
    /\ versions' = Inserted(r)
    /\ unsure' = unsure \union {r}
    /\ Goto(r, "unlink")
    /\ UNCHANGED <<resumes, files, selected, orphaned, derived>>

\* Mutant of Unlink: the file of a version that was refused stays.
UnlinkNothing(r) ==
    /\ At(r, "unlink")
    /\ Goto(r, "ended")
    /\ UNCHANGED <<rowsOfResumes, derived>>

Unlink(r) ==
    /\ At(r, "unlink")
    /\ files' = files \ {r}
    /\ Goto(r, "ended")
    /\ UNCHANGED <<resumes, versions, selected, unsure, orphaned, derived>>

\* A first resume is selected; the reading and the write are two calls.
LookAtSelection(r) ==
    /\ At(r, "look")
    /\ Goto(r, IF selected = None THEN "select" ELSE "ended")
    /\ UNCHANGED <<rowsOfResumes, derived>>

BeginSelect(r, q) ==
    /\ q \in resumes
    /\ Begin(r, [Waiting EXCEPT !.at = "select", !.resume = q])

SetSelected(r) ==
    /\ At(r, "select")
    /\ selected' = IF req[r].resume \in resumes THEN req[r].resume ELSE selected
    /\ Goto(r, "ended")
    /\ UNCHANGED <<resumes, versions, files, unsure, orphaned, derived>>

BeginDelete(r, q) ==
    /\ q \in resumes
    /\ Begin(r, [Waiting EXCEPT !.at = "delete", !.resume = q, !.paths = VersionsOf(q)])

\* Versions, analyses and gaps go with the resume, references to it become null.
DeleteResume(r) ==
    /\ At(r, "delete")
    /\ LET gone == VersionsOf(req[r].resume) IN
       /\ resumes' = resumes \ {req[r].resume}
       /\ versions' = [v \in Id |-> IF v \in gone THEN NoVersion ELSE versions[v]]
       /\ gaps' = [v \in Id |-> IF v \in gone THEN NoGap ELSE gaps[v]]
       /\ drafts' = [k \in Section |-> IF drafts[k].version \in gone
                                    THEN [drafts[k] EXCEPT !.version = None] ELSE drafts[k]]
       /\ selected' = IF selected = req[r].resume THEN None ELSE selected
       /\ orphaned' = orphaned \union (gone \ req[r].paths)
    /\ Goto(r, "files")
    /\ UNCHANGED <<files, jobAt, clock, unsure>>

DeleteFiles(r) ==
    /\ At(r, "files")
    /\ files' = files \ req[r].paths
    /\ Goto(r, "ended")
    /\ UNCHANGED <<resumes, versions, selected, unsure, orphaned, derived>>

-------------------------------------------------------------------------------
(* analyze_version and the gap analysis *)

\* The row of this prompt is returned unless forced.
BeginAnalyse(r, v, force) ==
    /\ Exists(v) /\ (force \/ versions[v].analysed = 0)
    /\ Begin(r, [Waiting EXCEPT !.at = "analyse", !.version = v])

\* Without the version the foreign key refuses the row; the model may fail too
\* (Stop).
WriteAnalysis(r) ==
    /\ At(r, "analyse") /\ Exists(req[r].version)
    /\ clock' = clock + 1
    /\ versions' = [versions EXCEPT ![req[r].version].analysed = clock']
    /\ Goto(r, "ended")
    /\ UNCHANGED <<resumes, files, selected, jobAt, gaps, drafts, unsure, orphaned>>

\* The version is read with its analysis.
BeginGap(r, v, force) ==
    /\ Exists(v)
    /\ Begin(r, [Waiting EXCEPT !.at = "job", !.version = v, !.force = force,
                                !.read = versions[v].analysed])

\* analyze_job: the stored analysis, a new one, or none when the model fails.
AnalyseJob(r) ==
    /\ At(r, "job")
    /\ \/ /\ jobAt = 0
          /\ clock' = clock + 1 /\ jobAt' = clock'
          /\ req' = [req EXCEPT ![r].at = "cached", ![r].job = jobAt']
       \/ /\ req' = [req EXCEPT ![r].at = "cached", ![r].job = jobAt]
          /\ UNCHANGED <<clock, jobAt>>
    /\ UNCHANGED <<rowsOfResumes, gaps, drafts>>

\* Mutant of IsFresh: the time of the job's analysis is forgotten.
IsFreshForResume(r) ==
    LET gap == gaps[req[r].version]
    IN  gap # NoGap /\ gap.at >= req[r].read

\* A cached gap is fresh if it is not older than the analyses it is made from.
IsFresh(r) ==
    LET gap == gaps[req[r].version]
    IN  gap # NoGap /\ gap.at >= req[r].read /\ gap.at >= req[r].job

ReadGap(r) ==
    /\ At(r, "cached")
    /\ Goto(r, IF IsFresh(r) /\ ~req[r].force THEN "ended" ELSE "gap")
    /\ UNCHANGED <<rowsOfResumes, derived>>

\* The row is stamped with the time it is written at.
GapOf(r) ==
    [resume |-> req[r].read, job |-> req[r].job, at |-> clock,
     late |-> req[r].read # versions[req[r].version].analysed \/ req[r].job # jobAt]

WriteGap(r) ==
    /\ At(r, "gap") /\ Exists(req[r].version)
    /\ gaps' = [gaps EXCEPT ![req[r].version] = GapOf(r)]
    /\ Goto(r, "ended")
    /\ UNCHANGED <<rowsOfResumes, jobAt, drafts, clock>>

-------------------------------------------------------------------------------
(* The application assistant *)

\* Sections that have a draft are left alone unless forced.
BeginGenerate(r, kinds, force) ==
    Begin(r, [Waiting EXCEPT
                !.at = "context", !.force = force,
                !.kinds = IF force THEN kinds ELSE {k \in kinds : drafts[k] = NoDraft}])

ReadContext(r) ==
    /\ At(r, "context")
    /\ req' = [req EXCEPT ![r].version = SelectedVersion,
                          ![r].at = IF req[r].kinds = {} THEN "answer" ELSE "draft"]
    /\ UNCHANGED <<rowsOfResumes, derived>>

\* asyncio.gather: the sections settle in any order.  After the last one there
\* is an answer, unless an exception came up or the model failed on all.
Settle(r, k, result) ==
    LET left == req[r].kinds \ {k}
    IN  IF left = {} /\ result # "written"
        THEN Goto(r, "ended")
        ELSE req' = [req EXCEPT ![r].kinds = left, ![r].result = result,
                                ![r].at = IF left = {} THEN "answer" ELSE "draft"]

Written(r) == IF req[r].result = "refused" THEN "refused" ELSE "written"

\* Mutant of WriteDraft: filed under the version selected when it is written.
WriteDraftForSelected(r, k) ==
    /\ At(r, "draft") /\ k \in req[r].kinds
    /\ drafts' = [drafts EXCEPT ![k] = [generated |-> TRUE, edited |-> FALSE,
                                        version |-> SelectedVersion, source |-> req[r].version]]
    /\ Settle(r, k, Written(r))
    /\ UNCHANGED <<rowsOfResumes, jobAt, gaps, clock>>

\* upsert_generated: refused by the foreign key if the version is gone.  The
\* history field source keeps the version when its row is deleted.
WriteDraft(r, k) ==
    /\ At(r, "draft") /\ k \in req[r].kinds
    /\ req[r].version # None => Exists(req[r].version)
    /\ drafts' = [drafts EXCEPT ![k] = [generated |-> TRUE, edited |-> FALSE,
                                        version |-> req[r].version, source |-> req[r].version]]
    /\ Settle(r, k, Written(r))
    /\ UNCHANGED <<rowsOfResumes, jobAt, gaps, clock>>

\* The model fails: the other sections go on.
FailDraft(r, k) ==
    /\ At(r, "draft") /\ k \in req[r].kinds
    /\ Settle(r, k, req[r].result)
    /\ UNCHANGED <<rowsOfResumes, derived>>

\* The row is refused, or the database fails: they still settle.
RefuseDraft(r, k) ==
    /\ At(r, "draft") /\ k \in req[r].kinds
    /\ Settle(r, k, "refused")
    /\ UNCHANGED <<rowsOfResumes, derived>>

\* get: the selected version is read before the drafts.
BeginGet(r) == Begin(r, [Waiting EXCEPT !.at = "answer", !.version = SelectedVersion])

\* _assemble: the drafts are read and shown with the version read before.
Answer(r) ==
    /\ At(r, "answer")
    /\ Goto(r, "ended")
    /\ UNCHANGED <<rowsOfResumes, derived>>

\* draft_out, for a prompt that has not changed, with the version that the
\* request has read.
ShownStale(k, version) == drafts[k].generated /\ drafts[k].version # version

\* save: upsert_content keeps where the draft came from.
SaveDraft(r, k) ==
    /\ At(r, "idle")
    /\ drafts' = [drafts EXCEPT ![k].edited = TRUE]
    /\ Goto(r, "ended")
    /\ UNCHANGED <<rowsOfResumes, jobAt, gaps, clock>>

-------------------------------------------------------------------------------

Step(r) ==
    \/ CreateResume(r) \/ StoreFile(r) \/ CreateVersion(r) \/ CreateVersionUnheard(r) \/ Unlink(r)
    \/ LookAtSelection(r) \/ SetSelected(r) \/ DeleteResume(r) \/ DeleteFiles(r)
    \/ WriteAnalysis(r) \/ AnalyseJob(r) \/ ReadGap(r) \/ WriteGap(r) \/ ReadContext(r)
    \/ \E k \in Section : WriteDraft(r, k) \/ FailDraft(r, k) \/ RefuseDraft(r, k) \/ SaveDraft(r, k)
    \/ BeginGet(r) \/ Answer(r)
    \/ Stop(r)

Next ==
    \E r \in Requests :
        \/ Step(r)
        \/ \E t \in Text : BeginUpload(r, t) \/ \E q \in Id : BeginNextVersion(r, q, t)
        \/ \E q \in Id : BeginSelect(r, q) \/ BeginDelete(r, q)
        \/ \E force \in BOOLEAN :
             \/ \E v \in Id : BeginAnalyse(r, v, force) \/ BeginGap(r, v, force)
             \/ \E kinds \in SUBSET Section \ {{}} : BeginGenerate(r, kinds, force)

Spec == Init /\ [][Next]_vars

-------------------------------------------------------------------------------
(* Properties *)

\* A version's file is there as long as the version is, and a file without a
\* version belongs to an upload or a deletion under way - or to one that
\* stopped half-way, or to a version that came while its resume was being
\* deleted; nothing removes such a file later (resume_service.py:80-98, 120-123).
FilesMatchVersions ==
    /\ \A v \in Id : Exists(v) => v \in files \union unsure
    /\ \A v \in files : \/ Exists(v) \/ v \in orphaned
                        \/ v \in Requests /\ Busy(v)
                        \/ \E r \in Requests : Busy(r) /\ v \in req[r].paths

\* A cached gap that is returned as fresh was made from the analyses the request
\* has read, when those are the present ones - unless one was redone while the
\* model was at work on the gap: its row then is stamped later than what it was
\* made from (resume_gap_service.py:215, 258-265, 300).
FreshGapIsCurrent ==
    \A r \in Requests : At(r, "cached") /\ IsFresh(r) =>
        LET gap == gaps[req[r].version]
        IN  \/ gap.late
            \/ req[r].read # versions[req[r].version].analysed \/ req[r].job # jobAt
            \/ gap.resume = req[r].read /\ gap.job = req[r].job

\* What get or generate shows as current was generated from the version that
\* was selected when the request looked, whoever wrote it and whatever was
\* uploaded, selected or deleted while a model was at work - except that to a
\* request which found nothing selected, a draft whose resume is gone passes for
\* one made without a resume.  generate looks before it calls the model: its
\* answer may call a draft current although another version is selected by then
\* (application_assistant_service.py:164-165, 179, 210, schemas/assistant.py:48-51).
CurrentIsFromSelected ==
    \A r \in Requests, k \in Section :
        At(r, "answer") /\ drafts[k].generated /\ ~ShownStale(k, req[r].version) =>
            \/ drafts[k].source = req[r].version
            \/ req[r].version = None /\ drafts[k].source # None /\ ~Exists(drafts[k].source)
===============================================================================
