------------------------------- MODULE UserData -------------------------------
(*****************************************************************************)
(* The requests of one user on what is the user's own: modules Activity,     *)
(* Documents and Sessions.  They have no row or key in common (a draft       *)
(* belongs to a user and a job, not to an application), so each behaviour    *)
(* takes the requests of one of them.                                        *)
(*****************************************************************************)
EXTENDS Activity, TLC

CONSTANTS
    First, Text, Section,  \* of Documents
    Calls                  \* of Sessions: its requests

\* Names of requests and the null of a column do not mix.
ASSUME UserDataAssumption ==
    First \notin Requests /\ Text # {} /\ "none" \notin Requests \union {First}

VARIABLES
    part,
    resumes, versions, files, selected, jobAt, gaps, drafts, clock, docReq, unsure, orphaned,
    account, live, family, held, call, missed, closed, overlap, rotations

D == INSTANCE Documents WITH req <- docReq
S == INSTANCE Sessions WITH req <- call, Requests <- Calls

documents == <<resumes, versions, files, selected, jobAt, gaps, drafts, clock, docReq,
               unsure, orphaned>>
sessions == <<account, live, family, held, call, missed, closed, overlap, rotations>>

\* The parts a behaviour leaves alone start in one way only.
UserInit ==
    /\ Init /\ D!Init /\ S!Init
    /\ part \in {"activity", "documents", "sessions"}
    /\ part # "documents" => versions[First].text = CHOOSE t \in Text : TRUE
    /\ part # "sessions" => account = "none"

UserNext ==
    \/ part = "activity" /\ Next /\ UNCHANGED <<part, documents, sessions>>
    \/ part = "documents" /\ D!Next /\ UNCHANGED <<part, vars, sessions>>
    \/ part = "sessions" /\ S!Next /\ UNCHANGED <<part, vars, documents>>

UserSpec == UserInit /\ [][UserNext]_<<vars, documents, sessions, part>>

\* Properties of Documents and of Sessions.
FilesMatchVersions == D!FilesMatchVersions
FreshGapIsCurrent == D!FreshGapIsCurrent
CurrentIsFromSelected == D!CurrentIsFromSelected
LiveIsListed == S!LiveIsListed
ReplayEndsAll == S!ReplayEndsAll
RotatedOnce == S!RotatedOnce

Symmetry == Permutations(Requests) \union Permutations(Section)
===============================================================================
