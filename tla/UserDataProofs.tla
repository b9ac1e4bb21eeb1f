---------------------------- MODULE UserDataProofs ----------------------------
(*****************************************************************************)
(* What is the user's own, after any number of overlapping requests, for any *)
(* jobs, requests, statuses, texts and sections: first signals, applications *)
(* and saved jobs (Activity), then resumes and what is derived from them     *)
(* (Documents), then the tokens, whose theorems SessionsProofs has.          *)
(*****************************************************************************)
EXTENDS UserData, WellFoundedInduction, TLAPS

USE ActivityAssumption

Place == {"idle", "find", "create", "stamp", "update", "event", "save", "unsave",
          "feedback", "others", "teach", "unteach", "ended"}

Request == [at : Place, job : Job, status : Status \union {"none"},
            kind : Kind \union {"none"}, first : BOOLEAN]

\* What a request is about decides where it may be.
SoundRequest(q) ==
    /\ q \in Request
    /\ q.at \in {"find", "create", "stamp", "update", "event"} => q.status \in Status
    /\ q.at \in {"save", "unsave", "unteach"} => q.kind = "SAVE"
    /\ q.at \in {"feedback", "others"} => q.kind \in Verdict
    /\ q.at = "teach" => q.kind \in Kind
    /\ q.at = "create" => ~q.first
    /\ q.at = "stamp" => q.status = "APPLIED"
    /\ q.at \in {"update", "event"} /\ q.first => q.status = "APPLIED"

Sound == TypeOK /\ \A r \in Requests : SoundRequest(req[r])

\* Places of a request r that is on job j.
On(r, j, place) == Of(r) = j /\ At(r, place)
Works(r, j) == Of(r) = j /\ req[r].at \notin {"idle", "ended"}
Teaches(r, j, kinds) == On(r, j, "teach") /\ req[r].kind \in kinds

\* An APPLIED application is dated or about to be; a request that leaves the
\* date alone has seen one.
Dated(j) ==
    /\ app[j].status = "APPLIED" => app[j].dated \/ \E r \in Requests : On(r, j, "stamp")
    /\ \A r \in Requests :
           On(r, j, "update") /\ req[r].status = "APPLIED" /\ ~req[r].first => app[j].dated

\* A dated one is taught and told, or about to be.
InTrail(j) == \E i \in DOMAIN trail[j] : trail[j][i] = "APPLIED"

Told(j) ==
    app[j].dated =>
        /\ \/ "APPLY" \in taught[j]
           \/ \E r \in Requests : On(r, j, "event") /\ req[r].first
           \/ \E r \in Requests : Teaches(r, j, {"APPLY"})
        /\ InTrail(j) \/ \E r \in Requests : On(r, j, "event") /\ req[r].status = "APPLIED"

\* A judged job has a verdict, or a request is about to teach one.
Judged(j) ==
    opinion[j] # "none" =>
        \/ Verdicts(j) # {}
        \/ \E r \in Requests : On(r, j, "others") \/ Teaches(r, j, Verdict)

Whole(j) == j \notin erased \union cut => Dated(j) /\ Told(j) /\ Judged(j)

\* Without an overlap one request at most is at work on a job.
Alone(j) ==
    j \notin crossed =>
        \A r, q \in Requests : Works(r, j) /\ Works(q, j) => r = q

\* What that request is about to do agrees with what it has done.
Consistent(j) ==
    \A r \in Requests : /\ Teaches(r, j, {"SAVE"}) => j \in saved
                        /\ On(r, j, "unteach") => j \notin saved
                        /\ On(r, j, "others") => req[r].kind = opinion[j]
                        /\ Teaches(r, j, Verdict) => req[r].kind = opinion[j]

SaveAgrees(j) ==
    \/ ("SAVE" \in taught[j]) <=> (j \in saved)
    \/ \E r \in Requests : On(r, j, "unteach") \/ Teaches(r, j, {"SAVE"})

VerdictAgrees(j) ==
    \/ Verdicts(j) = {opinion[j]} \ {"none"}
    \/ \E r \in Requests : On(r, j, "others")
    \/ Verdicts(j) \subseteq {opinion[j]} /\ \E r \in Requests : Teaches(r, j, Verdict)

Undisturbed(j) ==
    j \notin crossed \union erased \union cut =>
        Consistent(j) /\ SaveAgrees(j) /\ VerdictAgrees(j)

IInv == Sound /\ \A j \in Job : Whole(j) /\ Alone(j) /\ Undisturbed(j)

-------------------------------------------------------------------------------
(* What a step of one request leaves alone *)

SameRow(j) ==
    /\ app'[j] = app[j] /\ trail'[j] = trail[j] /\ opinion'[j] = opinion[j]
    /\ taught'[j] = taught[j] /\ (j \in saved') = (j \in saved)

\* r is the only request that moves, and j the only job it moves on.
StepOn(r, j) ==
    /\ \A s \in Requests \ {r} : req'[s] = req[s]
    /\ \A i \in Job \ {j} : ~Works(r, i) /\ ~Works(r, i)' /\ SameRow(i)
    /\ crossed \subseteq crossed' /\ cut \subseteq cut' /\ erased \subseteq erased'

\* It comes to a place with these attributes.
Comes(r, place, job, status, kind, first) ==
    /\ req' \in [Requests -> Request]
    /\ req'[r] = [at |-> place, job |-> job, status |-> status, kind |-> kind, first |-> first]
    /\ \A s \in Requests \ {r} : req'[s] = req[s]

LEMMA GotoComes ==
    ASSUME Sound, NEW r \in Requests, NEW place \in Place, Goto(r, place)
    PROVE  Comes(r, place, Of(r), req[r].status, req[r].kind, req[r].first)
  <1>1. req \in [Requests -> Request] /\ req[r] \in Request
    BY DEF Sound, TypeOK, Request, Place
  <1>2. QED
    BY <1>1 DEF Goto, Comes, Of, Request

LEMMA FirstComes ==
    ASSUME Sound, NEW r \in Requests, NEW place \in Place, NEW first \in BOOLEAN,
           req' = [req EXCEPT ![r].at = place, ![r].first = first]
    PROVE  Comes(r, place, Of(r), req[r].status, req[r].kind, first)
  <1>1. req \in [Requests -> Request] /\ req[r] \in Request
    BY DEF Sound, TypeOK, Request, Place
  <1>2. QED
    BY <1>1 DEF Comes, Of, Request

LEMMA KindComes ==
    ASSUME Sound, NEW r \in Requests, NEW place \in Place, NEW kind \in Kind,
           req' = [req EXCEPT ![r].at = place, ![r].kind = kind]
    PROVE  Comes(r, place, Of(r), req[r].status, kind, req[r].first)
  <1>1. req \in [Requests -> Request] /\ req[r] \in Request
    BY DEF Sound, TypeOK, Request, Place
  <1>2. QED
    BY <1>1 DEF Comes, Of, Request

\* A request that stays with its job is a step on that job.
LEMMA StaysOn ==
    ASSUME Sound, NEW r \in Requests, NEW place, NEW status, NEW kind, NEW first,
           Comes(r, place, Of(r), status, kind, first),
           \A i \in Job \ {Of(r)} : SameRow(i),
           crossed \subseteq crossed', cut \subseteq cut', erased \subseteq erased'
    PROVE  StepOn(r, Of(r)) /\ Of(r) \in Job /\ Of(r)' = Of(r) /\ At(r, place)'
  <1>1. req[r] \in Request /\ Of(r) \in Job
    BY DEF Sound, SoundRequest, Request, Of
  <1>2. QED
    BY <1>1 DEF Comes, StepOn, Works, Of, At

LEMMA Elsewhere ==
    ASSUME IInv, NEW r \in Requests, NEW j \in Job, StepOn(r, j), NEW i \in Job \ {j}
    PROVE  Whole(i)' /\ Alone(i)' /\ Undisturbed(i)'
  <1>1. /\ Whole(i) /\ Alone(i) /\ Undisturbed(i)
        /\ ~Works(r, i) /\ ~Works(r, i)' /\ SameRow(i)
    BY DEF IInv, StepOn
  <1>2. \A s \in Requests \ {r} : req'[s] = req[s]
    BY DEF StepOn
  <1>3. \A s \in Requests : Works(s, i)' = Works(s, i)
    BY <1>1, <1>2 DEF Works, Of
  <1>4. \A s \in Requests : Works(s, i) => req'[s] = req[s]
    BY <1>1, <1>2
  <1>5. \A s \in Requests, place \in Place \ {"idle", "ended"} :
            /\ On(s, i, place) => Works(s, i) /\ On(s, i, place)'
            /\ On(s, i, place)' => Works(s, i) /\ On(s, i, place)
    BY <1>3, <1>4 DEF On, Works, At, Of, Place
  <1>6. \A s \in Requests : Teaches(s, i, Verdict)' = Teaches(s, i, Verdict)
            /\ Teaches(s, i, {"SAVE"})' = Teaches(s, i, {"SAVE"})
            /\ Teaches(s, i, {"APPLY"})' = Teaches(s, i, {"APPLY"})
    BY <1>4, <1>5 DEF Teaches, Place
  <1>7. Alone(i)'
    BY <1>1, <1>3 DEF Alone, StepOn
  <1>8. Whole(i)'
    <2>1. Dated(i) => Dated(i)'
      BY <1>1, <1>4, <1>5 DEF Dated, SameRow, Place
    <2>2. Told(i) => Told(i)'
      BY <1>1, <1>4, <1>5, <1>6 DEF Told, SameRow, Place, InTrail
    <2>3. Judged(i) => Judged(i)'
      BY <1>1, <1>4, <1>5, <1>6 DEF Judged, SameRow, Place, Verdicts
    <2>4. QED
      BY <1>1, <2>1, <2>2, <2>3 DEF Whole, StepOn
  <1>9. Undisturbed(i)'
    <2>1. Consistent(i) => Consistent(i)'
      BY <1>1, <1>4, <1>5, <1>6 DEF Consistent, SameRow, Place, Teaches
    <2>2. SaveAgrees(i) => SaveAgrees(i)'
      BY <1>1, <1>5, <1>6 DEF SaveAgrees, SameRow, Place
    <2>3. VerdictAgrees(i) => VerdictAgrees(i)'
      BY <1>1, <1>5, <1>6 DEF VerdictAgrees, SameRow, Place, Verdicts
    <2>4. QED
      BY <1>1, <2>1, <2>2, <2>3 DEF Undisturbed, StepOn
  <1>10. QED
    BY <1>7, <1>8, <1>9

LEMMA OthersStay ==
    ASSUME NEW r \in Requests, NEW j, StepOn(r, j), NEW s \in Requests \ {r}
    PROVE  /\ req'[s] = req[s] /\ Works(s, j)' = Works(s, j)
           /\ \A place : On(s, j, place)' = On(s, j, place)
           /\ \A kinds : Teaches(s, j, kinds)' = Teaches(s, j, kinds)
  BY DEF StepOn, Works, On, Teaches, At, Of

LEMMA AloneStays ==
    ASSUME IInv, NEW r \in Requests, NEW j \in Job, StepOn(r, j), Works(r, j)' => Works(r, j)
    PROVE  Alone(j)'
  <1>1. \A s \in Requests : Works(s, j)' => Works(s, j)
    BY OthersStay
  <1>2. QED
    BY <1>1 DEF IInv, Alone, StepOn

LEMMA Closing ==
    ASSUME IInv, NEW r \in Requests, NEW j \in Job, StepOn(r, j),
           Sound', Whole(j)', Alone(j)', Undisturbed(j)'
    PROVE  IInv'
  BY Elsewhere DEF IInv

LEMMA SoundStays ==
    ASSUME Sound, NEW r \in Requests, TypeOK', SoundRequest(req'[r]),
           \A s \in Requests \ {r} : req'[s] = req[s]
    PROVE  Sound'
  <1>1. \A s \in Requests : SoundRequest(req'[s])
    BY DEF Sound
  <1>2. QED
    BY <1>1 DEF Sound, SoundRequest

\* Where r is at work and nobody has crossed it, nobody else is.
LEMMA OnlyOne ==
    ASSUME IInv, NEW r \in Requests, Works(r, Of(r)), Of(r) \notin crossed,
           NEW s \in Requests \ {r}
    PROVE  /\ ~Works(s, Of(r))
           /\ \A place \in Place \ {"idle", "ended"} : ~On(s, Of(r), place)
           /\ \A kinds : ~Teaches(s, Of(r), kinds)
  <1>1. Of(r) \in Job
    BY DEF IInv, Sound, SoundRequest, Request, Of
  <1>2. ~Works(s, Of(r))
    BY <1>1 DEF IInv, Alone
  <1>3. QED
    BY <1>2 DEF Works, On, Teaches, At, Of, Place

\* The parts of the invariant that speak of one request and one job.
LEMMA InHand ==
    ASSUME IInv, NEW r \in Requests
    PROVE  /\ Of(r) \in Job /\ SoundRequest(req[r]) /\ req[r] \in Request
           /\ Whole(Of(r)) /\ Undisturbed(Of(r))
  BY DEF IInv, Sound, SoundRequest, Request, Of

-------------------------------------------------------------------------------
(* Applications *)

LEMMA CreateKeeps ==
    ASSUME IInv, NEW r \in Requests, CreateApplication(r)
    PROVE  IInv'
  <1> DEFINE j == Of(r)
  <1>0. j \in Job /\ SoundRequest(req[r]) /\ req[r] \in Request /\ Whole(j) /\ Undisturbed(j)
    BY InHand
  <1>1. PICK place \in {"stamp", "event", "ended"} :
            /\ Goto(r, place)
            /\ place = "stamp" => req[r].status = "APPLIED"
            /\ app[j] = NoApp /\ req[r].status = "APPLIED" => place = "stamp"
            /\ app[j] # NoApp => app' = app
    BY DEF CreateApplication
  <1>2. Comes(r, place, j, req[r].status, req[r].kind, req[r].first)
    BY <1>1, GotoComes DEF IInv, Place
  <1>3. /\ app' \in [Job -> [status : Status \union {"none"}, dated : BOOLEAN]]
        /\ \A i \in Job \ {j} : app'[i] = app[i]
        /\ app'[j].dated = app[j].dated
        /\ app[j] = NoApp => app'[j].status = req[r].status
    <2>1. app \in [Job -> [status : Status \union {"none"}, dated : BOOLEAN]]
          /\ req[r].status \in Status
      BY <1>0 DEF IInv, Sound, TypeOK, CreateApplication, SoundRequest, At
    <2>2. CASE app[j] = NoApp
      BY <1>0, <2>1, <2>2 DEF CreateApplication
    <2>3. CASE app[j] # NoApp
      BY <1>1, <2>1, <2>3
    <2>4. QED
      BY <2>2, <2>3
  <1>4. StepOn(r, j) /\ Of(r)' = j /\ At(r, place)'
    BY <1>2, <1>3, StaysOn DEF IInv, SameRow, CreateApplication, history
  <1>5. Sound'
    <2>1. SoundRequest(req'[r])
      BY <1>0, <1>1, <1>2 DEF SoundRequest, Comes, CreateApplication, At
    <2>2. TypeOK'
      BY <1>2, <1>3 DEF IInv, Sound, TypeOK, Comes, Request, Place, CreateApplication, history
    <2>3. QED
      BY <2>1, <2>2, <1>2, SoundStays DEF IInv, Comes
  <1>6. Whole(j)'
    <2> SUFFICES ASSUME j \notin erased \union cut
                 PROVE  Dated(j)' /\ Told(j)' /\ Judged(j)'
      BY <1>4 DEF Whole, CreateApplication, history
    <2>1. Dated(j)'
      BY <1>0, <1>1, <1>2, <1>3, <1>4, OthersStay, SMTT(30)
         DEF Whole, Dated, On, At, Of, Comes, CreateApplication, NoApp
    <2>2. Told(j)'
      BY <1>0, <1>1, <1>2, <1>3, <1>4, OthersStay, SMTT(30)
         DEF Whole, Told, On, Teaches, At, Of, Comes, CreateApplication, NoApp, InTrail
    <2>3. Judged(j)'
      BY <1>0, <1>1, <1>2, <1>4, OthersStay
         DEF Whole, Judged, On, Teaches, At, Of, Comes, CreateApplication, Verdicts
    <2>4. QED
      BY <2>1, <2>2, <2>3
  <1>7. Undisturbed(j)'
    BY <1>0, <1>1, <1>2, <1>4, OthersStay
       DEF Undisturbed, Consistent, SaveAgrees, VerdictAgrees, Verdicts, On, Teaches, At, Of,
           Comes, CreateApplication, history
  <1>8. Works(r, j)
    BY DEF Works, CreateApplication, At
  <1>9. QED
    BY <1>0, <1>4, <1>5, <1>6, <1>7, <1>8, AloneStays, Closing

LEMMA StampKeeps ==
    ASSUME IInv, NEW r \in Requests, StampApplication(r)
    PROVE  IInv'
  <1> DEFINE j == Of(r)
  <1>0. j \in Job /\ SoundRequest(req[r]) /\ req[r] \in Request /\ Whole(j) /\ Undisturbed(j)
    BY InHand
  <1>2. Comes(r, "event", j, req[r].status, req[r].kind, TRUE)
    BY FirstComes DEF IInv, Place, StampApplication
  <1>3. /\ app' \in [Job -> [status : Status \union {"none"}, dated : BOOLEAN]]
        /\ \A i \in Job \ {j} : app'[i] = app[i]
        /\ app'[j].status = app[j].status /\ app'[j].dated
    <2>1. app \in [Job -> [status : Status \union {"none"}, dated : BOOLEAN]]
      BY DEF IInv, Sound, TypeOK
    <2>2. QED
      BY <1>0, <2>1 DEF StampApplication
  <1>4. StepOn(r, j) /\ Of(r)' = j /\ At(r, "event")'
    BY <1>2, <1>3, StaysOn DEF IInv, SameRow, StampApplication, history
  <1>5. Sound'
    <2>1. SoundRequest(req'[r])
      BY <1>0, <1>2 DEF SoundRequest, Comes, StampApplication, At, Request, Place
    <2>2. TypeOK'
      BY <1>2, <1>3 DEF IInv, Sound, TypeOK, Comes, Request, Place, StampApplication, history
    <2>3. QED
      BY <2>1, <2>2, <1>2, SoundStays DEF IInv, Comes
  <1>6. Whole(j)'
    <2> SUFFICES ASSUME j \notin erased \union cut
                 PROVE  Dated(j)' /\ Told(j)' /\ Judged(j)'
      BY <1>4 DEF Whole, StampApplication, history
    <2>1. Dated(j)'
      BY <1>3, <1>4 DEF Dated
    <2>2. Told(j)'
      BY <1>0, <1>2, <1>4 DEF Told, On, At, Comes, StampApplication, SoundRequest
    <2>3. Judged(j)'
      BY <1>0, <1>2, <1>4, OthersStay
         DEF Whole, Judged, On, Teaches, At, Of, Comes, StampApplication, Verdicts
    <2>4. QED
      BY <2>1, <2>2, <2>3
  <1>7. Undisturbed(j)'
    BY <1>0, <1>2, <1>4, OthersStay
       DEF Undisturbed, Consistent, SaveAgrees, VerdictAgrees, Verdicts, On, Teaches, At, Of,
           Comes, StampApplication, history
  <1>8. Works(r, j)
    BY DEF Works, StampApplication, At
  <1>9. QED
    BY <1>0, <1>4, <1>5, <1>6, <1>7, <1>8, AloneStays, Closing

\* Steps that change no row, from a place where nothing is promised.
LEMMA LooksKeeps ==
    ASSUME IInv, NEW r \in Requests, NEW place \in Place, NEW first \in BOOLEAN,
           Works(r, Of(r)), UNCHANGED <<app, trail, saved, opinion, taught, crossed, erased>>,
           cut \subseteq cut', cut' \subseteq Job,
           Comes(r, place, Of(r), req[r].status, req[r].kind, first),
           SoundRequest(req'[r]), place \in {"ended", "update"},
           Of(r) \in cut' \/ At(r, "find"),
           place = "update" /\ req[r].status = "APPLIED" /\ ~first => app[Of(r)].dated
    PROVE  IInv'
  <1> DEFINE j == Of(r)
  <1>0. j \in Job /\ SoundRequest(req[r]) /\ req[r] \in Request /\ Whole(j) /\ Undisturbed(j)
    BY InHand
  <1>4. StepOn(r, j) /\ Of(r)' = j /\ At(r, place)'
    BY StaysOn DEF IInv, SameRow
  <1>5. Sound'
    <2>1. TypeOK'
      BY DEF IInv, Sound, TypeOK, Comes, Request, Place
    <2>2. QED
      BY <2>1, SoundStays DEF IInv, Comes
  <1>6. Whole(j)'
    <2> SUFFICES ASSUME j \notin erased \union cut', At(r, "find")
                 PROVE  Dated(j)' /\ Told(j)' /\ Judged(j)'
      BY <1>4 DEF Whole
    <2>0. Dated(j) /\ Told(j) /\ Judged(j)
      BY <1>0 DEF Whole
    <2>1. Dated(j)'
      BY <2>0, <1>4, OthersStay DEF Dated, On, At, Of, Comes
    <2>2. Told(j)'
      BY <2>0, <1>4, OthersStay DEF Told, On, Teaches, At, Of, Comes, InTrail
    <2>3. Judged(j)'
      BY <2>0, <1>4, OthersStay DEF Judged, On, Teaches, At, Of, Comes, Verdicts
    <2>4. QED
      BY <2>1, <2>2, <2>3
  <1>7. Undisturbed(j)'
    <2> SUFFICES ASSUME j \notin crossed \union erased \union cut', At(r, "find")
                 PROVE  Consistent(j)' /\ SaveAgrees(j)' /\ VerdictAgrees(j)'
      BY <1>4 DEF Undisturbed
    <2>1. QED
      BY <1>0, <1>4, OthersStay
         DEF Undisturbed, Consistent, SaveAgrees, VerdictAgrees, Verdicts, On, Teaches, At, Of,
             Comes
  <1>9. QED
    BY <1>0, <1>4, <1>5, <1>6, <1>7, AloneStays, Closing

LEMMA FindKeeps ==
    ASSUME IInv, NEW r \in Requests, FindApplication(r)
    PROVE  IInv'
  <1>1. SoundRequest(req[r]) /\ req[r] \in Request /\ Of(r) \in Job
    BY InHand
  <1> DEFINE place == IF app[Of(r)].status \in {"none", req[r].status} THEN "ended" ELSE "update"
             first == req[r].status = "APPLIED" /\ ~app[Of(r)].dated
  <1>2. place \in {"ended", "update"} /\ first \in BOOLEAN
    OBVIOUS
  <1>3. Comes(r, place, Of(r), req[r].status, req[r].kind, first)
    BY <1>2, FirstComes DEF IInv, FindApplication, Place
  <1>4. SoundRequest(req'[r])
    BY <1>1, <1>2, <1>3 DEF SoundRequest, Comes, FindApplication, At, Request
  <1>5. Works(r, Of(r)) /\ cut \subseteq Job
    BY DEF Works, At, FindApplication, IInv, Sound, TypeOK
  <1> HIDE DEF place
  <1>6. QED
    BY <1>2, <1>3, <1>4, <1>5, LooksKeeps DEF FindApplication, history, Place

LEMMA StopKeeps ==
    ASSUME IInv, NEW r \in Requests, Stop(r)
    PROVE  IInv'
  <1>1. SoundRequest(req[r]) /\ req[r] \in Request /\ Of(r) \in Job
    BY InHand
  <1>2. Comes(r, "ended", Of(r), req[r].status, req[r].kind, req[r].first)
    BY GotoComes DEF IInv, Stop, Place
  <1>3. SoundRequest(req'[r]) /\ req[r].first \in BOOLEAN
    BY <1>1, <1>2 DEF SoundRequest, Comes, Request, Place
  <1>4. Works(r, Of(r)) /\ cut' = cut \union {Of(r)} /\ cut' \subseteq Job
    BY <1>1 DEF Works, Stop, IInv, Sound, TypeOK
  <1>5. QED
    BY <1>2, <1>3, <1>4, LooksKeeps DEF Stop, Place

LEMMA UpdateKeeps ==
    ASSUME IInv, NEW r \in Requests, UpdateStatus(r)
    PROVE  IInv'
  <1> DEFINE j == Of(r)
  <1>0. j \in Job /\ SoundRequest(req[r]) /\ req[r] \in Request /\ Whole(j) /\ Undisturbed(j)
    BY InHand
  <1>2. Comes(r, "event", j, req[r].status, req[r].kind, req[r].first)
    BY GotoComes DEF IInv, Place, UpdateStatus
  <1>3. /\ app' \in [Job -> [status : Status \union {"none"}, dated : BOOLEAN]]
        /\ \A i \in Job \ {j} : app'[i] = app[i]
        /\ app'[j].status = req[r].status
        /\ app'[j].dated = (app[j].dated \/ req[r].first)
    <2>1. app \in [Job -> [status : Status \union {"none"}, dated : BOOLEAN]]
          /\ req[r].status \in Status /\ req[r].first \in BOOLEAN
      BY <1>0 DEF IInv, Sound, TypeOK, UpdateStatus, SoundRequest, At, Request
    <2>2. app' = [app EXCEPT ![j] = [status |-> req[r].status,
                                     dated |-> app[j].dated \/ req[r].first]]
      BY <2>1 DEF UpdateStatus
    <2>3. QED
      BY <1>0, <2>1, <2>2
  <1>4. StepOn(r, j) /\ Of(r)' = j /\ At(r, "event")'
    BY <1>2, <1>3, StaysOn DEF IInv, SameRow, UpdateStatus, history
  <1>5. Sound'
    <2>1. SoundRequest(req'[r])
      BY <1>0, <1>2 DEF SoundRequest, Comes, UpdateStatus, At, Request, Place
    <2>2. TypeOK'
      BY <1>2, <1>3 DEF IInv, Sound, TypeOK, Comes, Request, Place, UpdateStatus, history
    <2>3. QED
      BY <2>1, <2>2, <1>2, SoundStays DEF IInv, Comes
  <1>6. Whole(j)'
    <2> SUFFICES ASSUME j \notin erased \union cut
                 PROVE  Dated(j)' /\ Told(j)' /\ Judged(j)'
      BY <1>4 DEF Whole, UpdateStatus, history
    <2>0. Dated(j) /\ Told(j) /\ Judged(j)
      BY <1>0 DEF Whole
    <2>1. Dated(j)'
      <3>1. app'[j].status = "APPLIED" => app'[j].dated
        BY <2>0, <1>3 DEF Dated, On, UpdateStatus
      <3>2. ASSUME NEW s \in Requests, On(s, j, "update")', req'[s].status = "APPLIED",
                   ~req'[s].first
            PROVE  app'[j].dated
        <4>1. s # r
          BY <1>4, <3>2 DEF On, At
        <4>2. On(s, j, "update") /\ req'[s] = req[s]
          BY <1>4, <3>2, <4>1, OthersStay
        <4>3. app[j].dated
          BY <2>0, <3>2, <4>2 DEF Dated
        <4>4. QED
          BY <1>3, <4>3
      <3>3. QED
        BY <1>4, <3>1, <3>2 DEF Dated
    <2>2. Told(j)'
      <3>1. CASE req[r].first
        BY <3>1, <1>0, <1>2, <1>4 DEF Told, On, At, Comes, UpdateStatus, SoundRequest
      <3>2. CASE ~req[r].first
        <4>1. app'[j].dated = app[j].dated /\ taught'[j] = taught[j] /\ trail'[j] = trail[j]
          BY <3>2, <1>0, <1>3 DEF UpdateStatus, IInv, Sound, TypeOK
        <4>2. \A kinds : ~Teaches(r, j, kinds)
          BY DEF Teaches, On, At, UpdateStatus
        <4>3. ~On(r, j, "event")
          BY DEF On, At, UpdateStatus
        <4>4. \A s \in Requests : On(s, j, "event") => On(s, j, "event")' /\ req'[s] = req[s]
          BY <4>3, <1>4, OthersStay
        <4>5. \A s \in Requests : Teaches(s, j, {"APPLY"}) => Teaches(s, j, {"APPLY"})'
          BY <4>2, <1>4, OthersStay
        <4>6. InTrail(j) => InTrail(j)'
          BY <4>1, <1>4 DEF InTrail
        <4>7. QED
          BY <2>0, <4>1, <4>4, <4>5, <4>6, <1>4 DEF Told
      <3>3. QED
        BY <3>1, <3>2
    <2>3. Judged(j)'
      BY <2>0, <1>2, <1>4, OthersStay
         DEF Judged, On, Teaches, At, Of, Comes, UpdateStatus, Verdicts
    <2>4. QED
      BY <2>1, <2>2, <2>3
  <1>7. Undisturbed(j)'
    BY <1>0, <1>2, <1>4, OthersStay
       DEF Undisturbed, Consistent, SaveAgrees, VerdictAgrees, Verdicts, On, Teaches, At, Of,
           Comes, UpdateStatus, history
  <1>8. Works(r, j)
    BY DEF Works, UpdateStatus, At
  <1>9. QED
    BY <1>0, <1>4, <1>5, <1>6, <1>7, <1>8, AloneStays, Closing

LEMMA EventKeeps ==
    ASSUME IInv, NEW r \in Requests, AddEvent(r)
    PROVE  IInv'
  <1> DEFINE j == Of(r)
             place == IF req[r].first THEN "teach" ELSE "ended"
  <1>0. j \in Job /\ SoundRequest(req[r]) /\ req[r] \in Request /\ Whole(j) /\ Undisturbed(j)
    BY InHand
  <1>2. Comes(r, place, j, req[r].status, "APPLY", req[r].first)
    BY KindComes DEF IInv, Place, AddEvent, Kind
  <1>3. /\ trail' \in [Job -> Seq(Status)]
        /\ \A i \in Job \ {j} : trail'[i] = trail[i]
        /\ InTrail(j) \/ req[r].status = "APPLIED" =>
               \E i \in DOMAIN trail'[j] : trail'[j][i] = "APPLIED"
    <2>1. trail \in [Job -> Seq(Status)] /\ req[r].status \in Status
      BY <1>0 DEF IInv, Sound, TypeOK, AddEvent, SoundRequest, At
    <2>2. trail' = [trail EXCEPT ![j] = Append(trail[j], req[r].status)]
      BY <2>1 DEF AddEvent
    <2>3. trail[j] \in Seq(Status) /\ trail'[j] = Append(trail[j], req[r].status)
      BY <1>0, <2>1, <2>2
    <2>4. /\ DOMAIN trail'[j] = 1..Len(trail[j]) + 1
          /\ trail'[j][Len(trail[j]) + 1] = req[r].status
          /\ \A i \in DOMAIN trail[j] : i \in DOMAIN trail'[j] /\ trail'[j][i] = trail[j][i]
      BY <2>1, <2>3
    <2>5. Len(trail[j]) + 1 \in DOMAIN trail'[j]
      BY <2>3, <2>4
    <2>6. QED
      BY <1>0, <2>1, <2>2, <2>4, <2>5 DEF InTrail
  <1>4. StepOn(r, j) /\ Of(r)' = j
    <2>1. /\ \A i \in Job \ {j} : SameRow(i)
          /\ crossed \subseteq crossed' /\ cut \subseteq cut' /\ erased \subseteq erased'
      BY <1>3 DEF SameRow, AddEvent, history
    <2>2. PICK p : p = place
      OBVIOUS
    <2> HIDE DEF place
    <2>3. Comes(r, p, j, req[r].status, "APPLY", req[r].first)
      BY <1>2, <2>2
    <2>4. QED
      BY <2>3, <2>1, StaysOn DEF IInv
  <1>5. Sound'
    <2>1. SoundRequest(req'[r])
      BY <1>0, <1>2 DEF SoundRequest, Comes, AddEvent, At, Request, Place, Kind
    <2>2. TypeOK'
      BY <1>2, <1>3 DEF IInv, Sound, TypeOK, Comes, Request, Place, AddEvent, history
    <2>3. QED
      BY <2>1, <2>2, <1>2, SoundStays DEF IInv, Comes
  <1>6. Whole(j)'
    <2> SUFFICES ASSUME j \notin erased \union cut
                 PROVE  Dated(j)' /\ Told(j)' /\ Judged(j)'
      BY <1>4 DEF Whole, AddEvent, history
    <2>0. Dated(j) /\ Told(j) /\ Judged(j)
      BY <1>0 DEF Whole
    <2>1. Dated(j)'
      BY <2>0, <1>2, <1>4, OthersStay DEF Dated, On, At, Of, Comes, AddEvent
    <2>2. Told(j)'
      <3> SUFFICES ASSUME app[j].dated
                   PROVE  Told(j)'
        BY <1>4 DEF Told, AddEvent
      <3>1. \/ "APPLY" \in taught'[j]
            \/ \E s \in Requests : On(s, j, "event")' /\ req'[s].first
            \/ \E s \in Requests : Teaches(s, j, {"APPLY"})'
        <4>1. \/ "APPLY" \in taught[j]
              \/ \E s \in Requests : On(s, j, "event") /\ req[s].first
              \/ \E s \in Requests : Teaches(s, j, {"APPLY"})
          BY <2>0 DEF Told
        <4>2. CASE "APPLY" \in taught[j]
          BY <4>2, <1>2, <1>4 DEF Comes, AddEvent
        <4>3. ASSUME NEW s \in Requests, On(s, j, "event"), req[s].first
              PROVE  \/ \E t \in Requests : On(t, j, "event")' /\ req'[t].first
                     \/ \E t \in Requests : Teaches(t, j, {"APPLY"})'
          BY <4>3, <1>2, OthersStay DEF On, Teaches, At, Of, Comes, AddEvent
        <4>4. ASSUME NEW s \in Requests, Teaches(s, j, {"APPLY"})
              PROVE  \E t \in Requests : Teaches(t, j, {"APPLY"})'
          BY <4>4, <1>2, OthersStay DEF On, Teaches, At, Of, Comes, AddEvent
        <4>5. QED
          BY <4>1, <4>2, <4>3, <4>4
      <3>2. InTrail(j)' \/ \E s \in Requests : On(s, j, "event")' /\ req'[s].status = "APPLIED"
        <4>1. CASE InTrail(j) \/ req[r].status = "APPLIED"
          BY <4>1, <1>3, <1>4 DEF InTrail
        <4>2. CASE ~(InTrail(j) \/ req[r].status = "APPLIED")
          BY <4>2, <2>0, OthersStay, <1>4 DEF Told
        <4>3. QED
          BY <4>1, <4>2
      <3>3. QED
        BY <3>1, <3>2, <1>4 DEF Told, Teaches
    <2>3. Judged(j)'
      BY <2>0, <1>2, <1>4, OthersStay
         DEF Judged, On, Teaches, At, Of, Comes, AddEvent, Verdicts
    <2>4. QED
      BY <2>1, <2>2, <2>3
  <1>7. Undisturbed(j)'
    <2>1. \A p \in {"unteach", "others"} : ~On(r, j, p) /\ ~On(r, j, p)'
      BY <1>2 DEF On, At, Of, Comes, AddEvent
    <2>2. ~Teaches(r, j, Verdict) /\ ~Teaches(r, j, Verdict)'
          /\ ~Teaches(r, j, {"SAVE"}) /\ ~Teaches(r, j, {"SAVE"})'
      BY <1>2 DEF Teaches, On, At, Of, Comes, AddEvent, Verdict
    <2> SUFFICES ASSUME j \notin crossed \union erased \union cut
                 PROVE  Consistent(j)' /\ SaveAgrees(j)' /\ VerdictAgrees(j)'
      BY <1>4 DEF Undisturbed, AddEvent, history
    <2>0. Consistent(j) /\ SaveAgrees(j) /\ VerdictAgrees(j)
      BY <1>0 DEF Undisturbed
    <2>3. Consistent(j)'
      <3>1. ASSUME NEW s \in Requests \ {r}
            PROVE  /\ Teaches(s, j, {"SAVE"})' => j \in saved
                   /\ On(s, j, "unteach")' => j \notin saved
                   /\ On(s, j, "others")' => req'[s].kind = opinion[j]
                   /\ Teaches(s, j, Verdict)' => req'[s].kind = opinion[j]
        BY <2>0, <1>4, OthersStay DEF Consistent
      <3>2. QED
        BY <2>1, <2>2, <3>1, <1>4 DEF Consistent, AddEvent
    <2>4. SaveAgrees(j)'
      BY <2>0, <2>1, <2>2, <1>4, OthersStay DEF SaveAgrees, AddEvent
    <2>5. VerdictAgrees(j)'
      BY <2>0, <2>1, <2>2, <1>4, OthersStay DEF VerdictAgrees, Verdicts, AddEvent
    <2>6. QED
      BY <2>3, <2>4, <2>5
  <1>8. Works(r, j)
    BY DEF Works, AddEvent, At
  <1>9. QED
    BY <1>0, <1>4, <1>5, <1>6, <1>7, <1>8, AloneStays, Closing

-------------------------------------------------------------------------------
(* Saved jobs, feedback, signals *)

LEMMA SaveKeeps ==
    ASSUME IInv, NEW r \in Requests, SaveJob(r)
    PROVE  IInv'
  <1> DEFINE j == Of(r)
  <1>0. j \in Job /\ SoundRequest(req[r]) /\ req[r] \in Request /\ Whole(j) /\ Undisturbed(j)
    BY InHand
  <1>1. Works(r, j) /\ \A s \in Requests \ {r} : j \notin crossed => ~Works(s, j)
    BY <1>0, OnlyOne DEF Works, SaveJob, At
  <1>2. Comes(r, "teach", j, req[r].status, req[r].kind, req[r].first)
    BY GotoComes DEF IInv, Place, SaveJob
  <1>3. /\ saved' \subseteq Job /\ j \in saved' /\ req[r].kind = "SAVE"
        /\ \A i \in Job \ {j} : (i \in saved') = (i \in saved)
    BY <1>0 DEF IInv, Sound, TypeOK, SaveJob, SoundRequest, At
  <1>4. StepOn(r, j) /\ Of(r)' = j
    <2>1. /\ \A i \in Job \ {j} : SameRow(i)
          /\ crossed \subseteq crossed' /\ cut \subseteq cut' /\ erased \subseteq erased'
      BY <1>3 DEF SameRow, SaveJob, history
    <2>2. QED
      BY <1>2, <2>1, StaysOn DEF IInv
  <1>5. Sound'
    <2>1. SoundRequest(req'[r])
      BY <1>0, <1>2 DEF SoundRequest, Comes, SaveJob, At, Request, Place, Kind
    <2>2. TypeOK'
      BY <1>0, <1>2, <1>3 DEF IInv, Sound, TypeOK, Comes, Request, Place, SaveJob, history
    <2>3. QED
      BY <2>1, <2>2, <1>2, SoundStays DEF IInv, Comes
  <1>6. Whole(j)'
    <2> SUFFICES ASSUME j \notin erased \union cut
                 PROVE  Dated(j)' /\ Told(j)' /\ Judged(j)'
      BY <1>4 DEF Whole, SaveJob, history
    <2>0. Dated(j) /\ Told(j) /\ Judged(j)
      BY <1>0 DEF Whole
    <2>1. Dated(j)'
      BY <2>0, <1>2, <1>4, OthersStay DEF Dated, On, Teaches, At, Of, Comes, SaveJob
    <2>2. Told(j)'
      BY <2>0, <1>2, <1>4, OthersStay DEF Told, InTrail, On, Teaches, At, Of, Comes, SaveJob
    <2>3. Judged(j)'
      BY <2>0, <1>2, <1>4, OthersStay DEF Judged, Verdicts, On, Teaches, At, Of, Comes, SaveJob
    <2>4. QED
      BY <2>1, <2>2, <2>3
  <1>7. Undisturbed(j)'
    <2> SUFFICES ASSUME j \notin crossed \union erased \union cut
                 PROVE  Consistent(j)' /\ SaveAgrees(j)' /\ VerdictAgrees(j)'
      BY <1>4 DEF Undisturbed, SaveJob, history
    <2>0. Consistent(j) /\ SaveAgrees(j) /\ VerdictAgrees(j)
      BY <1>0 DEF Undisturbed
    <2>1. \A s \in Requests \ {r} : ~Works(s, j) /\ ~Works(s, j)'
      BY <1>1, <1>4, OthersStay
    <2>2. \A s \in Requests \ {r} :
              /\ \A p \in {"unteach", "others"} : ~On(s, j, p) /\ ~On(s, j, p)'
              /\ \A kinds : ~Teaches(s, j, kinds) /\ ~Teaches(s, j, kinds)'
      BY <2>1, <1>4 DEF Works, On, Teaches, At, Of
    <2>3. Consistent(j)'
      BY <1>0, <1>2, <1>3, <1>4, <2>0, <2>2
         DEF Consistent, On, Teaches, At, Of, Comes, SaveJob, SoundRequest, Verdict
    <2>4. SaveAgrees(j)'
      BY <1>0, <1>2, <1>3, <1>4, <2>0, <2>2
         DEF SaveAgrees, Consistent, On, Teaches, At, Of, Comes, SaveJob, SoundRequest,
             Verdict
    <2>5. VerdictAgrees(j)'
      BY <1>0, <1>2, <1>3, <1>4, <2>0, <2>2
         DEF VerdictAgrees, Consistent, Verdicts, On, Teaches, At, Of, Comes, SaveJob,
             SoundRequest, Verdict
    <2>6. QED
      BY <2>3, <2>4, <2>5
  <1>8. QED
    BY <1>0, <1>1, <1>4, <1>5, <1>6, <1>7, AloneStays, Closing

LEMMA UnsaveKeeps ==
    ASSUME IInv, NEW r \in Requests, UnsaveJob(r)
    PROVE  IInv'
  <1> DEFINE j == Of(r)
  <1>0. j \in Job /\ SoundRequest(req[r]) /\ req[r] \in Request /\ Whole(j) /\ Undisturbed(j)
    BY InHand
  <1>1. Works(r, j) /\ \A s \in Requests \ {r} : j \notin crossed => ~Works(s, j)
    BY <1>0, OnlyOne DEF Works, UnsaveJob, At
  <1>2. Comes(r, "unteach", j, req[r].status, req[r].kind, req[r].first)
    BY GotoComes DEF IInv, Place, UnsaveJob
  <1>3. /\ saved' \subseteq Job /\ j \notin saved' /\ req[r].kind = "SAVE"
        /\ \A i \in Job \ {j} : (i \in saved') = (i \in saved)
    BY <1>0 DEF IInv, Sound, TypeOK, UnsaveJob, SoundRequest, At
  <1>4. StepOn(r, j) /\ Of(r)' = j
    <2>1. /\ \A i \in Job \ {j} : SameRow(i)
          /\ crossed \subseteq crossed' /\ cut \subseteq cut' /\ erased \subseteq erased'
      BY <1>3 DEF SameRow, UnsaveJob, history
    <2>2. QED
      BY <1>2, <2>1, StaysOn DEF IInv
  <1>5. Sound'
    <2>1. SoundRequest(req'[r])
      BY <1>0, <1>2 DEF SoundRequest, Comes, UnsaveJob, At, Request, Place, Kind
    <2>2. TypeOK'
      BY <1>0, <1>2, <1>3 DEF IInv, Sound, TypeOK, Comes, Request, Place, UnsaveJob, history
    <2>3. QED
      BY <2>1, <2>2, <1>2, SoundStays DEF IInv, Comes
  <1>6. Whole(j)'
    <2> SUFFICES ASSUME j \notin erased \union cut
                 PROVE  Dated(j)' /\ Told(j)' /\ Judged(j)'
      BY <1>4 DEF Whole, UnsaveJob, history
    <2>0. Dated(j) /\ Told(j) /\ Judged(j)
      BY <1>0 DEF Whole
    <2>1. Dated(j)'
      BY <2>0, <1>2, <1>4, OthersStay DEF Dated, On, Teaches, At, Of, Comes, UnsaveJob
    <2>2. Told(j)'
      BY <2>0, <1>2, <1>4, OthersStay DEF Told, InTrail, On, Teaches, At, Of, Comes, UnsaveJob
    <2>3. Judged(j)'
      BY <2>0, <1>2, <1>4, OthersStay
         DEF Judged, Verdicts, On, Teaches, At, Of, Comes, UnsaveJob
    <2>4. QED
      BY <2>1, <2>2, <2>3
  <1>7. Undisturbed(j)'
    <2> SUFFICES ASSUME j \notin crossed \union erased \union cut
                 PROVE  Consistent(j)' /\ SaveAgrees(j)' /\ VerdictAgrees(j)'
      BY <1>4 DEF Undisturbed, UnsaveJob, history
    <2>0. Consistent(j) /\ SaveAgrees(j) /\ VerdictAgrees(j)
      BY <1>0 DEF Undisturbed
    <2>1. \A s \in Requests \ {r} : ~Works(s, j) /\ ~Works(s, j)'
      BY <1>1, <1>4, OthersStay
    <2>2. \A s \in Requests \ {r} :
              /\ \A p \in {"unteach", "others"} : ~On(s, j, p) /\ ~On(s, j, p)'
              /\ \A kinds : ~Teaches(s, j, kinds) /\ ~Teaches(s, j, kinds)'
      BY <2>1, <1>4 DEF Works, On, Teaches, At, Of
    <2>3. Consistent(j)'
      <3>1. j \notin saved' /\ ~On(r, j, "others")' /\ ~Teaches(r, j, {"SAVE"})'
            /\ ~Teaches(r, j, Verdict)'
        BY <1>2, <1>3 DEF Teaches, On, At, Comes
      <3>2. QED
        BY <2>2, <3>1, <1>4 DEF Consistent
    <2>4. SaveAgrees(j)'
      BY <1>0, <1>2, <1>3, <1>4, <2>0, <2>2
         DEF SaveAgrees, Consistent, On, Teaches, At, Of, Comes, UnsaveJob, SoundRequest,
             Verdict
    <2>5. VerdictAgrees(j)'
      <3>1. Verdicts(j) = {opinion[j]} \ {"none"}
        BY <2>0, <2>2 DEF VerdictAgrees, On, Teaches, At, UnsaveJob
      <3>2. QED
        BY <3>1, <1>4 DEF VerdictAgrees, Verdicts, UnsaveJob
    <2>6. QED
      BY <2>3, <2>4, <2>5
  <1>8. QED
    BY <1>0, <1>1, <1>4, <1>5, <1>6, <1>7, AloneStays, Closing

LEMMA FeedbackKeeps ==
    ASSUME IInv, NEW r \in Requests, SetFeedback(r)
    PROVE  IInv'
  <1> DEFINE j == Of(r)
  <1>0. j \in Job /\ SoundRequest(req[r]) /\ req[r] \in Request /\ Whole(j) /\ Undisturbed(j)
    BY InHand
  <1>1. Works(r, j) /\ \A s \in Requests \ {r} : j \notin crossed => ~Works(s, j)
    BY <1>0, OnlyOne DEF Works, SetFeedback, At
  <1>2. Comes(r, "others", j, req[r].status, req[r].kind, req[r].first)
    BY GotoComes DEF IInv, Place, SetFeedback
  <1>3. /\ opinion' \in [Job -> Verdict \union {"none"}] /\ opinion'[j] = req[r].kind
        /\ \A i \in Job \ {j} : opinion'[i] = opinion[i]
    <2>1. req[r].kind \in Verdict /\ opinion \in [Job -> Verdict \union {"none"}]
      BY <1>0 DEF IInv, Sound, TypeOK, SetFeedback, SoundRequest, At
    <2>2. QED
      BY <1>0, <2>1 DEF SetFeedback
  <1>4. StepOn(r, j) /\ Of(r)' = j
    <2>1. /\ \A i \in Job \ {j} : SameRow(i)
          /\ crossed \subseteq crossed' /\ cut \subseteq cut' /\ erased \subseteq erased'
      BY <1>3 DEF SameRow, SetFeedback, history
    <2>2. QED
      BY <1>2, <2>1, StaysOn DEF IInv
  <1>5. Sound'
    <2>1. SoundRequest(req'[r])
      BY <1>0, <1>2 DEF SoundRequest, Comes, SetFeedback, At, Request, Place, Kind
    <2>2. TypeOK'
      BY <1>0, <1>2, <1>3 DEF IInv, Sound, TypeOK, Comes, Request, Place, SetFeedback, history
    <2>3. QED
      BY <2>1, <2>2, <1>2, SoundStays DEF IInv, Comes
  <1>6. Whole(j)'
    <2> SUFFICES ASSUME j \notin erased \union cut
                 PROVE  Dated(j)' /\ Told(j)' /\ Judged(j)'
      BY <1>4 DEF Whole, SetFeedback, history
    <2>0. Dated(j) /\ Told(j) /\ Judged(j)
      BY <1>0 DEF Whole
    <2>1. Dated(j)'
      BY <2>0, <1>2, <1>4, OthersStay DEF Dated, On, Teaches, At, Of, Comes, SetFeedback
    <2>2. Told(j)'
      BY <2>0, <1>2, <1>4, OthersStay
         DEF Told, InTrail, On, Teaches, At, Of, Comes, SetFeedback
    <2>3. Judged(j)'
      BY <1>2, <1>4 DEF Judged, On, At, Of, Comes
    <2>4. QED
      BY <2>1, <2>2, <2>3
  <1>7. Undisturbed(j)'
    <2> SUFFICES ASSUME j \notin crossed \union erased \union cut
                 PROVE  Consistent(j)' /\ SaveAgrees(j)' /\ VerdictAgrees(j)'
      BY <1>4 DEF Undisturbed, SetFeedback, history
    <2>0. Consistent(j) /\ SaveAgrees(j) /\ VerdictAgrees(j)
      BY <1>0 DEF Undisturbed
    <2>1. \A s \in Requests \ {r} : ~Works(s, j) /\ ~Works(s, j)'
      BY <1>1, <1>4, OthersStay
    <2>2. \A s \in Requests \ {r} :
              /\ \A p \in {"unteach", "others"} : ~On(s, j, p) /\ ~On(s, j, p)'
              /\ \A kinds : ~Teaches(s, j, kinds) /\ ~Teaches(s, j, kinds)'
      BY <2>1, <1>4 DEF Works, On, Teaches, At, Of
    <2>3. Consistent(j)'
      BY <1>0, <1>2, <1>3, <1>4, <2>0, <2>2
         DEF Consistent, On, Teaches, At, Of, Comes, SetFeedback, SoundRequest
    <2>4. SaveAgrees(j)'
      BY <1>0, <1>2, <1>3, <1>4, <2>0, <2>2
         DEF SaveAgrees, Consistent, On, Teaches, At, Of, Comes, SetFeedback, SoundRequest
    <2>5. VerdictAgrees(j)'
      BY <1>2, <1>4 DEF VerdictAgrees, On, At, Of, Comes
    <2>6. QED
      BY <2>3, <2>4, <2>5
  <1>8. QED
    BY <1>0, <1>1, <1>4, <1>5, <1>6, <1>7, AloneStays, Closing

LEMMA OthersKeeps ==
    ASSUME IInv, NEW r \in Requests, DeleteOthers(r)
    PROVE  IInv'
  <1> DEFINE j == Of(r)
  <1>0. j \in Job /\ SoundRequest(req[r]) /\ req[r] \in Request /\ Whole(j) /\ Undisturbed(j)
    BY InHand
  <1>1. Works(r, j) /\ \A s \in Requests \ {r} : j \notin crossed => ~Works(s, j)
    BY <1>0, OnlyOne DEF Works, DeleteOthers, At
  <1>2. Comes(r, "teach", j, req[r].status, req[r].kind, req[r].first)
    BY GotoComes DEF IInv, Place, DeleteOthers
  <1>3. /\ taught' \in [Job -> SUBSET Kind] /\ taught'[j] = taught[j] \ (Verdict \ {req[r].kind})
        /\ \A i \in Job \ {j} : taught'[i] = taught[i]
        /\ req[r].kind \in Verdict
    <2>1. req[r].kind \in Verdict /\ taught \in [Job -> SUBSET Kind]
      BY <1>0 DEF IInv, Sound, TypeOK, DeleteOthers, SoundRequest, At
    <2>2. QED
      BY <1>0, <2>1 DEF DeleteOthers, Kind
  <1>4. StepOn(r, j) /\ Of(r)' = j
    <2>1. /\ \A i \in Job \ {j} : SameRow(i)
          /\ crossed \subseteq crossed' /\ cut \subseteq cut' /\ erased \subseteq erased'
      BY <1>3 DEF SameRow, DeleteOthers, history
    <2>2. QED
      BY <1>2, <2>1, StaysOn DEF IInv
  <1>5. Sound'
    <2>1. SoundRequest(req'[r])
      BY <1>0, <1>2 DEF SoundRequest, Comes, DeleteOthers, At, Request, Place, Kind
    <2>2. TypeOK'
      BY <1>0, <1>2, <1>3 DEF IInv, Sound, TypeOK, Comes, Request, Place, DeleteOthers, history
    <2>3. QED
      BY <2>1, <2>2, <1>2, SoundStays DEF IInv, Comes
  <1>6. Whole(j)'
    <2> SUFFICES ASSUME j \notin erased \union cut
                 PROVE  Dated(j)' /\ Told(j)' /\ Judged(j)'
      BY <1>4 DEF Whole, DeleteOthers, history
    <2>0. Dated(j) /\ Told(j) /\ Judged(j)
      BY <1>0 DEF Whole
    <2>1. Dated(j)'
      BY <2>0, <1>2, <1>4, OthersStay DEF Dated, On, Teaches, At, Of, Comes, DeleteOthers
    <2>2. Told(j)'
      BY <2>0, <1>2, <1>3, <1>4, OthersStay
         DEF Told, InTrail, Verdict, On, Teaches, At, Of, Comes, DeleteOthers
    <2>3. Judged(j)'
      BY <1>2, <1>3, <1>4 DEF Judged, Teaches, On, At, Of, Comes
    <2>4. QED
      BY <2>1, <2>2, <2>3
  <1>7. Undisturbed(j)'
    <2> SUFFICES ASSUME j \notin crossed \union erased \union cut
                 PROVE  Consistent(j)' /\ SaveAgrees(j)' /\ VerdictAgrees(j)'
      BY <1>4 DEF Undisturbed, DeleteOthers, history
    <2>0. Consistent(j) /\ SaveAgrees(j) /\ VerdictAgrees(j)
      BY <1>0 DEF Undisturbed
    <2>1. \A s \in Requests \ {r} : ~Works(s, j) /\ ~Works(s, j)'
      BY <1>1, <1>4, OthersStay
    <2>2. \A s \in Requests \ {r} :
              /\ \A p \in {"unteach", "others"} : ~On(s, j, p) /\ ~On(s, j, p)'
              /\ \A kinds : ~Teaches(s, j, kinds) /\ ~Teaches(s, j, kinds)'
      BY <2>1, <1>4 DEF Works, On, Teaches, At, Of
    <2>3. Consistent(j)'
      BY <1>0, <1>2, <1>3, <1>4, <2>0, <2>2
         DEF Consistent, On, Teaches, At, Of, Comes, DeleteOthers, SoundRequest, Verdict
    <2>4. SaveAgrees(j)'
      BY <1>0, <1>2, <1>3, <1>4, <2>0, <2>2
         DEF SaveAgrees, Consistent, On, Teaches, At, Of, Comes, DeleteOthers, SoundRequest,
             Verdict
    <2>5. VerdictAgrees(j)'
      BY <1>0, <1>2, <1>3, <1>4, <2>0, <2>2
         DEF VerdictAgrees, Consistent, Verdicts, On, Teaches, At, Of, Comes, DeleteOthers,
             SoundRequest, Verdict
    <2>6. QED
      BY <2>3, <2>4, <2>5
  <1>8. QED
    BY <1>0, <1>1, <1>4, <1>5, <1>6, <1>7, AloneStays, Closing

LEMMA UpsertKeeps ==
    ASSUME IInv, NEW r \in Requests, Upsert(r)
    PROVE  IInv'
  <1> DEFINE j == Of(r)
  <1>0. j \in Job /\ SoundRequest(req[r]) /\ req[r] \in Request /\ Whole(j) /\ Undisturbed(j)
    BY InHand
  <1>1. Works(r, j) /\ \A s \in Requests \ {r} : j \notin crossed => ~Works(s, j)
    BY <1>0, OnlyOne DEF Works, Upsert, At
  <1>2. Comes(r, "ended", j, req[r].status, req[r].kind, req[r].first)
    BY GotoComes DEF IInv, Place, Upsert
  <1>3. /\ taught' \in [Job -> SUBSET Kind] /\ taught'[j] = taught[j] \union {req[r].kind}
        /\ \A i \in Job \ {j} : taught'[i] = taught[i]
        /\ req[r].kind \in Kind
    <2>1. req[r].kind \in Kind /\ taught \in [Job -> SUBSET Kind]
      BY <1>0 DEF IInv, Sound, TypeOK, Upsert, SoundRequest, At
    <2>2. QED
      BY <1>0, <2>1 DEF Upsert, Kind
  <1>4. StepOn(r, j) /\ Of(r)' = j
    <2>1. /\ \A i \in Job \ {j} : SameRow(i)
          /\ crossed \subseteq crossed' /\ cut \subseteq cut' /\ erased \subseteq erased'
      BY <1>3 DEF SameRow, Upsert, history
    <2>2. QED
      BY <1>2, <2>1, StaysOn DEF IInv
  <1>5. Sound'
    <2>1. SoundRequest(req'[r])
      BY <1>0, <1>2 DEF SoundRequest, Comes, Upsert, At, Request, Place, Kind
    <2>2. TypeOK'
      BY <1>0, <1>2, <1>3 DEF IInv, Sound, TypeOK, Comes, Request, Place, Upsert, history
    <2>3. QED
      BY <2>1, <2>2, <1>2, SoundStays DEF IInv, Comes
  <1>6. Whole(j)'
    <2> SUFFICES ASSUME j \notin erased \union cut
                 PROVE  Dated(j)' /\ Told(j)' /\ Judged(j)'
      BY <1>4 DEF Whole, Upsert, history
    <2>0. Dated(j) /\ Told(j) /\ Judged(j)
      BY <1>0 DEF Whole
    <2>1. Dated(j)'
      BY <2>0, <1>2, <1>4, OthersStay DEF Dated, On, Teaches, At, Of, Comes, Upsert
    <2>2. Told(j)'
      BY <2>0, <1>2, <1>3, <1>4, OthersStay
         DEF Told, InTrail, On, Teaches, At, Of, Comes, Upsert
    <2>3. Judged(j)'
      BY <2>0, <1>2, <1>3, <1>4, OthersStay
         DEF Judged, Verdicts, On, Teaches, At, Of, Comes, Upsert
    <2>4. QED
      BY <2>1, <2>2, <2>3
  <1>7. Undisturbed(j)'
    <2> SUFFICES ASSUME j \notin crossed \union erased \union cut
                 PROVE  Consistent(j)' /\ SaveAgrees(j)' /\ VerdictAgrees(j)'
      BY <1>4 DEF Undisturbed, Upsert, history
    <2>0. Consistent(j) /\ SaveAgrees(j) /\ VerdictAgrees(j)
      BY <1>0 DEF Undisturbed
    <2>1. \A s \in Requests \ {r} : ~Works(s, j) /\ ~Works(s, j)'
      BY <1>1, <1>4, OthersStay
    <2>2. \A s \in Requests \ {r} :
              /\ \A p \in {"unteach", "others"} : ~On(s, j, p) /\ ~On(s, j, p)'
              /\ \A kinds : ~Teaches(s, j, kinds) /\ ~Teaches(s, j, kinds)'
      BY <2>1, <1>4 DEF Works, On, Teaches, At, Of
    <2>3. Consistent(j)'
      BY <1>0, <1>2, <1>3, <1>4, <2>0, <2>2
         DEF Consistent, On, Teaches, At, Of, Comes, Upsert, SoundRequest, Verdict
    <2>4. SaveAgrees(j)'
      BY <1>0, <1>2, <1>3, <1>4, <2>0, <2>2
         DEF SaveAgrees, Consistent, On, Teaches, At, Of, Comes, Upsert, SoundRequest,
             Verdict
    <2>5. VerdictAgrees(j)'
      BY <1>0, <1>2, <1>3, <1>4, <2>0, <2>2
         DEF VerdictAgrees, Consistent, Verdicts, On, Teaches, At, Of, Comes, Upsert,
             SoundRequest, Verdict
    <2>6. QED
      BY <2>3, <2>4, <2>5
  <1>8. QED
    BY <1>0, <1>1, <1>4, <1>5, <1>6, <1>7, AloneStays, Closing

LEMMA DeleteKeeps ==
    ASSUME IInv, NEW r \in Requests, DeleteKind(r)
    PROVE  IInv'
  <1> DEFINE j == Of(r)
  <1>0. j \in Job /\ SoundRequest(req[r]) /\ req[r] \in Request /\ Whole(j) /\ Undisturbed(j)
    BY InHand
  <1>1. Works(r, j) /\ \A s \in Requests \ {r} : j \notin crossed => ~Works(s, j)
    BY <1>0, OnlyOne DEF Works, DeleteKind, At
  <1>2. Comes(r, "ended", j, req[r].status, req[r].kind, req[r].first)
    BY GotoComes DEF IInv, Place, DeleteKind
  <1>3. /\ taught' \in [Job -> SUBSET Kind] /\ taught'[j] = taught[j] \ {req[r].kind}
        /\ \A i \in Job \ {j} : taught'[i] = taught[i]
        /\ req[r].kind = "SAVE"
    <2>1. req[r].kind = "SAVE" /\ taught \in [Job -> SUBSET Kind]
      BY <1>0 DEF IInv, Sound, TypeOK, DeleteKind, SoundRequest, At
    <2>2. QED
      BY <1>0, <2>1 DEF DeleteKind, Kind
  <1>4. StepOn(r, j) /\ Of(r)' = j
    <2>1. /\ \A i \in Job \ {j} : SameRow(i)
          /\ crossed \subseteq crossed' /\ cut \subseteq cut' /\ erased \subseteq erased'
      BY <1>3 DEF SameRow, DeleteKind, history
    <2>2. QED
      BY <1>2, <2>1, StaysOn DEF IInv
  <1>5. Sound'
    <2>1. SoundRequest(req'[r])
      BY <1>0, <1>2 DEF SoundRequest, Comes, DeleteKind, At, Request, Place, Kind
    <2>2. TypeOK'
      BY <1>0, <1>2, <1>3 DEF IInv, Sound, TypeOK, Comes, Request, Place, DeleteKind, history
    <2>3. QED
      BY <2>1, <2>2, <1>2, SoundStays DEF IInv, Comes
  <1>6. Whole(j)'
    <2> SUFFICES ASSUME j \notin erased \union cut
                 PROVE  Dated(j)' /\ Told(j)' /\ Judged(j)'
      BY <1>4 DEF Whole, DeleteKind, history
    <2>0. Dated(j) /\ Told(j) /\ Judged(j)
      BY <1>0 DEF Whole
    <2>1. Dated(j)'
      BY <2>0, <1>2, <1>4, OthersStay DEF Dated, On, Teaches, At, Of, Comes, DeleteKind
    <2>2. Told(j)'
      BY <2>0, <1>2, <1>3, <1>4, OthersStay
         DEF Told, InTrail, On, Teaches, At, Of, Comes, DeleteKind
    <2>3. Judged(j)'
      BY <2>0, <1>2, <1>3, <1>4, OthersStay
         DEF Judged, Verdicts, Verdict, On, Teaches, At, Of, Comes, DeleteKind
    <2>4. QED
      BY <2>1, <2>2, <2>3
  <1>7. Undisturbed(j)'
    <2> SUFFICES ASSUME j \notin crossed \union erased \union cut
                 PROVE  Consistent(j)' /\ SaveAgrees(j)' /\ VerdictAgrees(j)'
      BY <1>4 DEF Undisturbed, DeleteKind, history
    <2>0. Consistent(j) /\ SaveAgrees(j) /\ VerdictAgrees(j)
      BY <1>0 DEF Undisturbed
    <2>1. \A s \in Requests \ {r} : ~Works(s, j) /\ ~Works(s, j)'
      BY <1>1, <1>4, OthersStay
    <2>2. \A s \in Requests \ {r} :
              /\ \A p \in {"unteach", "others"} : ~On(s, j, p) /\ ~On(s, j, p)'
              /\ \A kinds : ~Teaches(s, j, kinds) /\ ~Teaches(s, j, kinds)'
      BY <2>1, <1>4 DEF Works, On, Teaches, At, Of
    <2>3. Consistent(j)'
      BY <1>0, <1>2, <1>3, <1>4, <2>0, <2>2
         DEF Consistent, On, Teaches, At, Of, Comes, DeleteKind, SoundRequest, Verdict
    <2>4. SaveAgrees(j)'
      BY <1>0, <1>2, <1>3, <1>4, <2>0, <2>2
         DEF SaveAgrees, Consistent, On, Teaches, At, Of, Comes, DeleteKind, SoundRequest,
             Verdict
    <2>5. VerdictAgrees(j)'
      BY <1>0, <1>2, <1>3, <1>4, <2>0, <2>2
         DEF VerdictAgrees, Consistent, Verdicts, On, Teaches, At, Of, Comes, DeleteKind,
             SoundRequest, Verdict
    <2>6. QED
      BY <2>3, <2>4, <2>5
  <1>8. QED
    BY <1>0, <1>1, <1>4, <1>5, <1>6, <1>7, AloneStays, Closing

-------------------------------------------------------------------------------
(* What the user removes by hand; what begins *)

LEMMA ErasesKeeps ==
    ASSUME IInv, NEW r \in Requests, At(r, "idle"), Goto(r, "ended"), TypeOK',
           crossed \subseteq crossed', cut' = cut, erased \subseteq erased',
           \A i \in Job \ erased' : SameRow(i)
    PROVE  IInv'
  <1>0. Of(r) \in Job /\ SoundRequest(req[r]) /\ req[r] \in Request
    BY InHand
  <1>1. Comes(r, "ended", Of(r), req[r].status, req[r].kind, req[r].first)
    BY GotoComes DEF IInv, Place
  <1>2. Sound'
    <2>1. SoundRequest(req'[r])
      BY <1>0, <1>1 DEF SoundRequest, Comes, Request, Place
    <2>2. QED
      BY <1>1, <2>1, SoundStays DEF IInv, Comes
  <1>3. \A i \in Job : ~Works(r, i) /\ ~Works(r, i)'
    BY <1>1 DEF Works, At, Comes
  <1>4. ASSUME NEW i \in erased'
        PROVE  Whole(i)' /\ Undisturbed(i)'
    BY DEF Whole, Undisturbed
  <1>5. ASSUME NEW i \in Job
        PROVE  Alone(i)'
    <2>1. \A s \in Requests : Works(s, i)' => Works(s, i)
      BY <1>1, <1>3 DEF Comes, Works, Of
    <2>2. QED
      BY <2>1 DEF IInv, Alone
  <1>6. ASSUME NEW i \in Job \ erased'
        PROVE  Whole(i)' /\ Undisturbed(i)'
    <2>1. /\ Whole(i) /\ Undisturbed(i) /\ SameRow(i) /\ i \notin erased
      BY DEF IInv
    <2>2. \A s \in Requests, place \in Place \ {"idle", "ended"} :
              On(s, i, place)' = On(s, i, place)
      BY <1>1, <1>3 DEF Comes, Works, On, At, Of, Place
    <2>3. \A s \in Requests, place \in Place \ {"idle", "ended"} :
              On(s, i, place) => req'[s] = req[s]
      BY <1>1, <1>3 DEF Comes, Works, On, At, Of, Place
    <2>4. \A s \in Requests : Teaches(s, i, Verdict)' = Teaches(s, i, Verdict)
              /\ Teaches(s, i, {"SAVE"})' = Teaches(s, i, {"SAVE"})
              /\ Teaches(s, i, {"APPLY"})' = Teaches(s, i, {"APPLY"})
      BY <2>2, <2>3 DEF Teaches, Place
    <2>5. Whole(i)'
      <3>1. Dated(i) => Dated(i)'
        BY <2>1, <2>2, <2>3 DEF Dated, SameRow, Place
      <3>2. Told(i) => Told(i)'
        BY <2>1, <2>2, <2>3, <2>4 DEF Told, SameRow, Place, InTrail
      <3>3. Judged(i) => Judged(i)'
        BY <2>1, <2>2, <2>4 DEF Judged, SameRow, Place, Verdicts
      <3>4. QED
        BY <2>1, <3>1, <3>2, <3>3 DEF Whole
    <2>6. Undisturbed(i)'
      <3>1. Consistent(i) => Consistent(i)'
        BY <2>1, <2>2, <2>3, <2>4 DEF Consistent, SameRow, Place, Teaches
      <3>2. SaveAgrees(i) => SaveAgrees(i)'
        BY <2>1, <2>2, <2>4 DEF SaveAgrees, SameRow, Place
      <3>3. VerdictAgrees(i) => VerdictAgrees(i)'
        BY <2>1, <2>2, <2>4 DEF VerdictAgrees, SameRow, Place, Verdicts
      <3>4. QED
        BY <2>1, <3>1, <3>2, <3>3 DEF Undisturbed
    <2>7. QED
      BY <2>5, <2>6
  <1>7. QED
    BY <1>2, <1>4, <1>5, <1>6 DEF IInv

LEMMA EndComesTyped ==
    ASSUME IInv, NEW r \in Requests, Goto(r, "ended")
    PROVE  req' \in [Requests -> Request]
  BY GotoComes DEF IInv, Place, Comes

LEMMA ByHandKeeps ==
    ASSUME IInv, NEW r \in Requests,
           \/ Reset(r)
           \/ \E j \in Job : \/ \E dated \in BOOLEAN : EnterDate(r, j, dated)
                             \/ \E k \in Kind : RemoveSignal(r, j, k)
    PROVE  IInv'
  <1>1. CASE Reset(r)
    <2>1. TypeOK'
      BY <1>1, EndComesTyped DEF Reset, IInv, Sound, TypeOK, Request, Place
    <2>2. QED
      BY <1>1, <2>1, ErasesKeeps DEF Reset, IInv, Sound, TypeOK
  <1>2. ASSUME NEW j \in Job, NEW dated \in BOOLEAN, EnterDate(r, j, dated)
        PROVE  IInv'
    <2>1. /\ app' \in [Job -> [status : Status \union {"none"}, dated : BOOLEAN]]
          /\ \A i \in Job \ {j} : app'[i] = app[i]
      <3>1. app \in [Job -> [status : Status \union {"none"}, dated : BOOLEAN]]
        BY DEF IInv, Sound, TypeOK
      <3>2. QED
        BY <1>2, <3>1 DEF EnterDate
    <2>2. TypeOK'
      BY <1>2, <2>1, EndComesTyped DEF EnterDate, IInv, Sound, TypeOK, Request, Place
    <2>3. \A i \in Job \ erased' : SameRow(i)
      BY <1>2, <2>1 DEF EnterDate, SameRow
    <2>4. QED
      BY <1>2, <2>2, <2>3, ErasesKeeps DEF EnterDate
  <1>3. ASSUME NEW j \in Job, NEW k \in Kind, RemoveSignal(r, j, k)
        PROVE  IInv'
    <2>1. /\ taught' \in [Job -> SUBSET Kind]
          /\ \A i \in Job \ {j} : taught'[i] = taught[i]
      BY <1>3 DEF RemoveSignal, IInv, Sound, TypeOK
    <2>2. TypeOK'
      BY <1>3, <2>1, EndComesTyped DEF RemoveSignal, IInv, Sound, TypeOK, Request, Place
    <2>3. \A i \in Job \ erased' : SameRow(i)
      BY <1>3, <2>1 DEF RemoveSignal, SameRow
    <2>4. QED
      BY <1>3, <2>2, <2>3, ErasesKeeps DEF RemoveSignal
  <1>4. QED
    BY <1>1, <1>2, <1>3

LEMMA BeginKeeps ==
    ASSUME IInv, NEW r \in Requests, NEW place \in Place, NEW j \in Job,
           NEW status \in Status \union {"none"}, NEW kind \in Kind \union {"none"},
           Begin(r, place, j, status, kind),
           SoundRequest([at |-> place, job |-> j, status |-> status, kind |-> kind,
                         first |-> FALSE]),
           place \in {"create", "find", "save", "unsave", "feedback", "teach"},
           place = "teach" => kind \in Hide
    PROVE  IInv'
  <1>1. Comes(r, place, j, status, kind, FALSE)
    BY DEF Begin, Comes, IInv, Sound, TypeOK, Request, Place
  <1>2. StepOn(r, j)
    BY <1>1 DEF StepOn, Begin, Comes, Works, At, Of, SameRow
  <1>3. Sound'
    <2>1. TypeOK'
      BY <1>1 DEF Begin, IInv, Sound, TypeOK, Comes, Request, Place
    <2>2. QED
      BY <1>1, <2>1, SoundStays DEF IInv, Comes
  <1>4. /\ \A p \in {"stamp", "update", "event", "others", "unteach"} :
               ~On(r, j, p) /\ ~On(r, j, p)'
        /\ \A kinds \in SUBSET (Kind \ Hide) : ~Teaches(r, j, kinds) /\ ~Teaches(r, j, kinds)'
    BY <1>1 DEF On, Teaches, At, Comes, Begin
  <1>5. {"SAVE"} \in SUBSET (Kind \ Hide) /\ {"APPLY"} \in SUBSET (Kind \ Hide)
        /\ Verdict \in SUBSET (Kind \ Hide)
    BY DEF Kind, Hide, Verdict
  <1>6. Alone(j)'
    <2>1. j \notin crossed' => \A s \in Requests : ~Works(s, j)
      BY DEF Begin, Busy, Works, Of
    <2>2. QED
      BY <1>2, <2>1, OthersStay DEF Alone
  <1>7. Whole(j)'
    <2>1. Dated(j) => Dated(j)'
      BY <1>2, <1>4, OthersStay DEF Dated, Begin
    <2>2. Told(j) => Told(j)'
      BY <1>2, <1>4, <1>5, OthersStay DEF Told, Begin, InTrail
    <2>3. Judged(j) => Judged(j)'
      BY <1>2, <1>4, <1>5, OthersStay DEF Judged, Begin, Verdicts
    <2>4. QED
      BY <2>1, <2>2, <2>3 DEF IInv, Whole, Begin
  <1>8. Undisturbed(j)'
    <2>1. Consistent(j) => Consistent(j)'
      BY <1>2, <1>4, <1>5, OthersStay DEF Consistent, Begin
    <2>2. SaveAgrees(j) => SaveAgrees(j)'
      BY <1>2, <1>4, <1>5, OthersStay DEF SaveAgrees, Begin
    <2>3. VerdictAgrees(j) => VerdictAgrees(j)'
      BY <1>2, <1>4, <1>5, OthersStay DEF VerdictAgrees, Begin, Verdicts
    <2>4. QED
      BY <1>2, <2>1, <2>2, <2>3 DEF IInv, Undisturbed, Begin, StepOn
  <1>9. QED
    BY <1>2, <1>3, <1>6, <1>7, <1>8, Closing

LEMMA BeginningKeeps ==
    ASSUME IInv, NEW r \in Requests, NEW j \in Job,
           \/ \E s \in Status : BeginTrack(r, j, s) \/ BeginStatus(r, j, s)
           \/ \E k \in Verdict : BeginFeedback(r, j, k)
           \/ \E k \in Hide : BeginHide(r, j, k)
           \/ BeginSave(r, j) \/ BeginUnsave(r, j)
    PROVE  IInv'
  <1> DEFINE Asks(place, status, kind) == [at |-> place, job |-> j, status |-> status,
                                           kind |-> kind, first |-> FALSE]
  <1>1. ASSUME NEW s \in Status, NEW place \in {"create", "find"}, Begin(r, place, j, s, "none")
        PROVE  IInv'
    <2>1. SoundRequest(Asks(place, s, "none"))
      BY DEF SoundRequest, Request, Place
    <2>2. QED
      BY <1>1, <2>1, BeginKeeps DEF Place
  <1>2. ASSUME NEW k \in Verdict, Begin(r, "feedback", j, "none", k)
        PROVE  IInv'
    <2>1. SoundRequest(Asks("feedback", "none", k)) /\ k \in Kind
      BY DEF SoundRequest, Request, Place, Kind
    <2>2. QED
      BY <1>2, <2>1, BeginKeeps DEF Place
  <1>3. ASSUME NEW k \in Hide, Begin(r, "teach", j, "none", k)
        PROVE  IInv'
    <2>1. SoundRequest(Asks("teach", "none", k)) /\ k \in Kind
      BY DEF SoundRequest, Request, Place, Kind
    <2>2. QED
      BY <1>3, <2>1, BeginKeeps DEF Place
  <1>4. ASSUME NEW place \in {"save", "unsave"}, Begin(r, place, j, "none", "SAVE")
        PROVE  IInv'
    <2>1. SoundRequest(Asks(place, "none", "SAVE")) /\ "SAVE" \in Kind
      BY DEF SoundRequest, Request, Place, Kind
    <2>2. QED
      BY <1>4, <2>1, BeginKeeps DEF Place
  <1>5. QED
    BY <1>1, <1>2, <1>3, <1>4
       DEF BeginTrack, BeginStatus, BeginFeedback, BeginHide, BeginSave, BeginUnsave

-------------------------------------------------------------------------------
(* The invariant and what follows from it *)

LEMMA InitEstablishes == Init => IInv
  <1> SUFFICES ASSUME Init PROVE IInv
    OBVIOUS
  <1>1. Waiting \in Request /\ SoundRequest(Waiting) /\ Waiting.at = "idle"
    BY DEF Waiting, Request, Place, SoundRequest
  <1>2. TypeOK
    <2>1. req \in [Requests -> Request] /\ trail \in [Job -> Seq(Status)]
      BY <1>1 DEF Init
    <2>2. QED
      BY <2>1 DEF Init, TypeOK, NoApp, Request, Place
  <1>3. Sound
    BY <1>1, <1>2 DEF Sound, Init
  <1>4. \A r \in Requests, j \in Job :
            /\ ~Works(r, j) /\ \A kinds : ~Teaches(r, j, kinds)
            /\ \A place \in Place \ {"idle", "ended"} : ~On(r, j, place)
    BY <1>1 DEF Init, Works, On, Teaches, At, Place
  <1>5. ASSUME NEW j \in Job
        PROVE  Whole(j) /\ Alone(j) /\ Undisturbed(j)
    <2>1. Whole(j)
      BY <1>4, "none" # "APPLIED" DEF Whole, Dated, Told, Judged, Init, NoApp, Place
    <2>2. Alone(j)
      BY <1>4 DEF Alone
    <2>3. Undisturbed(j)
      BY <1>4 DEF Undisturbed, Consistent, SaveAgrees, VerdictAgrees, Verdicts, Init, Place
    <2>4. QED
      BY <2>1, <2>2, <2>3
  <1>6. QED
    BY <1>3, <1>5 DEF IInv

LEMMA StepKeeps == IInv /\ [Next]_vars => IInv'
  <1> SUFFICES ASSUME IInv, [Next]_vars PROVE IInv'
    OBVIOUS
  <1>1. CASE UNCHANGED vars
    <2>1. UNCHANGED vars
      BY <1>1
    <2>2. Sound'
      BY <2>1 DEF vars, IInv, Sound, TypeOK, SoundRequest
    <2>3. ASSUME NEW r \in Requests, NEW j
          PROVE  /\ Works(r, j)' = Works(r, j) /\ req'[r] = req[r]
                 /\ \A place : On(r, j, place)' = On(r, j, place)
                 /\ \A kinds : Teaches(r, j, kinds)' = Teaches(r, j, kinds)
      BY <2>1 DEF vars, Works, On, Teaches, At, Of
    <2>4. ASSUME NEW j \in Job
          PROVE  Whole(j)' /\ Alone(j)' /\ Undisturbed(j)'
      <3>1. Dated(j) => Dated(j)'
        BY <2>1, <2>3 DEF vars, Dated
      <3>2. Told(j) => Told(j)'
        <4>1. app' = app /\ taught' = taught /\ (InTrail(j) <=> InTrail(j)')
          BY <2>1 DEF vars, InTrail
        <4>2. QED
          BY <2>3, <4>1, ZenonT(30) DEF Told
      <3>3. Judged(j) => Judged(j)'
        BY <2>1, <2>3 DEF vars, Judged, Verdicts
      <3>4. Consistent(j) => Consistent(j)'
        BY <2>1, <2>3 DEF vars, Consistent
      <3>5. SaveAgrees(j) => SaveAgrees(j)'
        BY <2>1, <2>3 DEF vars, SaveAgrees
      <3>6. VerdictAgrees(j) => VerdictAgrees(j)'
        BY <2>1, <2>3 DEF vars, VerdictAgrees, Verdicts
      <3>7. Alone(j)'
        BY <2>1, <2>3 DEF vars, Alone, IInv
      <3>8. QED
        BY <2>1, <3>1, <3>2, <3>3, <3>4, <3>5, <3>6, <3>7 DEF vars, IInv, Whole, Undisturbed
    <2>5. QED
      BY <2>2, <2>4 DEF IInv
  <1>2. ASSUME NEW r \in Requests, Step(r)
        PROVE  IInv'
    BY <1>2, CreateKeeps, StampKeeps, FindKeeps, UpdateKeeps, EventKeeps, SaveKeeps,
       UnsaveKeeps, FeedbackKeeps, OthersKeeps, UpsertKeeps, DeleteKeeps, ByHandKeeps,
       StopKeeps DEF Step
  <1>3. QED
    BY <1>1, <1>2, BeginningKeeps, ByHandKeeps DEF Next

\* Every variable keeps its type.
THEOREM ActivityTyped == Spec => []TypeOK
  <1>1. IInv => TypeOK
    BY DEF IInv, Sound
  <1>2. QED
    BY InitEstablishes, StepKeeps, <1>1, PTL DEF Spec

\* What is learned agrees with what the user did unless requests crossed, were
\* cut or the user removed it by hand (preference_signal_service.py:31).
THEOREM TaughtMatchesFactsHolds == Spec => []TaughtMatchesFacts
  <1>1. IInv => TaughtMatchesFacts
    <2> SUFFICES ASSUME IInv, NEW j \in Job, Settled(j), j \notin crossed \union erased
                 PROVE  /\ ("SAVE" \in taught[j]) <=> (j \in saved)
                        /\ Verdicts(j) = {opinion[j]} \ {"none"}
      BY DEF TaughtMatchesFacts
    <2>1. \A r \in Requests : ~On(r, j, "unteach") /\ ~On(r, j, "others")
              /\ \A kinds : ~Teaches(r, j, kinds)
      BY DEF Settled, Busy, On, Teaches, At, Of
    <2>2. SaveAgrees(j) /\ VerdictAgrees(j)
      BY DEF IInv, Undisturbed, Settled
    <2>3. QED
      BY <2>1, <2>2 DEF SaveAgrees, VerdictAgrees
  <1>2. QED
    BY InitEstablishes, StepKeeps, <1>1, PTL DEF Spec

\* A judged job keeps a verdict, whatever overlaps
\* (preference_signal_service.py:180-189).
THEOREM VerdictSurvivesAlways == Spec => []VerdictSurvives
  <1>1. IInv => VerdictSurvives
    <2> SUFFICES ASSUME IInv, NEW j \in Job, Settled(j), j \notin erased, opinion[j] # "none"
                 PROVE  Verdicts(j) # {}
      BY DEF VerdictSurvives
    <2>1. \A r \in Requests : ~On(r, j, "others") /\ \A kinds : ~Teaches(r, j, kinds)
      BY DEF Settled, Busy, On, Teaches, At, Of
    <2>2. QED
      BY <2>1 DEF IInv, Whole, Judged, Settled
  <1>2. QED
    BY InitEstablishes, StepKeeps, <1>1, PTL DEF Spec

\* An APPLIED application is dated, taught and told, whatever overlaps
\* (application_service.py:41-52, 79-98).
THEOREM AppliedIsDatedAndTaughtHolds == Spec => []AppliedIsDatedAndTaught
  <1>1. IInv => AppliedIsDatedAndTaught
    <2> SUFFICES ASSUME IInv, NEW j \in Job, Settled(j), j \notin erased,
                        app[j].status = "APPLIED"
                 PROVE  app[j].dated /\ "APPLY" \in taught[j] /\ InTrail(j)
      BY DEF AppliedIsDatedAndTaught, InTrail
    <2>1. \A r \in Requests : ~On(r, j, "stamp") /\ ~On(r, j, "event")
              /\ \A kinds : ~Teaches(r, j, kinds)
      BY DEF Settled, Busy, On, Teaches, At, Of
    <2>2. Dated(j) /\ Told(j)
      BY DEF IInv, Whole, Settled
    <2>3. QED
      BY <2>1, <2>2 DEF Dated, Told
  <1>2. QED
    BY InitEstablishes, StepKeeps, <1>1, PTL DEF Spec

\* Only the step of its own part moves what an application, a signal or a saved
\* job is in.
LEMMA ActivityInside == UserSpec => Spec
  <1>1. UserInit => Init
    BY DEF UserInit
  <1>2. [UserNext]_<<vars, documents, sessions, part>> => [Next]_vars
    BY DEF UserNext
  <1>3. QED
    BY <1>1, <1>2, PTL DEF UserSpec, Spec

-------------------------------------------------------------------------------
(* Documents: the inductive invariant *)

DocPlace == {"idle", "create", "store", "insert", "look", "select", "unlink", "delete",
             "files", "analyse", "job", "cached", "gap", "context", "draft", "answer", "ended"}

DocRequest ==
    [at : DocPlace, resume : D!Id \union {D!None}, version : D!Id \union {D!None},
     text : Text \union {D!None}, number : Nat, force : BOOLEAN, paths : SUBSET D!Id,
     kinds : SUBSET Section, result : {"none", "written", "refused"}, read : Nat, job : Nat]

Version == [resume : D!Id \union {D!None}, number : Nat, text : Text \union {D!None}, analysed : Nat]
Gap == [resume : Nat, job : Nat, at : Nat, late : BOOLEAN]
Draft == [generated : BOOLEAN, edited : BOOLEAN, version : D!Id \union {D!None},
          source : D!Id \union {D!None}]

DocTyped ==
    /\ versions \in [D!Id -> Version]
    /\ files \in SUBSET D!Id
    /\ gaps \in [D!Id -> Gap]
    /\ drafts \in [Section -> Draft]
    /\ docReq \in [Requests -> DocRequest]
    /\ clock \in Nat /\ jobAt \in Nat /\ selected \in D!Id \union {D!None}

\* The request has not come to insert its version.
NotYet(v) == v \in Requests /\ docReq[v].at \in {"idle", "create", "store", "insert"}

\* A request that uploads has stored its file when it inserts the row; one that
\* deletes has listed versions of the resume, which are gone when it turns to
\* their files.
DocRequestOK(r) ==
    /\ NotYet(r) => ~D!Exists(r)
    /\ D!At(r, "create") => docReq[r].resume = r
    /\ docReq[r].at \in {"create", "store", "insert"} => docReq[r].resume \in D!Id /\ docReq[r].number >= 1
    /\ D!At(r, "insert") => r \in files
    /\ D!At(r, "unlink") => ~D!Exists(r) \/ r \in unsure
    /\ docReq[r].paths # {} => docReq[r].at \in {"delete", "files", "ended"}
    /\ docReq[r].at \in {"delete", "files"} =>
         \A v \in docReq[r].paths : ~NotYet(v) /\ (D!Exists(v) => versions[v].resume = docReq[r].resume)
    /\ D!At(r, "delete") => docReq[r].resume \in D!Id
    /\ D!At(r, "files") => \A v \in docReq[r].paths : ~D!Exists(v)
    /\ docReq[r].at \in {"analyse", "job", "cached", "gap"} => docReq[r].version \in D!Id

VersionOK(v) ==
    /\ D!Exists(v) => versions[v].resume \in D!Id /\ versions[v].number >= 1
    /\ versions[v].analysed <= clock

FileOK(v) ==
    /\ D!Exists(v) => v \in files \union unsure
    /\ v \in files => \/ D!Exists(v) \/ v \in orphaned
                      \/ v \in Requests /\ docReq[v].at \in {"insert", "unlink"}
                      \/ \E r \in Requests : D!Busy(r) /\ v \in docReq[r].paths

\* A gap that was not late when it was written is made from the present
\* analyses, or one of them has been written since.
GapOK(v) ==
    /\ gaps[v].at <= clock
    /\ gaps[v] # D!NoGap => D!Exists(v)
    /\ gaps[v] # D!NoGap /\ ~gaps[v].late =>
         /\ gaps[v].resume = versions[v].analysed \/ versions[v].analysed > gaps[v].at
         /\ gaps[v].job = jobAt \/ jobAt > gaps[v].at

DraftOK(k) ==
    drafts[k].generated =>
        /\ ~NotYet(drafts[k].source)
        /\ \/ drafts[k].version = drafts[k].source
           \/ drafts[k].version = D!None /\ drafts[k].source # D!None /\ ~D!Exists(drafts[k].source)

NumbersBounded == \E n \in Nat : \A v \in D!Id : versions[v].number <= n

DocInv ==
    /\ DocTyped /\ jobAt <= clock /\ NumbersBounded
    /\ \A r \in Requests : DocRequestOK(r)
    /\ \A v \in D!Id : VersionOK(v) /\ FileOK(v) /\ GapOK(v)
    /\ \A k \in Section : DraftOK(k)

-------------------------------------------------------------------------------
(* Versions *)

LEMMA DocFacts ==
    ASSUME DocInv
    PROVE  /\ Requests \subseteq D!Id /\ First \in D!Id /\ D!None \notin D!Id
           /\ D!NoVersion \in Version /\ D!NoVersion.resume = D!None /\ D!NoVersion.number = 0
           /\ D!NoVersion.analysed = 0
           /\ \A v \in D!Id : versions[v] \in Version /\ (D!Exists(v) <=> versions[v].resume \in D!Id)
           /\ \A r \in Requests : docReq[r] \in DocRequest
  <1>1. Requests \subseteq D!Id /\ First \in D!Id /\ D!None \notin D!Id
    BY UserDataAssumption DEF D!Id, D!None
  <1>2. D!NoVersion \in Version /\ D!NoVersion.resume = D!None /\ D!NoVersion.number = 0
        /\ D!NoVersion.analysed = 0
    BY DEF D!NoVersion, Version
  <1>3. ASSUME NEW v \in D!Id
        PROVE  versions[v] \in Version /\ (D!Exists(v) <=> versions[v].resume \in D!Id)
    <2>1. versions[v] \in Version /\ VersionOK(v)
      BY DEF DocInv, DocTyped
    <2>2. QED
      BY <1>1, <1>2, <2>1 DEF VersionOK, D!Exists
  <1>4. \A r \in Requests : docReq[r] \in DocRequest
    BY DEF DocInv, DocTyped
  <1>5. QED
    BY <1>1, <1>2, <1>3, <1>4

\* The latest version of a resume is one of its versions.
LEMMA LatestIn ==
    ASSUME DocTyped, NumbersBounded, NEW q \in D!Id
    PROVE  /\ D!Latest(q) \in D!Id \union {D!None}
           /\ D!Latest(q) # D!None => versions[D!Latest(q)].resume = q
  <1>1. CASE D!VersionsOf(q) = {}
    BY <1>1 DEF D!Latest
  <1>2. CASE D!VersionsOf(q) # {}
    <2> DEFINE Numbers == {versions[v].number : v \in D!VersionsOf(q)}
               Slacks(n) == {n - m : m \in Numbers}
    <2>1. PICK n \in Nat : \A v \in D!Id : versions[v].number <= n
      BY DEF NumbersBounded
    <2>2. \A v \in D!VersionsOf(q) : versions[v].number \in Nat /\ versions[v].number <= n
      BY <2>1 DEF D!VersionsOf, DocTyped, Version
    <2>3. Slacks(n) \subseteq Nat /\ Slacks(n) # {}
      BY <1>2, <2>2
    <2>4. PICK least \in Slacks(n) : \A x \in Slacks(n) : ~(x < least)
      <3>1. \E x \in Slacks(n) : \A y \in Slacks(n) : ~(<<y, x>> \in OpToRel(<, Nat))
        BY <2>3, NatLessThanWellFounded, WFMin
      <3>2. QED
        BY <2>3, <3>1 DEF OpToRel
    <2>5. PICK v \in D!VersionsOf(q) : least = n - versions[v].number
      BY <2>4
    <2>6. \A w \in D!VersionsOf(q) : versions[w].number <= versions[v].number
      <3> TAKE w \in D!VersionsOf(q)
      <3>1. n - versions[w].number \in Slacks(n)
        OBVIOUS
      <3>2. ~(n - versions[w].number < n - versions[v].number)
        BY <2>4, <2>5, <3>1
      <3>3. QED
        BY <2>2, <3>2
    <2>7. D!Latest(q) \in D!VersionsOf(q)
      BY <1>2, <2>6 DEF D!Latest
    <2>8. QED
      BY <2>7 DEF D!VersionsOf
  <1>3. QED
    BY <1>1, <1>2

-------------------------------------------------------------------------------
(* What a step of one request leaves alone *)

DocOnly(r) ==
    /\ docReq' \in [Requests -> DocRequest]
    /\ \A s \in Requests \ {r} : docReq'[s] = docReq[s]

DocComes(r, place) ==
    /\ DocOnly(r)
    /\ docReq'[r] = D!Moved(r, place)
    /\ docReq'[r].at = place
    /\ place # "ended" => docReq'[r] = [docReq[r] EXCEPT !.at = place]
    /\ place = "ended" => docReq'[r].paths = {}

LEMMA DocGoto ==
    ASSUME DocTyped, NEW r \in Requests, NEW place \in DocPlace, D!Goto(r, place)
    PROVE  DocComes(r, place)
  <1>1. docReq \in [Requests -> DocRequest] /\ docReq[r] \in DocRequest
    BY DEF DocTyped
  <1>2. /\ place # "ended" => D!Moved(r, place) = [docReq[r] EXCEPT !.at = place]
        /\ place = "ended" => D!Moved(r, place) = [D!Waiting EXCEPT !.at = place]
    BY DEF D!Moved
  <1>3. D!Moved(r, place) \in DocRequest /\ D!Moved(r, place).at = place
    <2>1. [docReq[r] EXCEPT !.at = place] \in DocRequest /\ [docReq[r] EXCEPT !.at = place].at = place
      BY <1>1 DEF DocRequest
    <2>2. [D!Waiting EXCEPT !.at = place] \in DocRequest /\ [D!Waiting EXCEPT !.at = place].at = place
      BY DEF D!Waiting, DocRequest, DocPlace
    <2>3. QED
      BY <1>2, <2>1, <2>2
  <1>4. place = "ended" => D!Moved(r, place).paths = {}
    BY <1>2 DEF D!Waiting
  <1>5. docReq' = [docReq EXCEPT ![r] = D!Moved(r, place)]
    BY DEF D!Goto
  <1> HIDE DEF D!Moved
  <1>6. QED
    BY <1>1, <1>2, <1>3, <1>4, <1>5 DEF DocComes, DocOnly

\* A request that does not move can be disturbed only by a version that comes
\* without its request inserting it, and by the loss of a file it has stored.
LEMMA DocOthers ==
    ASSUME DocInv, NEW r \in Requests, DocOnly(r),
           NotYet(r)' => NotYet(r),
           \A v \in D!Id : D!Exists(v)' => \/ D!Exists(v) /\ versions'[v].resume = versions[v].resume
                                           \/ v = r /\ D!At(r, "insert"),
           \A v \in Requests \ {r} : v \in files /\ NotYet(v) => v \in files',
           unsure \subseteq unsure'
    PROVE  \A s \in Requests \ {r} : DocRequestOK(s)'
  <1> TAKE s \in Requests \ {r}
  <1>1. DocRequestOK(s) /\ docReq'[s] = docReq[s] /\ s \in D!Id /\ s # r /\ docReq[s] \in DocRequest
    BY DocFacts DEF DocInv, DocOnly
  <1>2. \A v : NotYet(v)' => NotYet(v)
    BY DEF DocOnly, NotYet
  <1>3. (NotYet(s) => ~D!Exists(s))'
    BY <1>1, <1>2 DEF DocRequestOK
  <1>4. (D!At(s, "insert") => s \in files)'
    BY <1>1 DEF DocRequestOK, D!At, NotYet
  <1>5. (D!At(s, "unlink") => ~D!Exists(s) \/ s \in unsure)'
    BY <1>1 DEF DocRequestOK, D!At
  <1>6. D!At(r, "insert") => NotYet(r)
    BY DEF D!At, NotYet
  <1>7. (docReq[s].at \in {"delete", "files"} =>
          \A v \in docReq[s].paths : ~NotYet(v) /\ (D!Exists(v) => versions[v].resume = docReq[s].resume))'
    BY <1>1, <1>2, <1>6 DEF DocRequestOK, DocRequest
  <1>8. (D!At(s, "files") => \A v \in docReq[s].paths : ~D!Exists(v))'
    BY <1>1, <1>6 DEF DocRequestOK, DocRequest, D!At
  <1>9. QED
    BY <1>1, <1>3, <1>4, <1>5, <1>7, <1>8 DEF DocRequestOK, D!At

\* The requests whose going on keeps a file in its place.
Keeps(r) == docReq[r].at \in {"insert", "unlink", "delete", "files"}

LEMMA DocFilesStay ==
    ASSUME DocInv, NEW r \in Requests, DocOnly(r), ~Keeps(r), files' = files,
           \A v \in D!Id : D!Exists(v)' = D!Exists(v),
           unsure \subseteq unsure', orphaned \subseteq orphaned'
    PROVE  \A v \in D!Id : FileOK(v)'
  <1> TAKE v \in D!Id
  <1>1. FileOK(v) /\ DocRequestOK(r)
    BY DEF DocInv
  <1>2. \A s \in Requests : D!Busy(s) /\ v \in docReq[s].paths => s # r
    BY <1>1 DEF DocRequestOK, Keeps, D!Busy
  <1>3. (\E s \in Requests : D!Busy(s) /\ v \in docReq[s].paths) =>
        (\E s \in Requests : D!Busy(s) /\ v \in docReq[s].paths)'
    BY <1>2 DEF DocOnly, D!Busy
  <1>4. v \in Requests /\ docReq[v].at \in {"insert", "unlink"} =>
        (v \in Requests /\ docReq[v].at \in {"insert", "unlink"})'
    BY DEF DocOnly, Keeps
  <1>5. QED
    BY <1>1, <1>3, <1>4 DEF FileOK

\* A source that is not about to be inserted stays what it is.
LEMMA DocDraftsStay ==
    ASSUME DocInv, NEW r \in Requests, DocOnly(r), NotYet(r)' => NotYet(r),
           NEW k \in Section, drafts'[k].generated = drafts[k].generated,
           drafts'[k].version = drafts[k].version, drafts'[k].source = drafts[k].source,
           \A v \in D!Id : D!Exists(v)' => D!Exists(v) \/ (v = r /\ D!At(r, "insert"))
    PROVE  DraftOK(k)'
  <1>1. DraftOK(k) /\ drafts[k].source \in D!Id \union {D!None}
    BY DEF DocInv, DocTyped, Draft
  <1>2. \A v : NotYet(v)' => NotYet(v)
    BY DEF DocOnly, NotYet
  <1>3. D!At(r, "insert") => NotYet(r)
    BY DEF D!At, NotYet
  <1>4. QED
    BY <1>1, <1>2, <1>3 DEF DraftOK

-------------------------------------------------------------------------------
(* Steps of one request that change nothing else *)

LEMMA DocQuiet ==
    ASSUME DocInv, NEW r \in Requests, DocOnly(r), ~Keeps(r), NotYet(r)' => NotYet(r),
           DocRequestOK(r)', UNCHANGED <<D!rowsOfResumes, D!derived>>
    PROVE  DocInv'
  <1>1. versions' = versions /\ files' = files /\ unsure' = unsure /\ orphaned' = orphaned
        /\ gaps' = gaps /\ drafts' = drafts /\ jobAt' = jobAt /\ clock' = clock
    BY DEF D!rowsOfResumes, D!derived
  <1>2. DocTyped'
    BY <1>1 DEF DocInv, DocTyped, DocOnly, D!rowsOfResumes
  <1>3. (jobAt <= clock)' /\ NumbersBounded' /\ \A v \in D!Id : VersionOK(v)' /\ GapOK(v)'
    BY <1>1 DEF DocInv, NumbersBounded, VersionOK, GapOK, D!Exists
  <1>4. \A v \in D!Id : D!Exists(v)' = D!Exists(v)
    BY <1>1 DEF D!Exists
  <1>5. \A s \in Requests : DocRequestOK(s)'
    BY <1>1, <1>4, DocOthers
  <1>6. \A v \in D!Id : FileOK(v)'
    BY <1>1, <1>4, DocFilesStay
  <1>7. ASSUME NEW k \in Section PROVE DraftOK(k)'
    <2>1. drafts'[k].generated = drafts[k].generated /\ drafts'[k].version = drafts[k].version
          /\ drafts'[k].source = drafts[k].source
      BY <1>1
    <2>2. \A v \in D!Id : D!Exists(v)' => D!Exists(v) \/ (v = r /\ D!At(r, "insert"))
      BY <1>4
    <2>3. QED
      BY <2>1, <2>2, DocDraftsStay
  <1>8. QED
    BY <1>2, <1>3, <1>5, <1>6, <1>7 DEF DocInv

LEMMA DocBegins ==
    ASSUME DocInv, NEW r \in Requests, NEW record \in DocRequest, D!Begin(r, record),
           record.at \in {"create", "store", "select", "delete", "analyse", "job", "context",
                          "answer"},
           record.at = "create" => record.resume = r,
           record.at \in {"create", "store"} => record.resume \in D!Id /\ record.number >= 1,
           record.paths # {} => record.at = "delete",
           record.at = "delete" => /\ record.resume \in D!Id
                                   /\ \A v \in record.paths :
                                         D!Exists(v) /\ versions[v].resume = record.resume,
           record.at \in {"analyse", "job"} => record.version \in D!Id
    PROVE  DocInv'
  <1>1. DocOnly(r) /\ docReq'[r] = record
    BY DEF DocInv, DocTyped, D!Begin, DocOnly
  <1>2. ~Keeps(r) /\ NotYet(r)
    BY DEF D!Begin, D!At, Keeps, NotYet
  <1>3. versions' = versions
    BY DEF D!Begin, D!rowsOfResumes
  <1>4. ~D!Exists(r)'
    BY <1>2, <1>3 DEF DocInv, DocRequestOK, D!Exists
  <1>5. (docReq[r].at \in {"delete", "files"} =>
          \A v \in docReq[r].paths : ~NotYet(v) /\ (D!Exists(v) => versions[v].resume = docReq[r].resume))'
    <2> SUFFICES ASSUME record.at = "delete", NEW v \in record.paths
                 PROVE  ~NotYet(v)' /\ (D!Exists(v) => versions[v].resume = docReq[r].resume)'
      BY <1>1
    <2>1. D!Exists(v) /\ versions[v].resume = record.resume
      OBVIOUS
    <2>2. v # r
      BY <1>3, <1>4, <2>1 DEF D!Exists
    <2>3. ~NotYet(v)
      BY <2>1 DEF DocInv, DocRequestOK, NotYet
    <2>4. ~NotYet(v)'
      BY <1>1, <2>2, <2>3 DEF NotYet, DocOnly
    <2>5. QED
      BY <1>1, <1>3, <2>1, <2>4
  <1>6. DocRequestOK(r)'
    BY <1>1, <1>4, <1>5 DEF DocRequestOK, D!At
  <1>7. QED
    BY <1>1, <1>2, <1>6, DocQuiet DEF D!Begin

LEMMA DocWaiting ==
    D!Waiting \in DocRequest
  BY DEF D!Waiting, DocRequest, DocPlace

LEMMA DocBeginUpload ==
    ASSUME DocInv, NEW r \in Requests, NEW t \in Text, D!BeginUpload(r, t)
    PROVE  DocInv'
  <1> DEFINE record == [D!Waiting EXCEPT !.at = "create", !.resume = r, !.text = t, !.number = 1]
  <1>0. r \in D!Id
    BY DocFacts
  <1>1. record \in DocRequest /\ record.at = "create" /\ record.resume = r
        /\ record.number = 1 /\ record.paths = {}
    BY <1>0 DEF D!Waiting, DocRequest, DocPlace
  <1>2. D!Begin(r, record)
    BY DEF D!BeginUpload
  <1> HIDE DEF record
  <1>3. QED
    BY <1>0, <1>1, <1>2, DocBegins

LEMMA DocBeginNextVersion ==
    ASSUME DocInv, NEW r \in Requests, NEW t \in Text, NEW q \in D!Id, D!BeginNextVersion(r, q, t)
    PROVE  DocInv'
  <1> DEFINE next == IF D!Latest(q) = D!None THEN 1 ELSE versions[D!Latest(q)].number + 1
             record == [D!Waiting EXCEPT !.at = "store", !.resume = q, !.text = t, !.number = next]
  <1>1. next \in Nat /\ next >= 1
    <2>1. D!Latest(q) # D!None => D!Latest(q) \in D!Id
      BY LatestIn DEF DocInv
    <2>2. \A v \in D!Id : versions[v].number \in Nat
      BY DocFacts DEF Version
    <2>3. QED
      BY <2>1, <2>2
  <1>2. D!Begin(r, record)
    BY DEF D!BeginNextVersion
  <1> HIDE DEF next
  <1>3. record \in DocRequest /\ record.at = "store" /\ record.resume = q
        /\ record.number >= 1 /\ record.paths = {}
    BY <1>1 DEF D!Waiting, DocRequest, DocPlace
  <1> HIDE DEF record
  <1>4. QED
    BY <1>2, <1>3, DocBegins

LEMMA DocBeginSelect ==
    ASSUME DocInv, NEW r \in Requests, NEW q \in D!Id, D!BeginSelect(r, q)
    PROVE  DocInv'
  <1> DEFINE record == [D!Waiting EXCEPT !.at = "select", !.resume = q]
  <1>1. record \in DocRequest /\ record.at = "select" /\ record.paths = {}
    BY DEF D!Waiting, DocRequest, DocPlace
  <1>2. D!Begin(r, record)
    BY DEF D!BeginSelect
  <1> HIDE DEF record
  <1>3. QED
    BY <1>1, <1>2, DocBegins

LEMMA DocBeginDelete ==
    ASSUME DocInv, NEW r \in Requests, NEW q \in D!Id, D!BeginDelete(r, q)
    PROVE  DocInv'
  <1> DEFINE record == [D!Waiting EXCEPT !.at = "delete", !.resume = q, !.paths = D!VersionsOf(q)]
  <1>1. record \in DocRequest /\ record.at = "delete" /\ record.resume = q
        /\ record.paths = D!VersionsOf(q)
    BY DEF D!Waiting, DocRequest, DocPlace, D!VersionsOf
  <1>2. D!Begin(r, record)
    BY DEF D!BeginDelete
  <1>3. \A v \in D!VersionsOf(q) : D!Exists(v) /\ versions[v].resume = q
    BY DocFacts DEF D!VersionsOf
  <1> HIDE DEF record
  <1>4. QED
    BY <1>1, <1>2, <1>3, DocBegins

LEMMA DocBeginAnalyse ==
    ASSUME DocInv, NEW r \in Requests, NEW v \in D!Id, NEW force \in BOOLEAN,
           D!BeginAnalyse(r, v, force)
    PROVE  DocInv'
  <1> DEFINE record == [D!Waiting EXCEPT !.at = "analyse", !.version = v]
  <1>1. record \in DocRequest /\ record.at = "analyse" /\ record.version = v /\ record.paths = {}
    BY DEF D!Waiting, DocRequest, DocPlace
  <1>2. D!Begin(r, record)
    BY DEF D!BeginAnalyse
  <1> HIDE DEF record
  <1>3. QED
    BY <1>1, <1>2, DocBegins

LEMMA DocBeginGap ==
    ASSUME DocInv, NEW r \in Requests, NEW v \in D!Id, NEW force \in BOOLEAN,
           D!BeginGap(r, v, force)
    PROVE  DocInv'
  <1> DEFINE record == [D!Waiting EXCEPT !.at = "job", !.version = v, !.force = force,
                                       !.read = versions[v].analysed]
  <1>0. versions[v].analysed \in Nat
    BY DocFacts DEF Version
  <1>1. record \in DocRequest /\ record.at = "job" /\ record.version = v /\ record.paths = {}
    BY <1>0 DEF D!Waiting, DocRequest, DocPlace
  <1>2. D!Begin(r, record)
    BY DEF D!BeginGap
  <1> HIDE DEF record
  <1>3. QED
    BY <1>1, <1>2, DocBegins

LEMMA DocBeginGenerate ==
    ASSUME DocInv, NEW r \in Requests, NEW kinds \in SUBSET Section, NEW force \in BOOLEAN,
           D!BeginGenerate(r, kinds, force)
    PROVE  DocInv'
  <1> DEFINE wanted == IF force THEN kinds ELSE {k \in kinds : drafts[k] = D!NoDraft}
             record == [D!Waiting EXCEPT !.at = "context", !.force = force, !.kinds = wanted]
  <1>1. wanted \in SUBSET Section
    OBVIOUS
  <1>2. D!Begin(r, record)
    BY DEF D!BeginGenerate
  <1> HIDE DEF wanted
  <1>3. record \in DocRequest /\ record.at = "context" /\ record.paths = {}
    BY <1>1 DEF D!Waiting, DocRequest, DocPlace
  <1> HIDE DEF record
  <1>4. QED
    BY <1>2, <1>3, DocBegins

LEMMA DocLookAtSelection ==
    ASSUME DocInv, NEW r \in Requests, D!LookAtSelection(r)
    PROVE  DocInv'
  <1> DEFINE place == IF selected = D!None THEN "select" ELSE "ended"
  <1>1. place \in DocPlace /\ place \in {"select", "ended"}
    BY DEF DocPlace
  <1>2. D!Goto(r, place)
    BY DEF D!LookAtSelection
  <1> HIDE DEF place
  <1>3. DocComes(r, place) /\ DocOnly(r) /\ docReq[r] \in DocRequest
    BY <1>1, <1>2, DocGoto, DocFacts DEF DocInv, DocComes
  <1>4. docReq[r].at = "look" /\ ~Keeps(r) /\ DocRequestOK(r) /\ docReq[r].paths = {}
    BY DEF D!LookAtSelection, D!At, Keeps, DocInv, DocRequestOK
  <1>5. ~NotYet(r)' /\ DocRequestOK(r)'
    BY <1>1, <1>3, <1>4 DEF DocComes, NotYet, DocRequestOK, D!At, DocRequest
  <1>6. QED
    BY <1>3, <1>4, <1>5, DocQuiet DEF D!LookAtSelection

LEMMA DocReadGap ==
    ASSUME DocInv, NEW r \in Requests, D!ReadGap(r)
    PROVE  DocInv'
  <1> DEFINE place == IF D!IsFresh(r) /\ ~docReq[r].force THEN "ended" ELSE "gap"
  <1>1. place \in DocPlace /\ place \in {"gap", "ended"}
    BY DEF DocPlace
  <1>2. D!Goto(r, place)
    BY DEF D!ReadGap
  <1> HIDE DEF place
  <1>3. DocComes(r, place) /\ DocOnly(r) /\ docReq[r] \in DocRequest
    BY <1>1, <1>2, DocGoto, DocFacts DEF DocInv, DocComes
  <1>4. docReq[r].at = "cached" /\ ~Keeps(r) /\ DocRequestOK(r) /\ docReq[r].paths = {}
    BY DEF D!ReadGap, D!At, Keeps, DocInv, DocRequestOK
  <1>5. ~NotYet(r)' /\ DocRequestOK(r)'
    BY <1>1, <1>3, <1>4 DEF DocComes, NotYet, DocRequestOK, D!At, DocRequest
  <1>6. QED
    BY <1>3, <1>4, <1>5, DocQuiet DEF D!ReadGap

LEMMA DocSelectedVersion ==
    ASSUME DocInv
    PROVE  D!SelectedVersion \in D!Id \union {D!None}
  BY LatestIn DEF D!SelectedVersion, DocInv, DocTyped

\* A request of the assistant settles a section.
LEMMA DocSettles ==
    ASSUME DocInv, NEW r \in Requests, NEW k \in Section, D!At(r, "draft"),
           NEW result \in {"none", "written", "refused"}, D!Settle(r, k, result)
    PROVE  /\ DocOnly(r) /\ ~Keeps(r) /\ ~NotYet(r)'
           /\ (\A v \in D!Id : D!Exists(v)' = D!Exists(v)) => DocRequestOK(r)'
  <1> DEFINE left == docReq[r].kinds \ {k}
             place == IF left = {} THEN "answer" ELSE "draft"
  <1>1. docReq[r] \in DocRequest /\ docReq[r].at = "draft" /\ DocRequestOK(r) /\ docReq[r].paths = {}
    BY DocFacts DEF D!At, DocInv, DocRequestOK
  <1>2. left \in SUBSET Section /\ place \in {"draft", "answer"} /\ place \in DocPlace
    BY <1>1 DEF DocRequest, DocPlace
  <1>3. \/ D!Goto(r, "ended")
        \/ docReq' = [docReq EXCEPT ![r].kinds = left, ![r].result = result, ![r].at = place]
    BY DEF D!Settle
  <1> HIDE DEF left, place
  <1>4. CASE D!Goto(r, "ended")
    <2>1. DocComes(r, "ended")
      BY <1>4, DocGoto DEF DocInv, DocPlace
    <2>2. docReq'[r].at = "ended" /\ docReq'[r].paths = {} /\ DocOnly(r)
      BY <2>1 DEF DocComes
    <2>3. ~Keeps(r) /\ ~NotYet(r)'
      BY <1>1, <2>2 DEF Keeps, NotYet
    <2>4. DocRequestOK(r)'
      BY <2>2, <2>3 DEF DocRequestOK, D!At
    <2>5. QED
      BY <2>2, <2>3, <2>4
  <1>5. CASE docReq' = [docReq EXCEPT ![r].kinds = left, ![r].result = result, ![r].at = place]
    <2>1. docReq'[r] = [docReq[r] EXCEPT !.kinds = left, !.result = result, !.at = place] /\ DocOnly(r)
      BY <1>1, <1>2, <1>5 DEF DocOnly, DocInv, DocTyped, DocRequest
    <2>2. docReq'[r].at = place /\ docReq'[r].paths = {}
      BY <1>1, <2>1 DEF DocRequest
    <2>3. ~Keeps(r) /\ ~NotYet(r)'
      BY <1>1, <1>2, <2>2 DEF Keeps, NotYet
    <2>4. DocRequestOK(r)'
      BY <1>2, <2>2, <2>3 DEF DocRequestOK, D!At
    <2>5. QED
      BY <2>1, <2>3, <2>4
  <1>6. QED
    BY <1>3, <1>4, <1>5

LEMMA DocFailDraft ==
    ASSUME DocInv, NEW r \in Requests, NEW k \in Section,
           D!FailDraft(r, k) \/ D!RefuseDraft(r, k)
    PROVE  DocInv'
  <1>1. D!At(r, "draft") /\ UNCHANGED <<D!rowsOfResumes, D!derived>>
    BY DEF D!FailDraft, D!RefuseDraft
  <1>2. \A v \in D!Id : D!Exists(v)' = D!Exists(v)
    BY <1>1 DEF D!rowsOfResumes, D!Exists
  <1>3. docReq[r].result \in {"none", "written", "refused"}
    BY DocFacts DEF DocRequest
  <1>4. PICK result \in {"none", "written", "refused"} : D!Settle(r, k, result)
    BY <1>3 DEF D!FailDraft, D!RefuseDraft
  <1>5. QED
    BY <1>1, <1>2, <1>4, DocSettles, DocQuiet

LEMMA DocReadContext ==
    ASSUME DocInv, NEW r \in Requests, D!ReadContext(r)
    PROVE  DocInv'
  <1> DEFINE place == IF docReq[r].kinds = {} THEN "answer" ELSE "draft"
  <1>1. docReq[r] \in DocRequest /\ docReq[r].at = "context" /\ DocRequestOK(r) /\ docReq[r].paths = {}
    BY DocFacts DEF D!ReadContext, D!At, DocInv, DocRequestOK
  <1>2. place \in {"answer", "draft"} /\ place \in DocPlace
    BY DEF DocPlace
  <1>3. PICK seen \in D!Id \union {D!None} : seen = D!SelectedVersion
    BY DocSelectedVersion
  <1>4. docReq' = [docReq EXCEPT ![r].version = seen, ![r].at = place]
    BY <1>3 DEF D!ReadContext
  <1> HIDE DEF place
  <1>5. docReq'[r] = [docReq[r] EXCEPT !.version = seen, !.at = place] /\ DocOnly(r)
    BY <1>1, <1>2, <1>4 DEF DocOnly, DocInv, DocTyped, DocRequest
  <1>6. docReq'[r].at = place /\ docReq'[r].paths = {}
    BY <1>1, <1>5 DEF DocRequest
  <1>7. ~Keeps(r) /\ ~NotYet(r)'
    BY <1>1, <1>2, <1>6 DEF Keeps, NotYet
  <1>8. DocRequestOK(r)'
    BY <1>2, <1>6, <1>7 DEF DocRequestOK, D!At
  <1>9. QED
    BY <1>5, <1>7, <1>8, DocQuiet DEF D!ReadContext

LEMMA DocBeginGet ==
    ASSUME DocInv, NEW r \in Requests, D!BeginGet(r)
    PROVE  DocInv'
  <1>1. PICK seen \in D!Id \union {D!None} : seen = D!SelectedVersion
    BY DocSelectedVersion
  <1> DEFINE record == [D!Waiting EXCEPT !.at = "answer", !.version = seen]
  <1>2. D!Begin(r, record)
    BY <1>1 DEF D!BeginGet
  <1>3. record \in DocRequest /\ record.at = "answer" /\ record.paths = {}
    BY <1>1 DEF D!Waiting, DocRequest, DocPlace
  <1> HIDE DEF record
  <1>4. QED
    BY <1>2, <1>3, DocBegins

LEMMA DocAnswer ==
    ASSUME DocInv, NEW r \in Requests, D!Answer(r)
    PROVE  DocInv'
  <1>1. DocComes(r, "ended") /\ DocOnly(r)
    BY DocGoto DEF D!Answer, DocInv, DocComes, DocPlace
  <1>2. docReq[r].at = "answer" /\ ~Keeps(r) /\ DocRequestOK(r) /\ docReq[r].paths = {}
    BY DEF D!Answer, D!At, Keeps, DocInv, DocRequestOK
  <1>3. ~NotYet(r)' /\ DocRequestOK(r)'
    BY <1>1, <1>2 DEF DocComes, NotYet, DocRequestOK, D!At
  <1>4. QED
    BY <1>1, <1>2, <1>3, DocQuiet DEF D!Answer

-------------------------------------------------------------------------------
(* Drafts *)

\* What a step on a draft has to show: the draft's row.
LEMMA DocDraftStep ==
    ASSUME DocInv, NEW r \in Requests, DocOnly(r), ~Keeps(r), ~NotYet(r)', DocRequestOK(r)',
           UNCHANGED <<D!rowsOfResumes, jobAt, gaps, clock>>,
           NEW k \in Section, NEW row \in Draft, drafts' = [drafts EXCEPT ![k] = row],
           DraftOK(k)'
    PROVE  DocInv'
  <1>1. versions' = versions /\ files' = files /\ unsure' = unsure /\ orphaned' = orphaned
        /\ gaps' = gaps /\ jobAt' = jobAt /\ clock' = clock /\ selected' = selected
    BY DEF D!rowsOfResumes
  <1>2. DocTyped'
    BY <1>1 DEF DocInv, DocTyped, DocOnly
  <1>3. (jobAt <= clock)' /\ NumbersBounded' /\ \A v \in D!Id : VersionOK(v)' /\ GapOK(v)'
    BY <1>1 DEF DocInv, NumbersBounded, VersionOK, GapOK, D!Exists
  <1>4. \A v \in D!Id : D!Exists(v)' = D!Exists(v)
    BY <1>1 DEF D!Exists
  <1>5. \A s \in Requests : DocRequestOK(s)'
    BY <1>1, <1>4, DocOthers
  <1>6. \A v \in D!Id : FileOK(v)'
    BY <1>1, <1>4, DocFilesStay
  <1>7. ASSUME NEW i \in Section, i # k PROVE DraftOK(i)'
    <2>1. drafts'[i].generated = drafts[i].generated /\ drafts'[i].version = drafts[i].version
          /\ drafts'[i].source = drafts[i].source
      BY <1>7 DEF DocInv, DocTyped
    <2>2. \A v \in D!Id : D!Exists(v)' => D!Exists(v) \/ (v = r /\ D!At(r, "insert"))
      BY <1>4
    <2>3. QED
      BY <2>1, <2>2, DocDraftsStay
  <1>8. QED
    BY <1>2, <1>3, <1>5, <1>6, <1>7 DEF DocInv

LEMMA DocWriteDraft ==
    ASSUME DocInv, NEW r \in Requests, NEW k \in Section, D!WriteDraft(r, k)
    PROVE  DocInv'
  <1> DEFINE row == [generated |-> TRUE, edited |-> FALSE,
                     version |-> docReq[r].version, source |-> docReq[r].version]
  <1>1. docReq[r].version \in D!Id \union {D!None}
    BY DocFacts DEF DocRequest
  <1>2. row \in Draft /\ row.version = row.source /\ row.source = docReq[r].version
    BY <1>1 DEF Draft
  <1>3. drafts' = [drafts EXCEPT ![k] = row] /\ versions' = versions
    BY DEF D!WriteDraft, D!rowsOfResumes
  <1>4. \A v \in D!Id : D!Exists(v)' = D!Exists(v)
    BY <1>3 DEF D!Exists
  <1>5. DocOnly(r) /\ ~Keeps(r) /\ ~NotYet(r)' /\ DocRequestOK(r)'
    BY <1>4, DocSettles DEF D!WriteDraft, D!Written
  <1>6. ~NotYet(docReq[r].version)
    <2>1. CASE docReq[r].version = D!None
      BY <2>1, DocFacts DEF NotYet
    <2>2. CASE docReq[r].version # D!None
      BY <2>2 DEF D!WriteDraft, DocInv, DocRequestOK, NotYet
    <2>3. QED
      BY <2>1, <2>2
  <1>7. \A v : NotYet(v)' => NotYet(v)
    BY <1>5 DEF NotYet, DocOnly
  <1> HIDE DEF row
  <1>8. drafts'[k] = row
    BY <1>3 DEF DocInv, DocTyped
  <1>9. DraftOK(k)'
    <2>1. ~NotYet(drafts[k].source)'
      BY <1>2, <1>6, <1>7, <1>8
    <2>2. (drafts[k].version = drafts[k].source)'
      BY <1>2, <1>8
    <2>3. QED
      BY <2>1, <2>2 DEF DraftOK
  <1>10. QED
    BY <1>2, <1>3, <1>5, <1>9, DocDraftStep DEF D!WriteDraft

LEMMA DocSaveDraft ==
    ASSUME DocInv, NEW r \in Requests, NEW k \in Section, D!SaveDraft(r, k)
    PROVE  DocInv'
  <1> DEFINE row == [drafts[k] EXCEPT !.edited = TRUE]
  <1>1. drafts[k] \in Draft
    BY DEF DocInv, DocTyped
  <1>2. row \in Draft /\ row.version = drafts[k].version /\ row.source = drafts[k].source
        /\ row.generated = drafts[k].generated
    BY <1>1 DEF Draft
  <1>3. drafts' = [drafts EXCEPT ![k] = row] /\ versions' = versions
    BY DEF D!SaveDraft, D!rowsOfResumes
  <1> HIDE DEF row
  <1>4. drafts'[k] = row
    BY <1>3 DEF DocInv, DocTyped
  <1>5. DocComes(r, "ended")
    BY DocGoto DEF D!SaveDraft, DocInv, DocPlace
  <1>6. docReq[r] \in DocRequest /\ docReq[r].at = "idle" /\ DocRequestOK(r) /\ docReq[r].paths = {}
    BY DocFacts DEF D!SaveDraft, D!At, DocInv, DocRequestOK
  <1>7. DocOnly(r) /\ ~Keeps(r) /\ ~NotYet(r)' /\ DocRequestOK(r)'
    BY <1>5, <1>6 DEF DocComes, Keeps, NotYet, DocRequestOK, D!At, DocRequest
  <1>8. \A v \in D!Id : D!Exists(v)' => D!Exists(v) \/ (v = r /\ D!At(r, "insert"))
    BY <1>3 DEF D!Exists
  <1>9. DraftOK(k)'
    BY <1>2, <1>4, <1>7, <1>8, DocDraftsStay
  <1>10. QED
    BY <1>2, <1>3, <1>7, <1>9, DocDraftStep DEF D!SaveDraft

-------------------------------------------------------------------------------
(* Analyses and gaps *)

\* A step after which the request has ended.
LEMMA DocEnds ==
    ASSUME DocInv, NEW r \in Requests, D!Goto(r, "ended")
    PROVE  /\ DocOnly(r) /\ ~NotYet(r)' /\ DocRequestOK(r)'
           /\ docReq'[r].at = "ended" /\ ~D!Busy(r)'
  <1>1. DocComes(r, "ended") /\ docReq[r] \in DocRequest
    BY DocGoto, DocFacts DEF DocInv, DocPlace
  <1>2. docReq'[r].at = "ended"
    BY <1>1 DEF DocComes, DocRequest
  <1>3. QED
    BY <1>1, <1>2 DEF DocComes, NotYet, DocRequestOK, D!At, D!Busy

LEMMA DocWriteAnalysis ==
    ASSUME DocInv, NEW r \in Requests, D!WriteAnalysis(r)
    PROVE  DocInv'
  <1> DEFINE now == clock + 1
  <1>1. PICK v : v = docReq[r].version
    OBVIOUS
  <1>2. docReq[r].at = "analyse" /\ ~Keeps(r) /\ v \in D!Id /\ D!Exists(v)
    BY <1>1 DEF D!WriteAnalysis, D!At, Keeps, DocInv, DocRequestOK
  <1>3. clock' = now /\ versions' = [versions EXCEPT ![v].analysed = now] /\ files' = files
        /\ unsure' = unsure /\ orphaned' = orphaned /\ gaps' = gaps /\ drafts' = drafts
        /\ jobAt' = jobAt /\ selected' = selected
    BY <1>1 DEF D!WriteAnalysis
  <1>4. clock \in Nat /\ now \in Nat /\ now > clock /\ now # 0
    BY DEF DocInv, DocTyped
  <1> HIDE DEF now
  <1>5. versions[v] \in Version /\ versions'[v] = [versions[v] EXCEPT !.analysed = now]
        /\ \A w \in D!Id \ {v} : versions'[w] = versions[w]
    BY <1>2, <1>3 DEF DocInv, DocTyped
  <1>6. versions'[v].resume = versions[v].resume /\ versions'[v].number = versions[v].number
        /\ versions'[v].analysed = now
    BY <1>5 DEF Version
  <1>7. D!Exists(v)'
    BY <1>4, <1>6, DocFacts DEF D!Exists
  <1>8. \A w \in D!Id : D!Exists(w)' = D!Exists(w) /\ versions'[w].resume = versions[w].resume
                      /\ versions'[w].number = versions[w].number
    BY <1>2, <1>5, <1>6, <1>7 DEF D!Exists
  <1>9. DocOnly(r) /\ ~NotYet(r)' /\ DocRequestOK(r)'
    BY DocEnds DEF D!WriteAnalysis
  <1>10. DocTyped'
    <2>1. versions' \in [D!Id -> Version]
      BY <1>3, <1>4 DEF DocInv, DocTyped, Version
    <2>2. QED
      BY <1>3, <1>4, <1>9, <2>1 DEF DocInv, DocTyped, DocOnly
  <1>11. (jobAt <= clock)'
    BY <1>3, <1>4 DEF DocInv, DocTyped
  <1>12. NumbersBounded'
    BY <1>8 DEF DocInv, NumbersBounded
  <1>13. ASSUME NEW w \in D!Id PROVE VersionOK(w)'
    <2>1. VersionOK(w) /\ versions[w].analysed \in Nat
      BY DocFacts DEF DocInv, Version
    <2>2. versions'[w].analysed <= clock'
      BY <1>3, <1>4, <1>5, <1>6, <2>1 DEF VersionOK
    <2>3. QED
      BY <1>8, <2>1, <2>2 DEF VersionOK
  <1>14. ASSUME NEW w \in D!Id PROVE GapOK(w)'
    <2>1. GapOK(w) /\ gaps[w] \in Gap
      BY DEF DocInv, DocTyped
    <2>2. (gaps[w].at <= clock)'
      BY <1>3, <1>4, <2>1 DEF GapOK, Gap
    <2>3. gaps'[w] # D!NoGap => D!Exists(w)'
      BY <1>3, <1>8, <2>1 DEF GapOK
    <2>4. (gaps[w] # D!NoGap /\ ~gaps[w].late =>
             /\ gaps[w].resume = versions[w].analysed \/ versions[w].analysed > gaps[w].at
             /\ gaps[w].job = jobAt \/ jobAt > gaps[w].at)'
      <3>1. CASE w = v
        BY <1>3, <1>4, <1>6, <2>1, <3>1 DEF GapOK, Gap
      <3>2. CASE w # v
        BY <1>3, <1>5, <2>1, <3>2 DEF GapOK
      <3>3. QED
        BY <3>1, <3>2
    <2>5. QED
      BY <2>2, <2>3, <2>4 DEF GapOK
  <1>15. \A s \in Requests : DocRequestOK(s)'
    BY <1>3, <1>8, <1>9, DocOthers
  <1>16. \A w \in D!Id : FileOK(w)'
    BY <1>2, <1>3, <1>8, <1>9, DocFilesStay
  <1>17. ASSUME NEW k \in Section PROVE DraftOK(k)'
    <2>1. \A w \in D!Id : D!Exists(w)' => D!Exists(w) \/ (w = r /\ D!At(r, "insert"))
      BY <1>8
    <2>2. QED
      BY <1>3, <1>9, <2>1, DocDraftsStay
  <1>18. QED
    BY <1>10, <1>11, <1>12, <1>13, <1>14, <1>15, <1>16, <1>17 DEF DocInv

\* The versions stay, their gaps and the times may change.
LEMMA DocGapStep ==
    ASSUME DocInv, NEW r \in Requests, DocOnly(r), ~Keeps(r), ~NotYet(r)', DocRequestOK(r)',
           UNCHANGED <<D!rowsOfResumes, drafts>>,
           gaps' \in [D!Id -> Gap], clock' \in Nat, clock' >= clock, jobAt' \in Nat,
           jobAt' <= clock', \A v \in D!Id : GapOK(v)'
    PROVE  DocInv'
  <1>1. versions' = versions /\ files' = files /\ unsure' = unsure /\ orphaned' = orphaned
        /\ drafts' = drafts /\ selected' = selected
    BY DEF D!rowsOfResumes
  <1>2. DocTyped'
    BY <1>1 DEF DocInv, DocTyped, DocOnly
  <1>3. NumbersBounded'
    BY <1>1 DEF DocInv, NumbersBounded
  <1>4. \A v \in D!Id : D!Exists(v)' = D!Exists(v)
    BY <1>1 DEF D!Exists
  <1>5. ASSUME NEW v \in D!Id PROVE VersionOK(v)'
    <2>1. VersionOK(v) /\ versions[v].analysed \in Nat /\ clock \in Nat
      BY DocFacts DEF DocInv, DocTyped, Version
    <2>2. QED
      BY <1>1, <1>4, <2>1 DEF VersionOK
  <1>6. \A s \in Requests : DocRequestOK(s)'
    BY <1>1, <1>4, DocOthers
  <1>7. \A v \in D!Id : FileOK(v)'
    BY <1>1, <1>4, DocFilesStay
  <1>8. ASSUME NEW k \in Section PROVE DraftOK(k)'
    <2>1. drafts'[k].generated = drafts[k].generated /\ drafts'[k].version = drafts[k].version
          /\ drafts'[k].source = drafts[k].source
      BY <1>1
    <2>2. \A v \in D!Id : D!Exists(v)' => D!Exists(v) \/ (v = r /\ D!At(r, "insert"))
      BY <1>4
    <2>3. QED
      BY <2>1, <2>2, DocDraftsStay
  <1>9. QED
    BY <1>2, <1>3, <1>5, <1>6, <1>7, <1>8 DEF DocInv

LEMMA DocAnalyseJob ==
    ASSUME DocInv, NEW r \in Requests, D!AnalyseJob(r)
    PROVE  DocInv'
  <1>1. docReq[r] \in DocRequest /\ docReq[r].at = "job" /\ DocRequestOK(r) /\ ~Keeps(r)
        /\ docReq[r].version \in D!Id /\ docReq[r].paths = {}
    BY DocFacts DEF D!AnalyseJob, D!At, Keeps, DocInv, DocRequestOK
  <1>2. clock \in Nat /\ jobAt \in Nat /\ jobAt <= clock
    BY DEF DocInv, DocTyped
  <1>3. /\ jobAt' \in Nat /\ clock' \in Nat /\ clock' >= clock /\ jobAt' <= clock'
        /\ jobAt' = jobAt \/ jobAt' > clock
        /\ docReq' = [docReq EXCEPT ![r].at = "cached", ![r].job = jobAt']
    BY <1>2 DEF D!AnalyseJob
  <1>4. DocOnly(r) /\ docReq'[r] = [docReq[r] EXCEPT !.at = "cached", !.job = jobAt']
    BY <1>1, <1>3 DEF DocOnly, DocInv, DocTyped, DocRequest, DocPlace
  <1>5. docReq'[r].at = "cached" /\ docReq'[r].paths = {} /\ docReq'[r].version \in D!Id
    BY <1>1, <1>4 DEF DocRequest
  <1>6. ~NotYet(r)' /\ DocRequestOK(r)'
    BY <1>5 DEF NotYet, DocRequestOK, D!At
  <1>7. versions' = versions /\ gaps' = gaps /\ drafts' = drafts
    BY DEF D!AnalyseJob, D!rowsOfResumes
  <1>8. ASSUME NEW v \in D!Id PROVE GapOK(v)'
    <2>1. GapOK(v) /\ gaps[v] \in Gap
      BY DEF DocInv, DocTyped
    <2>2. QED
      BY <1>2, <1>3, <1>7, <2>1 DEF GapOK, Gap, D!Exists
  <1>9. gaps' \in [D!Id -> Gap]
    BY <1>7 DEF DocInv, DocTyped
  <1>10. QED
    BY <1>1, <1>3, <1>4, <1>6, <1>7, <1>8, <1>9, DocGapStep DEF D!AnalyseJob

LEMMA DocWriteGap ==
    ASSUME DocInv, NEW r \in Requests, D!WriteGap(r)
    PROVE  DocInv'
  <1>1. PICK v, gap : v = docReq[r].version /\ gap = D!GapOf(r)
    OBVIOUS
  <1>2. docReq[r] \in DocRequest /\ docReq[r].at = "gap" /\ ~Keeps(r) /\ v \in D!Id /\ D!Exists(v)
    BY <1>1, DocFacts DEF D!WriteGap, D!At, Keeps, DocInv, DocRequestOK
  <1>3. clock \in Nat /\ jobAt \in Nat /\ jobAt <= clock
    BY DEF DocInv, DocTyped
  <1>4. gap = [resume |-> docReq[r].read, job |-> docReq[r].job, at |-> clock,
               late |-> docReq[r].read # versions[v].analysed \/ docReq[r].job # jobAt]
    BY <1>1 DEF D!GapOf
  <1>5. gap \in Gap
    BY <1>2, <1>3, <1>4 DEF Gap, DocRequest
  <1>6. gaps' = [gaps EXCEPT ![v] = gap] /\ versions' = versions /\ clock' = clock
        /\ jobAt' = jobAt
    BY <1>1 DEF D!WriteGap, D!rowsOfResumes
  <1>7. gaps' \in [D!Id -> Gap] /\ gaps'[v] = gap /\ \A w \in D!Id \ {v} : gaps'[w] = gaps[w]
    BY <1>2, <1>5, <1>6 DEF DocInv, DocTyped
  <1>8. ASSUME NEW w \in D!Id PROVE GapOK(w)'
    <2>1. CASE w = v
      <3>1. gaps'[w].at = clock /\ (~gaps'[w].late =>
              gaps'[w].resume = versions[w].analysed /\ gaps'[w].job = jobAt)
        <4>1. gap.at = clock /\ gap.resume = docReq[r].read /\ gap.job = docReq[r].job
          BY <1>4
        <4>2. gap.late <=> docReq[r].read # versions[v].analysed \/ docReq[r].job # jobAt
          BY <1>4
        <4>3. gaps'[w] = gap
          BY <1>7, <2>1
        <4>4. QED
          BY <2>1, <4>1, <4>2, <4>3
      <3>2. D!Exists(w)'
        BY <1>2, <1>6, <2>1 DEF D!Exists
      <3>3. QED
        BY <1>3, <1>6, <3>1, <3>2 DEF GapOK
    <2>2. CASE w # v
      BY <1>6, <1>7, <2>2 DEF GapOK, DocInv, D!Exists
    <2>3. QED
      BY <2>1, <2>2
  <1>9. DocOnly(r) /\ ~NotYet(r)' /\ DocRequestOK(r)'
    BY DocEnds DEF D!WriteGap
  <1>10. QED
    BY <1>2, <1>3, <1>6, <1>7, <1>8, <1>9, DocGapStep DEF D!WriteGap

-------------------------------------------------------------------------------
(* Resumes and their files *)

\* The versions stay, the resumes, files and the selection may change.
LEMMA DocFilesStep ==
    ASSUME DocInv, NEW r \in Requests, DocOnly(r), NotYet(r)' => NotYet(r), DocRequestOK(r)',
           UNCHANGED <<versions, D!derived>>,
           files' \in SUBSET D!Id, selected' \in D!Id \union {D!None}, unsure' = unsure,
           \A v \in Requests \ {r} : v \in files /\ NotYet(v) => v \in files',
           \A v \in D!Id : FileOK(v)'
    PROVE  DocInv'
  <1>1. versions' = versions /\ gaps' = gaps /\ drafts' = drafts /\ jobAt' = jobAt
        /\ clock' = clock
    BY DEF D!derived
  <1>2. DocTyped'
    BY <1>1 DEF DocInv, DocTyped, DocOnly
  <1>3. (jobAt <= clock)' /\ NumbersBounded' /\ \A v \in D!Id : VersionOK(v)' /\ GapOK(v)'
    BY <1>1 DEF DocInv, NumbersBounded, VersionOK, GapOK, D!Exists
  <1>4. \A v \in D!Id : D!Exists(v)' = D!Exists(v)
    BY <1>1 DEF D!Exists
  <1>5. \A s \in Requests : DocRequestOK(s)'
    BY <1>1, <1>4, DocOthers
  <1>6. ASSUME NEW k \in Section PROVE DraftOK(k)'
    <2>1. drafts'[k].generated = drafts[k].generated /\ drafts'[k].version = drafts[k].version
          /\ drafts'[k].source = drafts[k].source
      BY <1>1
    <2>2. \A v \in D!Id : D!Exists(v)' => D!Exists(v) \/ (v = r /\ D!At(r, "insert"))
      BY <1>4
    <2>3. QED
      BY <2>1, <2>2, DocDraftsStay
  <1>7. QED
    BY <1>2, <1>3, <1>5, <1>6 DEF DocInv

\* A request that keeps no file in its place, and removes none.
LEMMA DocPassesOn ==
    ASSUME DocInv, NEW r \in Requests, DocOnly(r), NotYet(r)' => NotYet(r), DocRequestOK(r)',
           ~Keeps(r), UNCHANGED <<versions, files, unsure, orphaned, D!derived>>,
           selected' \in D!Id \union {D!None}
    PROVE  DocInv'
  <1>1. versions' = versions /\ files' = files /\ unsure' = unsure /\ orphaned' = orphaned
    OBVIOUS
  <1>2. \A v \in D!Id : D!Exists(v)' = D!Exists(v)
    BY <1>1 DEF D!Exists
  <1>3. \A v \in D!Id : FileOK(v)'
    BY <1>1, <1>2, DocFilesStay
  <1>4. files' \in SUBSET D!Id
    BY <1>1 DEF DocInv, DocTyped
  <1>5. QED
    BY <1>1, <1>3, <1>4, DocFilesStep

LEMMA DocCreateResume ==
    ASSUME DocInv, NEW r \in Requests, D!CreateResume(r)
    PROVE  DocInv'
  <1>1. docReq[r] \in DocRequest /\ docReq[r].at = "create" /\ DocRequestOK(r) /\ ~Keeps(r)
        /\ docReq[r].paths = {} /\ NotYet(r)
    BY DocFacts DEF D!CreateResume, D!At, Keeps, DocInv, DocRequestOK, NotYet
  <1>2. DocComes(r, "store")
    BY DocGoto DEF D!CreateResume, DocInv, DocPlace
  <1>3. docReq'[r].at = "store" /\ docReq'[r].paths = {} /\ docReq'[r].resume = docReq[r].resume
        /\ docReq'[r].number = docReq[r].number
    BY <1>1, <1>2 DEF DocComes, DocRequest
  <1>4. DocRequestOK(r)'
    BY <1>1, <1>3 DEF DocRequestOK, D!At, D!CreateResume, D!Exists
  <1>5. QED
    BY <1>1, <1>2, <1>4, DocPassesOn DEF D!CreateResume, DocComes, DocInv, DocTyped

LEMMA DocSetSelected ==
    ASSUME DocInv, NEW r \in Requests, D!SetSelected(r)
    PROVE  DocInv'
  <1>1. docReq[r] \in DocRequest /\ ~Keeps(r)
    BY DocFacts DEF D!SetSelected, D!At, Keeps
  <1>2. DocOnly(r) /\ ~NotYet(r)' /\ DocRequestOK(r)'
    BY DocEnds DEF D!SetSelected
  <1>3. selected' \in D!Id \union {D!None}
    BY <1>1 DEF D!SetSelected, DocRequest, DocInv, DocTyped
  <1>4. QED
    BY <1>1, <1>2, <1>3, DocPassesOn DEF D!SetSelected

\* A file stays in its place, as far as requests other than r keep it there.
LEMMA DocFilesOfOthers ==
    ASSUME DocInv, NEW r \in Requests, DocOnly(r), NEW v \in D!Id, v # r,
           UNCHANGED <<versions, unsure>>, orphaned \subseteq orphaned',
           v \notin docReq[r].paths \/ v \in orphaned' \/ (D!Busy(r) /\ v \in docReq[r].paths)',
           (v \in files) = (v \in files')
    PROVE  FileOK(v)'
  <1>1. FileOK(v) /\ D!Exists(v)' = D!Exists(v)
    BY DEF DocInv, D!Exists
  <1>2. v \in Requests /\ docReq[v].at \in {"insert", "unlink"} =>
        (v \in Requests /\ docReq[v].at \in {"insert", "unlink"})'
    BY DEF DocOnly
  <1>3. (\E s \in Requests : D!Busy(s) /\ v \in docReq[s].paths) =>
        v \in orphaned' \/ (\E s \in Requests : D!Busy(s) /\ v \in docReq[s].paths)'
    BY DEF DocOnly, D!Busy
  <1>4. QED
    BY <1>1, <1>2, <1>3 DEF FileOK

LEMMA DocStoreFile ==
    ASSUME DocInv, NEW r \in Requests, D!StoreFile(r)
    PROVE  DocInv'
  <1>1. docReq[r] \in DocRequest /\ docReq[r].at = "store" /\ DocRequestOK(r) /\ docReq[r].paths = {}
        /\ NotYet(r) /\ r \in D!Id
    BY DocFacts DEF D!StoreFile, D!At, DocInv, DocRequestOK, NotYet
  <1>2. DocComes(r, "insert")
    BY DocGoto DEF D!StoreFile, DocInv, DocPlace
  <1>3. docReq'[r].at = "insert" /\ docReq'[r].paths = {} /\ docReq'[r].resume = docReq[r].resume
        /\ docReq'[r].number = docReq[r].number
    BY <1>1, <1>2 DEF DocComes, DocRequest
  <1>4. files' = files \union {r} /\ versions' = versions /\ unsure' = unsure
        /\ orphaned' = orphaned /\ selected' = selected
    BY DEF D!StoreFile
  <1>5. DocRequestOK(r)'
    BY <1>1, <1>3, <1>4 DEF DocRequestOK, D!At, D!Exists
  <1>6. FileOK(r)'
    BY <1>1, <1>3, <1>4 DEF FileOK
  <1>7. \A v \in D!Id \ {r} : FileOK(v)'
    BY <1>1, <1>2, <1>4, DocFilesOfOthers DEF DocComes
  <1>8. files' \in SUBSET D!Id /\ selected' \in D!Id \union {D!None}
    BY <1>1, <1>4 DEF DocInv, DocTyped
  <1>9. QED
    BY <1>1, <1>2, <1>4, <1>5, <1>6, <1>7, <1>8, DocFilesStep DEF D!StoreFile, DocComes

LEMMA DocUnlink ==
    ASSUME DocInv, NEW r \in Requests, D!Unlink(r)
    PROVE  DocInv'
  <1>1. docReq[r].at = "unlink" /\ DocRequestOK(r) /\ docReq[r].paths = {} /\ r \in D!Id
    BY DocFacts DEF D!Unlink, D!At, DocInv, DocRequestOK
  <1>2. DocOnly(r) /\ ~NotYet(r)' /\ DocRequestOK(r)'
    BY DocEnds DEF D!Unlink
  <1>3. files' = files \ {r} /\ versions' = versions /\ unsure' = unsure
        /\ orphaned' = orphaned /\ selected' = selected
    BY DEF D!Unlink
  <1>4. FileOK(r)'
    BY <1>1, <1>3 DEF FileOK, DocRequestOK, D!At, D!Exists
  <1>5. \A v \in D!Id \ {r} : FileOK(v)'
    BY <1>1, <1>2, <1>3, DocFilesOfOthers
  <1>6. files' \in SUBSET D!Id /\ selected' \in D!Id \union {D!None}
    BY <1>3 DEF DocInv, DocTyped
  <1>7. QED
    BY <1>2, <1>3, <1>4, <1>5, <1>6, DocFilesStep DEF D!Unlink

LEMMA DocDeleteFiles ==
    ASSUME DocInv, NEW r \in Requests, D!DeleteFiles(r)
    PROVE  DocInv'
  <1>1. docReq[r].at = "files" /\ DocRequestOK(r) /\ r \in D!Id /\ docReq[r] \in DocRequest
    BY DocFacts DEF D!DeleteFiles, D!At, DocInv
  <1>2. DocOnly(r) /\ ~NotYet(r)' /\ DocRequestOK(r)'
    BY DocEnds DEF D!DeleteFiles
  <1>3. files' = files \ docReq[r].paths /\ versions' = versions /\ unsure' = unsure
        /\ orphaned' = orphaned /\ selected' = selected
    BY DEF D!DeleteFiles
  <1>4. \A v \in docReq[r].paths : ~NotYet(v) /\ ~D!Exists(v)
    BY <1>1 DEF DocRequestOK, D!At
  <1>5. ASSUME NEW v \in D!Id PROVE FileOK(v)'
    <2>1. CASE v \in docReq[r].paths
      BY <1>3, <1>4, <2>1 DEF FileOK, D!Exists
    <2>2. CASE v \notin docReq[r].paths /\ v # r
      BY <1>2, <1>3, <2>2, DocFilesOfOthers
    <2>3. CASE v \notin docReq[r].paths /\ v = r
      <3>1. FileOK(r) /\ ~(r \in Requests /\ docReq[r].at \in {"insert", "unlink"})
        BY <1>1 DEF DocInv
      <3>2. (\E s \in Requests : D!Busy(s) /\ r \in docReq[s].paths) =>
            (\E s \in Requests : D!Busy(s) /\ r \in docReq[s].paths)'
        BY <1>2, <2>3 DEF DocOnly, D!Busy
      <3>3. QED
        BY <1>3, <2>3, <3>1, <3>2 DEF FileOK, D!Exists
    <2>4. QED
      BY <2>1, <2>2, <2>3
  <1>6. \A v \in Requests \ {r} : v \in files /\ NotYet(v) => v \in files'
    BY <1>3, <1>4
  <1>7. files' \in SUBSET D!Id /\ selected' \in D!Id \union {D!None}
    BY <1>3 DEF DocInv, DocTyped
  <1>8. QED
    BY <1>2, <1>3, <1>5, <1>6, <1>7, DocFilesStep DEF D!DeleteFiles

\* Whatever stops leaves behind what it was at work on.
LEMMA DocStop ==
    ASSUME DocInv, NEW r \in Requests, D!Stop(r)
    PROVE  DocInv'
  <1>1. DocOnly(r) /\ ~NotYet(r)' /\ DocRequestOK(r)'
    BY DocEnds DEF D!Stop
  <1>2. /\ orphaned' = orphaned \union {v \in {r} \intersect files : ~D!Exists(v)}
                              \union docReq[r].paths
        /\ versions' = versions /\ unsure' = unsure /\ files' = files /\ selected' = selected
    BY DEF D!Stop
  <1>3. FileOK(r)'
    BY <1>2, DocFacts DEF FileOK, DocInv, D!Exists
  <1>4. \A v \in D!Id \ {r} : FileOK(v)'
    BY <1>1, <1>2, DocFilesOfOthers
  <1>5. files' \in SUBSET D!Id /\ selected' \in D!Id \union {D!None}
    BY <1>2 DEF DocInv, DocTyped
  <1>6. QED
    BY <1>1, <1>2, <1>3, <1>4, <1>5, DocFilesStep DEF D!Stop

-------------------------------------------------------------------------------
(* Versions that come and go *)

LEMMA DocRefused ==
    ASSUME DocInv, NEW r \in Requests, D!At(r, "insert"), D!Goto(r, "unlink"),
           UNCHANGED <<versions, files, selected, unsure, orphaned, D!derived>>
    PROVE  DocInv'
  <1>1. docReq[r] \in DocRequest /\ docReq[r].at = "insert" /\ DocRequestOK(r) /\ docReq[r].paths = {}
        /\ NotYet(r) /\ ~D!Exists(r) /\ r \in D!Id
    BY DocFacts DEF D!At, DocInv, DocRequestOK, NotYet
  <1>2. DocComes(r, "unlink")
    BY DocGoto DEF DocInv, DocPlace
  <1>3. docReq'[r].at = "unlink" /\ docReq'[r].paths = {}
    BY <1>1, <1>2 DEF DocComes, DocRequest
  <1>4. ~D!Exists(r)' /\ DocRequestOK(r)'
    BY <1>1, <1>3 DEF DocRequestOK, D!At, D!Exists, NotYet
  <1>5. FileOK(r)'
    BY <1>3, <1>4 DEF FileOK
  <1>6. \A v \in D!Id \ {r} : FileOK(v)'
    BY <1>1, <1>2, DocFilesOfOthers DEF DocComes
  <1>7. files' \in SUBSET D!Id /\ selected' \in D!Id \union {D!None}
    BY DEF DocInv, DocTyped
  <1>8. QED
    BY <1>1, <1>2, <1>4, <1>5, <1>6, <1>7, DocFilesStep DEF DocComes

\* The version is there, and the request knows it or thinks it is not.
LEMMA DocInserted ==
    ASSUME DocInv, NEW r \in Requests, D!At(r, "insert"), D!CanInsert(r), versions' = D!Inserted(r),
           NEW place \in {"look", "unlink"}, D!Goto(r, place),
           unsure \subseteq unsure', place = "unlink" => r \in unsure',
           UNCHANGED <<files, selected, orphaned, D!derived>>
    PROVE  DocInv'
  <1> DEFINE row == [resume |-> docReq[r].resume, number |-> docReq[r].number,
                     text |-> docReq[r].text, analysed |-> 0]
  <1>1. docReq[r] \in DocRequest /\ docReq[r].at = "insert" /\ DocRequestOK(r) /\ docReq[r].paths = {}
        /\ NotYet(r) /\ ~D!Exists(r) /\ r \in D!Id /\ r \in files /\ docReq[r].resume \in D!Id
        /\ docReq[r].number >= 1
    BY DocFacts DEF D!At, DocInv, DocRequestOK, NotYet
  <1>2. DocComes(r, place)
    BY DocGoto DEF DocInv, DocPlace
  <1>3. docReq'[r].at = place /\ docReq'[r].paths = {}
    BY <1>1, <1>2 DEF DocComes, DocRequest
  <1>4. row \in Version /\ row.resume \in D!Id /\ row.number = docReq[r].number /\ row.number >= 1
        /\ row.analysed = 0 /\ row.number \in Nat
    BY <1>1 DEF Version, DocRequest
  <1>5. versions' = [versions EXCEPT ![r] = row]
    BY DEF D!Inserted
  <1> HIDE DEF row
  <1>6. versions' \in [D!Id -> Version] /\ versions'[r] = row
        /\ \A v \in D!Id \ {r} : versions'[v] = versions[v]
    BY <1>1, <1>4, <1>5 DEF DocInv, DocTyped
  <1>7. row # D!NoVersion
    BY <1>4, DocFacts
  <1>8. D!Exists(r)' /\ \A v \in D!Id \ {r} : D!Exists(v)' = D!Exists(v)
    BY <1>6, <1>7 DEF D!Exists
  <1>9. clock' = clock /\ jobAt' = jobAt /\ gaps' = gaps /\ drafts' = drafts /\ files' = files
        /\ selected' = selected /\ orphaned' = orphaned
    BY DEF D!derived
  <1>10. DocTyped'
    BY <1>2, <1>6, <1>9 DEF DocInv, DocTyped, DocOnly, DocComes
  <1>11. NumbersBounded'
    <2>1. PICK n \in Nat : \A v \in D!Id : versions[v].number <= n
      BY DEF DocInv, NumbersBounded
    <2>2. \A v \in D!Id : versions[v].number \in Nat
      BY DocFacts DEF Version
    <2>3. n + row.number \in Nat /\ \A v \in D!Id : versions'[v].number <= n + row.number
      BY <1>4, <1>6, <2>1, <2>2
    <2>4. QED
      BY <2>3 DEF NumbersBounded
  <1>12. ASSUME NEW v \in D!Id PROVE VersionOK(v)'
    <2>1. CASE v = r
      BY <1>4, <1>6, <1>9, <2>1 DEF VersionOK, DocInv, DocTyped
    <2>2. CASE v # r
      BY <1>6, <1>8, <1>9, <2>2 DEF VersionOK, DocInv
    <2>3. QED
      BY <2>1, <2>2
  <1>13. ASSUME NEW v \in D!Id PROVE GapOK(v)'
    <2>1. CASE v = r
      BY <1>1, <1>8, <1>9, <2>1 DEF GapOK, DocInv
    <2>2. CASE v # r
      BY <1>6, <1>8, <1>9, <2>2 DEF GapOK, DocInv
    <2>3. QED
      BY <2>1, <2>2
  <1>14. ASSUME NEW v \in D!Id PROVE FileOK(v)'
    <2>1. CASE v = r
      BY <1>1, <1>8, <1>9, <2>1 DEF FileOK
    <2>2. CASE v # r
      <3>1. FileOK(v) /\ D!Exists(v)' = D!Exists(v)
        BY <1>8, <2>2 DEF DocInv
      <3>2. v \in Requests /\ docReq[v].at \in {"insert", "unlink"} =>
            (v \in Requests /\ docReq[v].at \in {"insert", "unlink"})'
        BY <1>2, <2>2 DEF DocOnly, DocComes
      <3>3. (\E s \in Requests : D!Busy(s) /\ v \in docReq[s].paths) =>
            (\E s \in Requests : D!Busy(s) /\ v \in docReq[s].paths)'
        BY <1>1, <1>2 DEF DocOnly, DocComes, D!Busy
      <3>4. QED
        BY <1>9, <3>1, <3>2, <3>3 DEF FileOK
    <2>3. QED
      BY <2>1, <2>2
  <1>15. ~NotYet(r)' /\ DocRequestOK(r)'
    BY <1>3 DEF NotYet, DocRequestOK, D!At
  <1>16. \A v \in D!Id : D!Exists(v)' => \/ D!Exists(v) /\ versions'[v].resume = versions[v].resume
                                         \/ v = r /\ D!At(r, "insert")
    BY <1>6, <1>8
  <1>17. \A s \in Requests : DocRequestOK(s)'
    BY <1>2, <1>9, <1>15, <1>16, DocOthers DEF DocComes
  <1>18. ASSUME NEW k \in Section PROVE DraftOK(k)'
    BY <1>2, <1>9, <1>15, <1>16, DocDraftsStay DEF DocComes
  <1>19. QED
    BY <1>9, <1>10, <1>11, <1>12, <1>13, <1>14, <1>17, <1>18 DEF DocInv

LEMMA DocDeleteResume ==
    ASSUME DocInv, NEW r \in Requests, D!DeleteResume(r)
    PROVE  DocInv'
  <1>1. PICK q, gone : q = docReq[r].resume /\ gone = D!VersionsOf(q)
    OBVIOUS
  <1>2. docReq[r] \in DocRequest /\ docReq[r].at = "delete" /\ DocRequestOK(r) /\ r \in D!Id /\ q \in D!Id
    BY <1>1, DocFacts DEF D!DeleteResume, D!At, DocInv, DocRequestOK
  <1>3. /\ versions' = [v \in D!Id |-> IF v \in gone THEN D!NoVersion ELSE versions[v]]
        /\ gaps' = [v \in D!Id |-> IF v \in gone THEN D!NoGap ELSE gaps[v]]
        /\ drafts' = [k \in Section |-> IF drafts[k].version \in gone
                                        THEN [drafts[k] EXCEPT !.version = D!None] ELSE drafts[k]]
        /\ selected' = IF selected = q THEN D!None ELSE selected
        /\ orphaned' = orphaned \union (gone \ docReq[r].paths)
        /\ files' = files /\ jobAt' = jobAt /\ clock' = clock /\ unsure' = unsure
    BY <1>1 DEF D!DeleteResume
  <1>4. gone \subseteq D!Id /\ \A v \in gone : D!Exists(v) /\ versions[v].resume = q
    BY <1>1, <1>2, DocFacts DEF D!VersionsOf
  <1>5. DocComes(r, "files")
    BY DocGoto DEF D!DeleteResume, DocInv, DocPlace
  <1>6. docReq'[r].at = "files" /\ docReq'[r].paths = docReq[r].paths /\ docReq'[r].resume = q
    BY <1>1, <1>2, <1>5 DEF DocComes, DocRequest
  <1>7. \A v \in D!Id : /\ v \in gone => ~D!Exists(v)' /\ versions'[v] = D!NoVersion
                        /\ v \notin gone => versions'[v] = versions[v] /\ D!Exists(v)' = D!Exists(v)
    BY <1>3 DEF D!Exists
  <1>8. DocTyped'
    <2>1. versions' \in [D!Id -> Version]
      BY <1>3, DocFacts
    <2>2. gaps' \in [D!Id -> Gap]
      <3>1. D!NoGap \in Gap
        BY DEF D!NoGap, Gap
      <3>2. QED
        BY <1>3, <3>1 DEF DocInv, DocTyped
    <2>3. drafts' \in [Section -> Draft]
      <3>1. \A k \in Section : drafts[k] \in Draft /\ [drafts[k] EXCEPT !.version = D!None] \in Draft
        BY DEF DocInv, DocTyped, Draft
      <3>2. QED
        BY <1>3, <3>1
    <2>4. selected' \in D!Id \union {D!None}
      BY <1>3 DEF DocInv, DocTyped
    <2>5. QED
      BY <1>3, <1>5, <2>1, <2>2, <2>3, <2>4 DEF DocInv, DocTyped, DocComes, DocOnly
  <1>9. NumbersBounded'
    <2>1. PICK n \in Nat : \A v \in D!Id : versions[v].number <= n
      BY DEF DocInv, NumbersBounded
    <2>2. \A v \in D!Id : versions'[v].number <= n
      BY <1>7, <2>1, DocFacts
    <2>3. QED
      BY <2>2 DEF NumbersBounded
  <1>10. ASSUME NEW v \in D!Id PROVE VersionOK(v)'
    <2>1. CASE v \in gone
      BY <1>3, <1>7, <2>1, DocFacts DEF VersionOK, DocInv, DocTyped
    <2>2. CASE v \notin gone
      BY <1>3, <1>7, <2>2 DEF VersionOK, DocInv
    <2>3. QED
      BY <2>1, <2>2
  <1>11. ASSUME NEW v \in D!Id PROVE GapOK(v)'
    <2>1. CASE v \in gone
      <3>1. gaps'[v] = D!NoGap /\ D!NoGap.at = 0
        BY <1>3, <2>1 DEF D!NoGap
      <3>2. QED
        BY <1>3, <3>1 DEF GapOK, DocInv, DocTyped
    <2>2. CASE v \notin gone
      <3>1. gaps'[v] = gaps[v]
        BY <1>3, <2>2
      <3>2. QED
        BY <1>3, <1>7, <2>2, <3>1 DEF GapOK, DocInv
    <2>3. QED
      BY <2>1, <2>2
  <1>12. ASSUME NEW v \in D!Id PROVE FileOK(v)'
    <2>1. FileOK(v)
      BY DEF DocInv
    <2>2. v \in Requests /\ docReq[v].at \in {"insert", "unlink"} =>
          (v \in Requests /\ docReq[v].at \in {"insert", "unlink"})'
      BY <1>2, <1>5 DEF DocOnly, DocComes
    <2>3. (\E s \in Requests : D!Busy(s) /\ v \in docReq[s].paths) =>
          (\E s \in Requests : D!Busy(s) /\ v \in docReq[s].paths)'
      BY <1>5, <1>6 DEF DocOnly, DocComes, D!Busy
    <2>4. CASE v \in gone
      <3>1. v \in orphaned' \/ (D!Busy(r) /\ v \in docReq[r].paths)'
        BY <1>3, <1>6, <2>4 DEF D!Busy
      <3>2. QED
        BY <1>7, <2>4, <3>1 DEF FileOK
    <2>5. CASE v \notin gone
      BY <1>3, <1>7, <2>1, <2>2, <2>3, <2>5 DEF FileOK
    <2>6. QED
      BY <2>4, <2>5
  <1>13. ~NotYet(r)' /\ \A v : NotYet(v)' => NotYet(v)
    BY <1>5, <1>6 DEF NotYet, DocComes, DocOnly
  <1>14. DocRequestOK(r)'
    <2>1. ASSUME NEW v \in docReq[r].paths PROVE ~NotYet(v)' /\ ~D!Exists(v)'
      <3>1. v \in D!Id /\ ~NotYet(v) /\ (D!Exists(v) => versions[v].resume = q)
        BY <1>1, <1>2 DEF DocRequestOK, DocRequest
      <3>2. D!Exists(v) => v \in gone
        BY <1>1, <3>1 DEF D!VersionsOf
      <3>3. QED
        BY <1>7, <1>13, <3>1, <3>2
    <2>2. (\A v \in docReq[r].paths : ~NotYet(v) /\ ~D!Exists(v))'
      BY <1>6, <2>1
    <2>3. QED
      BY <1>6, <1>13, <2>2 DEF DocRequestOK, D!At
  <1>15. \A v \in D!Id : D!Exists(v)' => \/ D!Exists(v) /\ versions'[v].resume = versions[v].resume
                                         \/ v = r /\ D!At(r, "insert")
    BY <1>7
  <1>16. \A s \in Requests : DocRequestOK(s)'
    BY <1>3, <1>5, <1>13, <1>14, <1>15, DocOthers DEF DocComes
  <1>17. ASSUME NEW k \in Section PROVE DraftOK(k)'
    <2>1. drafts[k] \in Draft /\ DraftOK(k) /\ D!None \notin D!Id
      BY DocFacts DEF DocInv, DocTyped
    <2>2. CASE drafts[k].version \in gone
      <3>1. drafts'[k] = [drafts[k] EXCEPT !.version = D!None]
        BY <1>3, <2>2
      <3>2. drafts'[k].version = D!None /\ drafts'[k].source = drafts[k].source
            /\ drafts'[k].generated = drafts[k].generated
        BY <2>1, <3>1 DEF Draft
      <3>3. drafts[k].generated => drafts[k].source = drafts[k].version
        BY <1>4, <2>1, <2>2 DEF DraftOK
      <3>4. (drafts[k].generated => drafts[k].source # D!None /\ ~D!Exists(drafts[k].source))'
        <4>1. PICK w : w = drafts[k].version
          OBVIOUS
        <4>2. w \in gone /\ w \in D!Id /\ w # D!None /\ ~D!Exists(w)'
          BY <1>4, <1>7, <2>1, <2>2, <4>1
        <4>3. drafts[k].generated => drafts'[k].source = w
          BY <3>2, <3>3, <4>1
        <4>4. QED
          BY <3>2, <4>2, <4>3
      <3>5. drafts[k].generated => ~NotYet(drafts[k].source)
        BY <2>1 DEF DraftOK
      <3>6. (drafts[k].generated => ~NotYet(drafts[k].source))'
        BY <1>13, <3>2, <3>5
      <3>7. QED
        BY <3>2, <3>4, <3>6 DEF DraftOK
    <2>3. CASE drafts[k].version \notin gone
      <3>1. drafts'[k] = drafts[k]
        BY <1>3, <2>3
      <3>2. QED
        BY <1>5, <1>13, <1>15, <3>1, DocDraftsStay DEF DocComes
    <2>4. QED
      BY <2>2, <2>3
  <1>18. QED
    BY <1>3, <1>8, <1>9, <1>10, <1>11, <1>12, <1>16, <1>17 DEF DocInv

-------------------------------------------------------------------------------
(* The invariant *)

LEMMA DocStart == D!Init => DocInv
  <1> SUFFICES ASSUME D!Init
               PROVE  DocInv
    OBVIOUS
  <1>0. Requests \subseteq D!Id /\ First \in D!Id /\ D!None \notin D!Id /\ First \notin Requests
    BY UserDataAssumption DEF D!Id, D!None
  <1>1. PICK t \in Text : versions = [v \in D!Id |-> IF v = First
                                  THEN [resume |-> First, number |-> 1, text |-> t, analysed |-> 0]
                                  ELSE D!NoVersion]
    BY DEF D!Init
  <1>2. D!NoVersion \in Version /\ D!NoVersion.resume = D!None /\ D!NoVersion.number = 0
        /\ D!NoVersion.analysed = 0 /\ D!NoGap \in Gap /\ D!NoGap.at = 0 /\ D!NoDraft \in Draft
        /\ D!NoDraft.generated = FALSE
    BY DEF D!NoVersion, Version, D!NoGap, Gap, D!NoDraft, Draft
  <1>3. PICK row : row = [resume |-> First, number |-> 1, text |-> t, analysed |-> 0]
    OBVIOUS
  <1>4. row \in Version /\ row.resume = First /\ row.number = 1 /\ row.analysed = 0
    BY <1>0, <1>3 DEF Version
  <1>5. versions = [v \in D!Id |-> IF v = First THEN row ELSE D!NoVersion]
    BY <1>1, <1>3
  <1>6. row # D!NoVersion
    BY <1>2, <1>4
  <1>7. versions[First] = row /\ D!Exists(First)
        /\ \A v \in D!Id \ {First} : versions[v] = D!NoVersion /\ ~D!Exists(v)
    BY <1>0, <1>5, <1>6 DEF D!Exists
  <1>8. D!Waiting \in DocRequest /\ D!Waiting.at = "idle" /\ D!Waiting.paths = {}
    BY DocWaiting DEF D!Waiting
  <1>9. DocTyped /\ jobAt <= clock
    BY <1>0, <1>2, <1>4, <1>5, <1>8 DEF D!Init, DocTyped
  <1>10. NumbersBounded
    <2>1. \A v \in D!Id : versions[v].number <= 1
      BY <1>2, <1>4, <1>7
    <2>2. QED
      BY <2>1 DEF NumbersBounded
  <1>11. ASSUME NEW r \in Requests PROVE DocRequestOK(r)
    <2>1. docReq[r].at = "idle" /\ docReq[r].paths = {}
      BY <1>8 DEF D!Init
    <2>2. ~D!Exists(r)
      BY <1>0, <1>7
    <2>3. QED
      BY <2>1, <2>2 DEF DocRequestOK, D!At
  <1>12. ASSUME NEW v \in D!Id PROVE VersionOK(v) /\ FileOK(v) /\ GapOK(v)
    <2>1. clock = 0 /\ files = {First} /\ gaps[v] = D!NoGap
      BY DEF D!Init
    <2>2. VersionOK(v)
      BY <1>0, <1>2, <1>4, <1>7, <2>1 DEF VersionOK
    <2>3. FileOK(v)
      BY <1>7, <2>1 DEF FileOK
    <2>4. GapOK(v)
      BY <1>2, <2>1 DEF GapOK
    <2>5. QED
      BY <2>2, <2>3, <2>4
  <1>13. ASSUME NEW k \in Section PROVE DraftOK(k)
    BY <1>2 DEF D!Init, DraftOK
  <1>14. QED
    BY <1>9, <1>10, <1>11, <1>12, <1>13 DEF DocInv

LEMMA DocNext == DocInv /\ [D!Next]_D!vars => DocInv'
  <1> SUFFICES ASSUME DocInv, [D!Next]_D!vars
               PROVE  DocInv'
    OBVIOUS
  <1>1. CASE UNCHANGED D!vars
    BY <1>1 DEF D!vars, D!rowsOfResumes, D!derived, DocInv, DocTyped, NumbersBounded, DocRequestOK,
                NotYet, D!Exists, D!At, VersionOK, FileOK, GapOK, DraftOK, D!Busy
  <1>2. ASSUME NEW r \in Requests, D!Step(r) PROVE DocInv'
    <2>1. CASE D!CreateResume(r)  BY <2>1, DocCreateResume
    <2>2. CASE D!StoreFile(r)  BY <2>2, DocStoreFile
    <2>3. CASE D!CreateVersion(r)
      <3>1. CASE D!CanInsert(r)
        BY <2>3, <3>1, DocInserted DEF D!CreateVersion
      <3>2. CASE ~D!CanInsert(r)
        BY <2>3, <3>2, DocRefused DEF D!CreateVersion
      <3>3. QED
        BY <3>1, <3>2
    <2>4. CASE D!CreateVersionUnheard(r)
      BY <2>4, DocInserted DEF D!CreateVersionUnheard
    <2>5. CASE D!Unlink(r)  BY <2>5, DocUnlink
    <2>6. CASE D!LookAtSelection(r)  BY <2>6, DocLookAtSelection
    <2>7. CASE D!SetSelected(r)  BY <2>7, DocSetSelected
    <2>8. CASE D!DeleteResume(r)  BY <2>8, DocDeleteResume
    <2>9. CASE D!DeleteFiles(r)  BY <2>9, DocDeleteFiles
    <2>10. CASE D!WriteAnalysis(r)  BY <2>10, DocWriteAnalysis
    <2>11. CASE D!AnalyseJob(r)  BY <2>11, DocAnalyseJob
    <2>12. CASE D!ReadGap(r)  BY <2>12, DocReadGap
    <2>13. CASE D!WriteGap(r)  BY <2>13, DocWriteGap
    <2>14. CASE D!ReadContext(r)  BY <2>14, DocReadContext
    <2>15. CASE D!Stop(r)  BY <2>15, DocStop
    <2>16. CASE \E k \in Section : \/ D!WriteDraft(r, k) \/ D!FailDraft(r, k)
                                  \/ D!RefuseDraft(r, k) \/ D!SaveDraft(r, k)
      BY <2>16, DocWriteDraft, DocFailDraft, DocSaveDraft
    <2>17. CASE D!BeginGet(r) \/ D!Answer(r)
      BY <2>17, DocBeginGet, DocAnswer
    <2>18. QED
      BY <1>2, <2>1, <2>2, <2>3, <2>4, <2>5, <2>6, <2>7, <2>8, <2>9, <2>10, <2>11, <2>12,
         <2>13, <2>14, <2>15, <2>16, <2>17 DEF D!Step
  <1>3. ASSUME NEW r \in Requests, NEW t \in Text,
               D!BeginUpload(r, t) \/ \E q \in D!Id : D!BeginNextVersion(r, q, t)
        PROVE  DocInv'
    BY <1>3, DocBeginUpload, DocBeginNextVersion
  <1>4. ASSUME NEW r \in Requests, NEW q \in D!Id, D!BeginSelect(r, q) \/ D!BeginDelete(r, q)
        PROVE  DocInv'
    BY <1>4, DocBeginSelect, DocBeginDelete
  <1>5. ASSUME NEW r \in Requests, NEW force \in BOOLEAN, NEW v \in D!Id,
               D!BeginAnalyse(r, v, force) \/ D!BeginGap(r, v, force)
        PROVE  DocInv'
    BY <1>5, DocBeginAnalyse, DocBeginGap
  <1>6. ASSUME NEW r \in Requests, NEW force \in BOOLEAN, NEW kinds \in SUBSET Section \ {{}},
               D!BeginGenerate(r, kinds, force)
        PROVE  DocInv'
    BY <1>6, DocBeginGenerate
  <1>7. QED
    BY <1>1, <1>2, <1>3, <1>4, <1>5, <1>6 DEF D!Next

-------------------------------------------------------------------------------
(* What the invariant implies *)

LEMMA DocFilesMatch == DocInv => D!FilesMatchVersions
  <1> SUFFICES ASSUME DocInv
               PROVE  D!FilesMatchVersions
    OBVIOUS
  <1>1. \A v \in D!Id : FileOK(v)
    BY DEF DocInv
  <1>2. \A v \in files : v \in D!Id
    BY DEF DocInv, DocTyped
  <1>3. QED
    BY <1>1, <1>2 DEF D!FilesMatchVersions, FileOK, D!Busy

LEMMA DocGapsFresh == DocInv => D!FreshGapIsCurrent
  <1> SUFFICES ASSUME DocInv, NEW r \in Requests, D!At(r, "cached"), D!IsFresh(r),
                      NEW v, v = docReq[r].version, ~gaps[v].late,
                      docReq[r].read = versions[v].analysed, docReq[r].job = jobAt
               PROVE  gaps[v].resume = docReq[r].read /\ gaps[v].job = docReq[r].job
    BY DEF D!FreshGapIsCurrent
  <1>1. v \in D!Id
    BY DEF DocInv, DocRequestOK, D!At
  <1>2. gaps[v] \in Gap /\ GapOK(v) /\ gaps[v] # D!NoGap /\ gaps[v].at >= docReq[r].read
        /\ gaps[v].at >= docReq[r].job
    BY <1>1 DEF DocInv, DocTyped, D!IsFresh
  <1>3. gaps[v].at \in Nat /\ versions[v].analysed \in Nat /\ jobAt \in Nat
    BY <1>1, <1>2, DocFacts DEF Gap, Version, DocInv, DocTyped
  <1>4. QED
    BY <1>2, <1>3 DEF GapOK

LEMMA DocDraftsCurrent == DocInv => D!CurrentIsFromSelected
  <1> SUFFICES ASSUME DocInv, NEW r \in Requests, NEW k \in Section,
                      drafts[k].generated, ~D!ShownStale(k, docReq[r].version)
               PROVE  \/ drafts[k].source = docReq[r].version
                      \/ /\ docReq[r].version = D!None /\ drafts[k].source # D!None
                         /\ ~D!Exists(drafts[k].source)
    BY DEF D!CurrentIsFromSelected
  <1>1. DraftOK(k) /\ drafts[k].version = docReq[r].version
    BY DEF DocInv, D!ShownStale
  <1>2. QED
    BY <1>1 DEF DraftOK

LEMMA DocumentsInside == UserSpec => []DocInv
  <1>1. UserInit => DocInv
    BY DocStart DEF UserInit
  <1>2. DocInv /\ [UserNext]_<<vars, documents, sessions, part>> => DocInv'
    <2>1. [UserNext]_<<vars, documents, sessions, part>> => [D!Next]_D!vars
      BY DEF UserNext, documents, D!vars
    <2>2. QED
      BY <2>1, DocNext
  <1>3. QED
    BY <1>1, <1>2, PTL DEF UserSpec

\* Versions and files belong together, whatever overlaps, fails or stops, but for
\* what the model names as left behind (resume_service.py:80-98, 120-123).
THEOREM FilesMatchVersionsAlways == UserSpec => []FilesMatchVersions
  BY DocumentsInside, DocFilesMatch, PTL DEF FilesMatchVersions

\* What is served from the cache as fresh is made from the present analyses, but
\* for the late gaps (resume_gap_service.py:215, 258-265, 300).
THEOREM FreshGapIsCurrentAlways == UserSpec => []FreshGapIsCurrent
  BY DocumentsInside, DocGapsFresh, PTL DEF FreshGapIsCurrent

\* A draft that get or generate shows as current was made from the version that
\* was selected when the request looked, for generate before it called the model
\* (application_assistant_service.py:164-165, 179, 210).
THEOREM CurrentIsFromSelectedAlways == UserSpec => []CurrentIsFromSelected
  BY DocumentsInside, DocDraftsCurrent, PTL DEF CurrentIsFromSelected

-------------------------------------------------------------------------------
(* Sessions *)

SP == INSTANCE SessionsProofs WITH req <- call, Requests <- Calls

LEMMA SessionsSameSteps ==
    ASSUME NEW r \in Calls, S!Step(r)
    PROVE  SP!Step(r)
  BY DEF S!Step, SP!Step, S!BeginRegister, SP!BeginRegister, S!CreateUser, SP!CreateUser,
         S!UpsertProfile, SP!UpsertProfile, S!BeginLogin, SP!BeginLogin, S!SetKey,
         SP!SetKey, S!AddToFamily, SP!AddToFamily, S!GetKey, SP!GetKey, S!FindUser,
         SP!FindUser, S!DeleteKey, SP!DeleteKey, S!RemoveFromFamily, SP!RemoveFromFamily,
         S!ReadFamily, SP!ReadFamily, S!DeleteKeys, SP!DeleteKeys, S!DropFamily,
         SP!DropFamily, S!Stop, SP!Stop, S!At, SP!At, S!Goto, SP!Goto, S!Busy, SP!Busy,
         S!history, SP!history, S!None, SP!None

LEMMA SamePresented ==
    ASSUME NEW r \in Calls, NEW t, S!BeginRefresh(r, t) \/ S!BeginLogout(r, t)
    PROVE  SP!BeginRefresh(r, t) \/ SP!BeginLogout(r, t)
  BY DEF S!Present, SP!Present, S!BeginRefresh, SP!BeginRefresh, S!BeginLogout,
         SP!BeginLogout, S!At, SP!At, S!Busy, SP!Busy

LEMMA SessionsInside == UserSpec => SP!Spec
  <1>1. UserInit => SP!Init
    BY DEF UserInit, S!Init, SP!Init, S!Waiting, SP!Waiting, S!None, SP!None
  <1>2. S!Next => SP!Next
    BY SessionsSameSteps, SamePresented DEF S!Next, SP!Next, S!Token, SP!Token
  <1>3. [UserNext]_<<vars, documents, sessions, part>> => [SP!Next]_SP!vars
    BY <1>2 DEF UserNext, sessions, SP!vars
  <1>4. QED
    BY <1>1, <1>3, PTL DEF UserSpec, SP!Spec

\* Each token with a key is where a revoke_all finds it, but for one being issued
\* and those a revoke_all has dropped without listing (auth_service.py:104-119).
THEOREM LiveIsListedAlways == UserSpec => []LiveIsListed
  <1>1. SP!LiveIsListed => LiveIsListed
    BY DEF LiveIsListed, S!LiveIsListed, SP!LiveIsListed, S!At, SP!At
  <1>2. QED
    BY <1>1, SessionsInside, SP!LiveIsListedHolds, PTL

\* After a replay is answered no token that the clients had when it began works
\* (auth_service.py:73-74).
THEOREM ReplayEndsAllAlways == UserSpec => []ReplayEndsAll
  <1>1. SP!ReplayEndsAll => ReplayEndsAll
    BY DEF ReplayEndsAll, S!ReplayEndsAll, SP!ReplayEndsAll
  <1>2. QED
    BY <1>1, SessionsInside, SP!ReplayEndsAllHolds, PTL

\* A token no two requests overlapped on is rotated once (auth_service.py:71-88).
THEOREM RotatedOnceAlways == UserSpec => []RotatedOnce
  <1>1. SP!RotatedOnce => RotatedOnce
    BY DEF RotatedOnce, S!RotatedOnce, SP!RotatedOnce, S!Token, SP!Token, S!Cardinality,
           SP!Cardinality
  <1>2. QED
    BY <1>1, SessionsInside, SP!RotatedOnceHolds, PTL
===============================================================================
