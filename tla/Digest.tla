--------------------------------- MODULE Digest ---------------------------------
(*****************************************************************************)
(* send_daily_digest: AgentTasks.send_daily_digest, DailyDigestService and   *)
(* NotificationRepository.create_if_absent.  A task run (the chain's job, a  *)
(* run started by hand, a second worker) serves the users one after another  *)
(* and each user's channels one after another; runs overlap, every step is   *)
(* one call to the database or to a provider, and a run that raises or is    *)
(* killed starts over, up to MaxTries times.                                 *)
(*                                                                           *)
(* Providers are external: a send that reports success was delivered; one    *)
(* that raises NotificationSendError may have been (a connection lost after  *)
(* the message was accepted).                                                *)
(*****************************************************************************)
EXTENDS Naturals, Sequences, FiniteSets

CONSTANTS
    Run,        \* the runs of the task
    User,
    Channel,    \* channels with an external delivery: EMAIL, TELEGRAM
    InApp,      \* the IN_APP channel: its row is the delivery
    Worklist,   \* users in the order of list_active, with the channels each has
                \* enabled, InApp first: a sequence of <<user, channel>>
    MaxTries,
    LastDate    \* bound: UTC dates are 1..LastDate

Date == 1..LastDate

\* dedupeKey = digest:{userId}:{date}:{channel}
Key == User \X Date \X (Channel \union {InApp})

ASSUME WorklistAssumption ==
    /\ Worklist \in Seq(User \X (Channel \union {InApp}))
    /\ \A i \in DOMAIN Worklist :
           (i = 1 \/ Worklist[i - 1][1] # Worklist[i][1]) => Worklist[i][2] = InApp
    /\ InApp \notin Channel
    /\ LastDate \in Nat \ {0}
    /\ MaxTries \in Nat \ {0}

VARIABLES
    today,
    rows,       \* Notification.status per key, "absent" without a row
    pc,         \* the call each run makes next
    todo,       \* what is left of the worklist; the first is in hand
    runDate,    \* run_date of each run's current try
    tries,      \* tries each run has begun
    passed,     \* history: users each run's current try passed over, with no
                \* digest to send or with a call that raised
    delivered,  \* history: messages a provider delivered, per key
    unrecorded, \* history: keys delivered to without the row being marked SENT
    contended   \* history: keys two runs were sending at the same time

vars == <<today, rows, pc, todo, runDate, tries, passed, delivered,
          unrecorded, contended>>

Status == {"absent", "PENDING", "SENT", "FAILED"}
Label == {"idle", "user", "find", "create", "send", "markSent", "markFailed", "done"}

TypeOK ==
    /\ today \in Date
    /\ rows \in [Key -> Status]
    /\ pc \in [Run -> Label]
    /\ todo \in [Run -> Seq(User \X (Channel \union {InApp}))]
    /\ runDate \in [Run -> Date]
    /\ tries \in [Run -> 0..MaxTries]
    /\ passed \in [Run -> SUBSET User]
    /\ delivered \in [Key -> Nat]
    /\ unrecorded \subseteq Key
    /\ contended \subseteq Key

Init ==
    /\ today = 1
    /\ rows = [k \in Key |-> "absent"]
    /\ pc = [r \in Run |-> "idle"]
    /\ todo = [r \in Run |-> << >>]
    /\ runDate = [r \in Run |-> 1]
    /\ tries = [r \in Run |-> 0]
    /\ passed = [r \in Run |-> {}]
    /\ delivered = [k \in Key |-> 0]
    /\ unrecorded = {}
    /\ contended = {}

InHand(r) == Head(todo[r])
UserOf(r) == InHand(r)[1]
KeyOf(r) == <<InHand(r)[1], runDate[r], InHand(r)[2]>>

history == <<passed, delivered, unrecorded, contended>>

Goto(r, label) == pc' = [pc EXCEPT ![r] = label]

\* Next in the worklist: another channel of the user, or another user.
NextLabel(rest, user) ==
    IF rest = << >> THEN "done"
    ELSE IF Head(rest)[1] = user THEN "find" ELSE "user"

Advance(r) ==
    /\ todo' = [todo EXCEPT ![r] = Tail(@)]
    /\ Goto(r, NextLabel(Tail(todo[r]), UserOf(r)))

\* On to the first entry of another user, if there is one.
SkipUser(r) ==
    /\ passed' = [passed EXCEPT ![r] = @ \union {UserOf(r)}]
    /\ LET Same(i) == todo[r][i][1] = UserOf(r)
       IN  \/ /\ \A i \in DOMAIN todo[r] : Same(i)
              /\ todo' = [todo EXCEPT ![r] = << >>]
              /\ Goto(r, "done")
           \/ \E i \in DOMAIN todo[r] :
                 /\ ~Same(i) /\ \A j \in 1..(i - 1) : Same(j)
                 /\ todo' = [todo EXCEPT ![r] = SubSeq(@, i, Len(@))]
                 /\ Goto(r, "user")

-------------------------------------------------------------------------------

\* run_date is today's, on every try anew.
Begin(r) ==
    /\ pc[r] = "idle" /\ tries[r] < MaxTries
    /\ tries' = [tries EXCEPT ![r] = @ + 1]
    /\ passed' = [passed EXCEPT ![r] = {}]
    /\ runDate' = [runDate EXCEPT ![r] = today]
    /\ todo' = [todo EXCEPT ![r] = Worklist]
    /\ Goto(r, IF Worklist = << >> THEN "done" ELSE "user")
    /\ UNCHANGED <<today, rows, delivered, unrecorded, contended>>

\* The profile has a digest to send, or has digests disabled or no matches.
BuildDigest(r) ==
    /\ pc[r] = "user"
    /\ \/ Goto(r, "find") /\ UNCHANGED <<todo, passed>>
       \/ SkipUser(r)
    /\ UNCHANGED <<today, rows, runDate, tries, delivered, unrecorded, contended>>

Sending(r) == pc[r] \in {"send", "markSent", "markFailed"}

\* Mutant of FindRow: a row that is SENT is sent again.
FindRowResends(r) ==
    /\ pc[r] = "find"
    /\ IF rows[KeyOf(r)] = "absent" THEN Goto(r, "create") /\ UNCHANGED todo
       ELSE IF InHand(r)[2] \in Channel THEN Goto(r, "send") /\ UNCHANGED todo
       ELSE Advance(r)
    /\ contended' = contended \union
         {k \in {KeyOf(r)} : \E q \in Run \ {r} : Sending(q) /\ KeyOf(q) = k}
    /\ UNCHANGED <<today, rows, runDate, tries, passed, delivered, unrecorded>>

\* create_if_absent looks the key up; a row there is "deduped" if it is SENT or
\* needs no sending, and sent again if it is PENDING or FAILED.
FindRow(r) ==
    /\ pc[r] = "find"
    /\ \/ /\ rows[KeyOf(r)] = "absent"
          /\ Goto(r, "create") /\ UNCHANGED <<todo, contended>>
       \/ /\ rows[KeyOf(r)] \in {"PENDING", "FAILED"} /\ InHand(r)[2] \in Channel
          /\ Goto(r, "send") /\ UNCHANGED todo
          /\ contended' = contended \union
               {k \in {KeyOf(r)} : \E q \in Run \ {r} : Sending(q) /\ KeyOf(q) = k}
       \/ /\ rows[KeyOf(r)] # "absent"
          /\ rows[KeyOf(r)] = "SENT" \/ InHand(r)[2] = InApp
          /\ Advance(r) /\ UNCHANGED contended
    /\ UNCHANGED <<today, rows, runDate, tries, passed, delivered, unrecorded>>

\* The row of the in-app channel is the delivery and stays PENDING.
CreateRow(r) ==
    /\ pc[r] = "create"
    /\ rows[KeyOf(r)] = "absent"
    /\ rows' = [rows EXCEPT ![KeyOf(r)] = "PENDING"]
    /\ IF InHand(r)[2] = InApp THEN Advance(r) ELSE Goto(r, "send") /\ UNCHANGED todo
    /\ UNCHANGED <<today, runDate, tries, history>>

\* UniqueViolationError: look the winner's row up.
LoseCreate(r) ==
    /\ pc[r] = "create"
    /\ rows[KeyOf(r)] # "absent"
    /\ Goto(r, "find")
    /\ UNCHANGED <<today, rows, todo, runDate, tries, history>>

\* provider.send: accepted; refused; or refused as far as the run can tell.
Send(r) ==
    /\ pc[r] = "send"
    /\ \/ /\ Goto(r, "markSent")
          /\ delivered' = [delivered EXCEPT ![KeyOf(r)] = @ + 1]
          /\ UNCHANGED unrecorded
       \/ /\ Goto(r, "markFailed")
          /\ UNCHANGED <<delivered, unrecorded>>
       \/ /\ Goto(r, "markFailed")
          /\ delivered' = [delivered EXCEPT ![KeyOf(r)] = @ + 1]
          /\ unrecorded' = unrecorded \union {KeyOf(r)}
    /\ UNCHANGED <<today, rows, todo, runDate, tries, passed, contended>>

MarkSent(r) ==
    /\ pc[r] = "markSent"
    /\ rows' = [rows EXCEPT ![KeyOf(r)] = "SENT"]
    /\ Advance(r)
    /\ UNCHANGED <<today, runDate, tries, history>>

\* Mutant of MarkFailed: the wrong status.
MarkFailedAsSent(r) ==
    /\ pc[r] = "markFailed"
    /\ rows' = [rows EXCEPT ![KeyOf(r)] = "SENT"]
    /\ Advance(r)
    /\ UNCHANGED <<today, runDate, tries, history>>

MarkFailed(r) ==
    /\ pc[r] = "markFailed"
    /\ rows' = [rows EXCEPT ![KeyOf(r)] = "FAILED"]
    /\ Advance(r)
    /\ UNCHANGED <<today, runDate, tries, history>>

\* What is forgotten when a run does not get to record what it delivered.
Forget(r) ==
    unrecorded' = unrecorded \union {k \in {KeyOf(r)} : pc[r] = "markSent"}

\* Mutant of UserFails: the exception ends the loop over the users.
UserFailsSinks(r) ==
    /\ pc[r] \in Label \ {"idle", "send", "done"}
    /\ Forget(r)
    /\ passed' = [passed EXCEPT ![r] = @ \union {UserOf(r)}]
    /\ todo' = [todo EXCEPT ![r] = << >>]
    /\ Goto(r, "done")
    /\ UNCHANGED <<today, rows, runDate, tries, delivered, contended>>

\* A database call raises: the user is given up, the others are served.
UserFails(r) ==
    /\ pc[r] \in Label \ {"idle", "send", "done"}
    /\ Forget(r)
    /\ SkipUser(r)
    /\ UNCHANGED <<today, rows, runDate, tries, delivered, contended>>

\* The worker stops, or the try is cancelled: arq starts the run over.
Crash(r) ==
    /\ pc[r] \in Label \ {"idle", "done"}
    /\ Forget(r)
    /\ Goto(r, "idle")
    /\ todo' = [todo EXCEPT ![r] = << >>]
    /\ UNCHANGED <<today, rows, runDate, tries, passed, delivered, contended>>

Midnight ==
    /\ today < LastDate
    /\ today' = today + 1
    /\ UNCHANGED <<rows, pc, todo, runDate, tries, history>>

RunStep(r) ==
    \/ BuildDigest(r) \/ FindRow(r) \/ CreateRow(r) \/ LoseCreate(r)
    \/ Send(r) \/ MarkSent(r) \/ MarkFailed(r)

Next ==
    \/ Midnight
    \/ \E r \in Run : Begin(r) \/ RunStep(r) \/ UserFails(r) \/ Crash(r)

Spec == Init /\ [][Next]_vars

-------------------------------------------------------------------------------
(* Properties *)

\* What the dedupeKey protocol does guarantee: a digest goes out twice on a
\* channel only if two runs were sending it at once, or a delivery was not
\* recorded before its run ended (daily_digest_service.py:160-177).
TwiceOnlyIfUnrecorded ==
    \A k \in Key : delivered[k] > 1 => k \in contended \union unrecorded

\* A row is SENT only if the provider delivered the message; a message is
\* delivered only for a row that exists and a channel that has a provider, and
\* only once the digest of that user and date is in the app, where it is found
\* even if no provider works ("in-app: always", daily_digest_service.py:136).
SentMeansDelivered ==
    \A k \in Key :
        /\ rows[k] = "SENT" => delivered[k] > 0
        /\ delivered[k] > 0 => /\ rows[k] # "absent" /\ k[3] \in Channel
                               /\ rows[<<k[1], k[2], InApp>>] # "absent"

\* "one user must not sink the batch" (tasks.py:129): when a run has come to its
\* end, every channel of every user it did not pass over has been dealt with for
\* its date, by it or by another run: the in-app row is there, and a message was
\* marked SENT or FAILED - whichever users or sends failed before, and whatever
\* runs overlapped, broke off or began over.
DealtWith(k) == rows[k] # "absent" /\ (k[3] \in Channel => rows[k] # "PENDING")

NobodySunk ==
    \A r \in Run : pc[r] = "done" =>
        \A i \in DOMAIN Worklist :
            LET user == Worklist[i][1]
            IN  user \in passed[r] \/ DealtWith(<<user, runDate[r], Worklist[i][2]>>)

\* "retries can never ... double-send" (docs/database.md:107-109).
NeverDoubleSend == \A k \in Key : delivered[k] <= 1
===============================================================================
