------------------------------- MODULE Sessions -------------------------------
(*****************************************************************************)
(* The refresh tokens of one user in Redis, and the account they belong to:  *)
(* auth_service.py.  A token is a key of its own and a member of the user's  *)
(* family; each Redis or database call is a step.  A token is named by the   *)
(* request that issues it.  The JWT expires before its key does, so expiry   *)
(* of keys is left out.                                                      *)
(*****************************************************************************)
EXTENDS Naturals, FiniteSets

CONSTANT Requests  \* calls of the API, each made once

Token == Requests

VARIABLES
    account,   \* the user: no row, a row, a row with its profile
    live,      \* tokens with a refresh:<jti> key
    family,    \* refresh_user:<id>
    held,      \* tokens the clients have received
    req,       \* what each request is doing
    missed,    \* history: tokens a revoke_all dropped from the family unrevoked,
               \* or whose issue stopped before they were in it
    closed,    \* history: tokens a finished revoke_all must have ended
    overlap,   \* history: tokens two requests worked on at once
    rotations  \* history: pairs of a token and one issued for it

vars == <<account, live, family, held, req, missed, closed, overlap, rotations>>
history == <<missed, closed, overlap, rotations>>

None == "none"
Waiting == [at |-> "idle", then |-> "ended", token |-> None, listed |-> {}, before |-> {}]

TypeOK ==
    /\ account \in {"none", "bare", "profiled"}
    /\ live \subseteq Token /\ family \subseteq Token /\ held \subseteq Token
    /\ req \in [Requests -> [at : {"idle", "create", "find", "profile", "get", "delete", "remove",
                                   "set", "add", "members", "deleteAll", "drop", "ended"},
                             then : {"set", "ended"}, token : Token \union {None},
                             listed : SUBSET Token, before : SUBSET Token]]
    /\ missed \subseteq Token /\ closed \subseteq Token /\ overlap \subseteq Token
    /\ rotations \subseteq Token \X Token

Init ==
    /\ account \in {"none", "profiled"}
    /\ live = {} /\ family = {} /\ held = {}
    /\ req = [r \in Requests |-> Waiting]
    /\ missed = {} /\ closed = {} /\ overlap = {} /\ rotations = {}

At(r, place) == req[r].at = place
Goto(r, place) == req' = [req EXCEPT ![r].at = place]
Busy(r) == req[r].at \notin {"idle", "ended"}

-------------------------------------------------------------------------------
(* register and login *)

\* 409 if the address is taken; the loser of a race meets the unique key.
BeginRegister(r) ==
    /\ At(r, "idle") /\ account = "none"
    /\ Goto(r, "create")
    /\ UNCHANGED <<account, live, family, held, history>>

CreateUser(r) ==
    /\ At(r, "create")
    /\ IF account = "none" THEN account' = "bare" /\ Goto(r, "profile")
       ELSE Goto(r, "ended") /\ UNCHANGED account
    /\ UNCHANGED <<live, family, held, history>>

UpsertProfile(r) ==
    /\ At(r, "profile")
    /\ account' = "profiled"
    /\ Goto(r, "ended")
    /\ UNCHANGED <<live, family, held, history>>

\* A password that is verified.
BeginLogin(r) ==
    /\ At(r, "idle") /\ account # "none"
    /\ Goto(r, "set")
    /\ UNCHANGED <<account, live, family, held, history>>

-------------------------------------------------------------------------------
(* _issue_tokens, _revoke, _revoke_all *)

SetKey(r) ==
    /\ At(r, "set")
    /\ live' = live \union {r}
    /\ Goto(r, "add")
    /\ UNCHANGED <<account, family, held, history>>

\* Mutant of AddToFamily: the token is not made a member.
AddNothing(r) ==
    /\ At(r, "add")
    /\ held' = held \union {r}
    /\ Goto(r, "ended")
    /\ rotations' = rotations \union (({req[r].token} \X {r}) \ ({None} \X {r}))
    /\ UNCHANGED <<account, live, family, missed, closed, overlap>>

\* SADD and EXPIRE; then the answer carries the token.
AddToFamily(r) ==
    /\ At(r, "add")
    /\ family' = family \union {r}
    /\ held' = held \union {r}
    /\ Goto(r, "ended")
    /\ rotations' = rotations \union (({req[r].token} \X {r}) \ ({None} \X {r}))
    /\ UNCHANGED <<account, live, missed, closed, overlap>>

Present(r, t, place, then) ==
    /\ At(r, "idle") /\ t \in held
    /\ req' = [req EXCEPT ![r] = [at |-> place, then |-> then, token |-> t,
                                  listed |-> {}, before |-> held]]
    /\ overlap' = IF \E q \in Requests : Busy(q) /\ req[q].token = t
                  THEN overlap \union {t} ELSE overlap
    /\ UNCHANGED <<account, live, family, held, missed, closed, rotations>>

BeginRefresh(r, t) == Present(r, t, "get", "set")
BeginLogout(r, t) == Present(r, t, "delete", "ended")

\* A token without a key has been rotated before.
GetKey(r) ==
    /\ At(r, "get")
    /\ Goto(r, IF req[r].token \in live THEN "find" ELSE "members")
    /\ UNCHANGED <<account, live, family, held, history>>

\* The user is read: one who is inactive by now gets 401.
FindUser(r) ==
    /\ At(r, "find")
    /\ \/ Goto(r, "delete")
       \/ Goto(r, "ended")
    /\ UNCHANGED <<account, live, family, held, history>>

\* Mutant of DeleteKey: the key stays until it expires.
DeleteNoKey(r) ==
    /\ At(r, "delete")
    /\ Goto(r, "remove")
    /\ UNCHANGED <<account, live, family, held, history>>

DeleteKey(r) ==
    /\ At(r, "delete")
    /\ live' = live \ {req[r].token}
    /\ Goto(r, "remove")
    /\ UNCHANGED <<account, family, held, history>>

\* A refresh goes on to issue, a logout is over.
RemoveFromFamily(r) ==
    /\ At(r, "remove")
    /\ family' = family \ {req[r].token}
    /\ Goto(r, req[r].then)
    /\ UNCHANGED <<account, live, held, history>>

ReadFamily(r) ==
    /\ At(r, "members")
    /\ req' = [req EXCEPT ![r].listed = family, ![r].at = "deleteAll"]
    /\ UNCHANGED <<account, live, family, held, history>>

\* Mutant of DeleteKeys: the token presented alone.
DeleteOneKey(r) ==
    /\ At(r, "deleteAll")
    /\ live' = live \ {req[r].token}
    /\ Goto(r, "drop")
    /\ UNCHANGED <<account, family, held, history>>

DeleteKeys(r) ==
    /\ At(r, "deleteAll")
    /\ live' = live \ req[r].listed
    /\ Goto(r, "drop")
    /\ UNCHANGED <<account, family, held, history>>

DropFamily(r) ==
    /\ At(r, "drop")
    /\ family' = {}
    /\ missed' = missed \union (family \ req[r].listed)
    /\ closed' = closed \union (req[r].before \ missed)
    /\ Goto(r, "ended")
    /\ UNCHANGED <<account, live, held, overlap, rotations>>

\* An exception, a client that has gone, a restart.
Stop(r) ==
    /\ Busy(r)
    /\ Goto(r, "ended")
    /\ missed' = IF At(r, "add") THEN missed \union {r} ELSE missed
    /\ UNCHANGED <<account, live, family, held, closed, overlap, rotations>>

-------------------------------------------------------------------------------

Step(r) ==
    \/ BeginRegister(r) \/ CreateUser(r) \/ UpsertProfile(r) \/ BeginLogin(r)
    \/ SetKey(r) \/ AddToFamily(r) \/ GetKey(r) \/ FindUser(r) \/ DeleteKey(r)
    \/ RemoveFromFamily(r) \/ ReadFamily(r) \/ DeleteKeys(r) \/ DropFamily(r) \/ Stop(r)

Next ==
    \E r \in Requests : Step(r) \/ \E t \in Token : BeginRefresh(r, t) \/ BeginLogout(r, t)

Spec == Init /\ [][Next]_vars

-------------------------------------------------------------------------------
(* Properties *)

\* Each token that still works is in the family, where a revoke_all finds it:
\* but for one just being issued, and one a revoke_all did not list and dropped
\* with the family (auth_service.py:104-119).
LiveIsListed ==
    \A t \in live : t \in family \union missed \/ At(t, "add")

\* "Every refresh token of that user is revoked" (auth_service.py:73-74): none
\* that was in a client's hands when the replay began works after it is
\* answered, whatever was issued meanwhile.
ReplayEndsAll == closed \intersect live = {}

\* A token is rotated once: two tokens are issued for one only when two requests
\* presented it at the same time (auth_service.py:71-88).
RotatedOnce ==
    \A t \in Token \ overlap : Cardinality({u \in Token : <<t, u>> \in rotations}) <= 1
===============================================================================
