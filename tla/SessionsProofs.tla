---------------------------- MODULE SessionsProofs ----------------------------
(*****************************************************************************)
(* What rotation and revocation keep, for any number of overlapping requests *)
(* and tokens.                                                               *)
(*****************************************************************************)
EXTENDS Sessions, FiniteSetTheorems, TLAPS

Place == {"idle", "create", "find", "profile", "get", "delete", "remove",
          "set", "add", "members", "deleteAll", "drop", "ended"}

Request == [at : Place, then : {"set", "ended"}, token : Token \union {None},
            listed : SUBSET Token, before : SUBSET Token]

\* A token that anybody knows of was issued by a request that is over, so its
\* key is never set again.
Issued ==
    /\ \A t \in held \union family \union closed : At(t, "ended")
    /\ \A r \in Requests : \A t \in req[r].listed \union req[r].before : At(t, "ended")
    /\ \A r \in Requests :
           req[r].token # None \/ req[r].at \in {"get", "find", "delete", "remove"} =>
               req[r].token \in Requests /\ At(req[r].token, "ended")

\* A request goes on to issue only after the token presented has lost its key.
Spent ==
    \A r \in Requests :
        /\ At(r, "idle") => req[r].token = None
        /\ \/ At(r, "remove")
           \/ req[r].at \in {"set", "add"} /\ req[r].token # None
           => req[r].token \notin live

\* How far a revoke_all has got with the tokens that were there when it began.
Revoking ==
    \A r \in Requests :
        /\ At(r, "deleteAll") => req[r].before \intersect live \subseteq req[r].listed \union missed
        /\ At(r, "drop") => /\ req[r].listed \intersect live = {}
                            /\ req[r].before \intersect live \subseteq missed

\* A token that was rotated has no key, and one that has one was not.
Rotated(t) == \E u \in Token : <<t, u>> \in rotations
Rotates(r) == \/ req[r].at \in {"find", "set", "add"}
              \/ req[r].at \in {"delete", "remove"} /\ req[r].then = "set"
Presents(r, t) == Busy(r) /\ req[r].token = t

RotatedIsSpent == \A t \in Token : Rotated(t) => t # None /\ t \notin live /\ At(t, "ended")

\* One request at most presents a token that no two overlapped on, it has not
\* been rotated by then, and it is rotated once.
PresentedOnce ==
    \A t \in Token \ (overlap \union {None}) : \A r, q \in Requests :
        Presents(r, t) /\ Presents(q, t) => r = q

FreshWhenPresented ==
    \A t \in Token \ (overlap \union {None}) : \A r \in Requests :
        Presents(r, t) /\ Rotates(r) => ~Rotated(t)

OneSuccessor ==
    \A t \in Token \ (overlap \union {None}) : \A u, v \in Token :
        <<t, u>> \in rotations /\ <<t, v>> \in rotations => u = v

IInv ==
    /\ TypeOK /\ Issued /\ Spent /\ LiveIsListed /\ Revoking /\ ReplayEndsAll
    /\ RotatedIsSpent /\ PresentedOnce /\ FreshWhenPresented /\ OneSuccessor


-------------------------------------------------------------------------------
(* What a step of one request leaves alone *)

\* r comes to a place with these attributes.
Comes(r, place, then, token, listed, before) ==
    /\ req' \in [Requests -> Request]
    /\ req'[r] = [at |-> place, then |-> then, token |-> token, listed |-> listed,
                  before |-> before]
    /\ \A s \in Requests \ {r} : req'[s] = req[s]

LEMMA GotoComes ==
    ASSUME TypeOK, NEW r \in Requests, NEW place \in Place, Goto(r, place)
    PROVE  Comes(r, place, req[r].then, req[r].token, req[r].listed, req[r].before)
  <1>1. req \in [Requests -> Request] /\ req[r] \in Request
    BY DEF TypeOK, Request, Place
  <1>2. QED
    BY <1>1 DEF Goto, Comes, Request

\* An issue that is over stays over.
LEMMA EndedStays ==
    ASSUME NEW r \in Requests, ~At(r, "ended"), \A s \in Requests \ {r} : req'[s] = req[s],
           NEW t \in Requests, At(t, "ended")
    PROVE  At(t, "ended")'
  BY DEF At

\* The record of r is all that the invariant needs to know of its step.
LEMMA Records ==
    ASSUME NEW r \in Requests, NEW place, NEW then, NEW token, NEW listed, NEW before,
           Comes(r, place, then, token, listed, before)
    PROVE  /\ req'[r].at = place /\ req'[r].then = then /\ req'[r].token = token
           /\ req'[r].listed = listed /\ req'[r].before = before
           /\ \A s \in Requests \ {r} : req'[s] = req[s]
  BY DEF Comes

-------------------------------------------------------------------------------
(* The steps *)

LEMMA RegisterKeeps ==
    ASSUME IInv, NEW r \in Requests, BeginRegister(r)
    PROVE  IInv'
  <1>0. /\ TypeOK /\ Issued /\ Spent /\ LiveIsListed /\ Revoking /\ ReplayEndsAll
        /\ RotatedIsSpent /\ PresentedOnce /\ FreshWhenPresented /\ OneSuccessor
    BY DEF IInv
  <1>1. Comes(r, "create", req[r].then, req[r].token, req[r].listed, req[r].before)
    BY <1>0, GotoComes DEF BeginRegister, Place
  <1>2. ~At(r, "ended") /\ \A t \in Requests : At(t, "ended") => At(t, "ended")'
    BY <1>1, EndedStays DEF BeginRegister, At, Comes
  <1>3. /\ live \subseteq Requests /\ family \subseteq Requests /\ held \subseteq Requests
        /\ closed \subseteq Requests
        /\ \A s \in Requests : req[s].listed \subseteq Requests /\ req[s].before \subseteq Requests
    BY <1>0 DEF TypeOK, Token
  <1>4. /\ req'[r].at = "create" /\ req'[r].then = req[r].then /\ req'[r].token = req[r].token
        /\ req'[r].listed = req[r].listed /\ req'[r].before = req[r].before
        /\ \A s \in Requests \ {r} : req'[s] = req[s]
    BY <1>1, Records
  <1>5. TypeOK'
    BY <1>0, <1>1, <1>2, <1>3, <1>4
       DEF TypeOK, Comes, Request, Place, Token, BeginRegister, history
  <1>6. Issued'
    BY <1>0, <1>1, <1>2, <1>3, <1>4 DEF Issued, At, Token, TypeOK, BeginRegister, history
  <1>7. Spent'
    BY <1>0, <1>1, <1>2, <1>3, <1>4 DEF Spent, At, BeginRegister, history
  <1>8. LiveIsListed'
    BY <1>0, <1>1, <1>2, <1>3, <1>4 DEF LiveIsListed, At, BeginRegister, history
  <1>9. Revoking'
    BY <1>0, <1>1, <1>2, <1>3, <1>4 DEF Revoking, At, BeginRegister, history
  <1>10. ReplayEndsAll'
    BY <1>0, <1>1, <1>2, <1>3, <1>4 DEF ReplayEndsAll, BeginRegister, history
  <1>11. RotatedIsSpent'
    BY <1>0, <1>1, <1>2, <1>3, <1>4
       DEF RotatedIsSpent, Rotated, At, Token, BeginRegister, history
  <1>12. PresentedOnce'
    BY <1>0, <1>1, <1>2, <1>3, <1>4
       DEF PresentedOnce, Presents, Busy, At, Spent, BeginRegister, history
  <1>13. FreshWhenPresented'
    BY <1>0, <1>1, <1>2, <1>3, <1>4
       DEF FreshWhenPresented, Rotated, Rotates, Presents, Busy, At, Spent, BeginRegister,
           history
  <1>14. OneSuccessor'
    BY <1>0, <1>1, <1>2, <1>3, <1>4 DEF OneSuccessor, BeginRegister, history
  <1>15. QED
    BY <1>5, <1>6, <1>7, <1>8, <1>9, <1>10, <1>11, <1>12, <1>13, <1>14 DEF IInv

LEMMA CreateKeeps ==
    ASSUME IInv, NEW r \in Requests, CreateUser(r)
    PROVE  IInv'
  <1>0. /\ TypeOK /\ Issued /\ Spent /\ LiveIsListed /\ Revoking /\ ReplayEndsAll
        /\ RotatedIsSpent /\ PresentedOnce /\ FreshWhenPresented /\ OneSuccessor
    BY DEF IInv
  <1>1. PICK place \in {"profile", "ended"} :
            /\ Goto(r, place)
            /\ Comes(r, place, req[r].then, req[r].token, req[r].listed, req[r].before)
    BY <1>0, GotoComes DEF CreateUser, Place
  <1>2. ~At(r, "ended") /\ \A t \in Requests : At(t, "ended") => At(t, "ended")'
    BY <1>1, EndedStays DEF CreateUser, At, Comes
  <1>3. /\ live \subseteq Requests /\ family \subseteq Requests /\ held \subseteq Requests
        /\ closed \subseteq Requests
        /\ \A s \in Requests : req[s].listed \subseteq Requests /\ req[s].before \subseteq Requests
    BY <1>0 DEF TypeOK, Token
  <1>4. /\ req'[r].at = place /\ req'[r].then = req[r].then /\ req'[r].token = req[r].token
        /\ req'[r].listed = req[r].listed /\ req'[r].before = req[r].before
        /\ \A s \in Requests \ {r} : req'[s] = req[s]
    BY <1>1, Records
  <1>5. TypeOK'
    BY <1>0, <1>1, <1>2, <1>3, <1>4
       DEF TypeOK, Comes, Request, Place, Token, CreateUser, history
  <1>6. Issued'
    BY <1>0, <1>1, <1>2, <1>3, <1>4 DEF Issued, At, Token, TypeOK, CreateUser, history
  <1>7. Spent'
    BY <1>0, <1>1, <1>2, <1>3, <1>4 DEF Spent, At, CreateUser, history
  <1>8. LiveIsListed'
    BY <1>0, <1>1, <1>2, <1>3, <1>4 DEF LiveIsListed, At, CreateUser, history
  <1>9. Revoking'
    BY <1>0, <1>1, <1>2, <1>3, <1>4 DEF Revoking, At, CreateUser, history
  <1>10. ReplayEndsAll'
    BY <1>0, <1>1, <1>2, <1>3, <1>4 DEF ReplayEndsAll, CreateUser, history
  <1>11. RotatedIsSpent'
    BY <1>0, <1>1, <1>2, <1>3, <1>4
       DEF RotatedIsSpent, Rotated, At, Token, CreateUser, history
  <1>12. PresentedOnce'
    BY <1>0, <1>1, <1>2, <1>3, <1>4
       DEF PresentedOnce, Presents, Busy, At, CreateUser, history
  <1>13. FreshWhenPresented'
    BY <1>0, <1>1, <1>2, <1>3, <1>4
       DEF FreshWhenPresented, Rotated, Rotates, Presents, Busy, At, CreateUser, history
  <1>14. OneSuccessor'
    BY <1>0, <1>1, <1>2, <1>3, <1>4 DEF OneSuccessor, CreateUser, history
  <1>15. QED
    BY <1>5, <1>6, <1>7, <1>8, <1>9, <1>10, <1>11, <1>12, <1>13, <1>14 DEF IInv

LEMMA ProfileKeeps ==
    ASSUME IInv, NEW r \in Requests, UpsertProfile(r)
    PROVE  IInv'
  <1>0. /\ TypeOK /\ Issued /\ Spent /\ LiveIsListed /\ Revoking /\ ReplayEndsAll
        /\ RotatedIsSpent /\ PresentedOnce /\ FreshWhenPresented /\ OneSuccessor
    BY DEF IInv
  <1>1. Comes(r, "ended", req[r].then, req[r].token, req[r].listed, req[r].before)
    BY <1>0, GotoComes DEF UpsertProfile, Place
  <1>2. ~At(r, "ended") /\ \A t \in Requests : At(t, "ended") => At(t, "ended")'
    BY <1>1, EndedStays DEF UpsertProfile, At, Comes
  <1>3. /\ live \subseteq Requests /\ family \subseteq Requests /\ held \subseteq Requests
        /\ closed \subseteq Requests
        /\ \A s \in Requests : req[s].listed \subseteq Requests /\ req[s].before \subseteq Requests
    BY <1>0 DEF TypeOK, Token
  <1>4. /\ req'[r].at = "ended" /\ req'[r].then = req[r].then /\ req'[r].token = req[r].token
        /\ req'[r].listed = req[r].listed /\ req'[r].before = req[r].before
        /\ \A s \in Requests \ {r} : req'[s] = req[s]
    BY <1>1, Records
  <1>5. TypeOK'
    BY <1>0, <1>1, <1>2, <1>3, <1>4
       DEF TypeOK, Comes, Request, Place, Token, UpsertProfile, history
  <1>6. Issued'
    BY <1>0, <1>1, <1>2, <1>3, <1>4 DEF Issued, At, Token, TypeOK, UpsertProfile, history
  <1>7. Spent'
    BY <1>0, <1>1, <1>2, <1>3, <1>4 DEF Spent, At, UpsertProfile, history
  <1>8. LiveIsListed'
    BY <1>0, <1>1, <1>2, <1>3, <1>4 DEF LiveIsListed, At, UpsertProfile, history
  <1>9. Revoking'
    BY <1>0, <1>1, <1>2, <1>3, <1>4 DEF Revoking, At, UpsertProfile, history
  <1>10. ReplayEndsAll'
    BY <1>0, <1>1, <1>2, <1>3, <1>4 DEF ReplayEndsAll, UpsertProfile, history
  <1>11. RotatedIsSpent'
    BY <1>0, <1>1, <1>2, <1>3, <1>4
       DEF RotatedIsSpent, Rotated, At, Token, UpsertProfile, history
  <1>12. PresentedOnce'
    BY <1>0, <1>1, <1>2, <1>3, <1>4
       DEF PresentedOnce, Presents, Busy, At, UpsertProfile, history
  <1>13. FreshWhenPresented'
    BY <1>0, <1>1, <1>2, <1>3, <1>4
       DEF FreshWhenPresented, Rotated, Rotates, Presents, Busy, At, UpsertProfile, history
  <1>14. OneSuccessor'
    BY <1>0, <1>1, <1>2, <1>3, <1>4 DEF OneSuccessor, UpsertProfile, history
  <1>15. QED
    BY <1>5, <1>6, <1>7, <1>8, <1>9, <1>10, <1>11, <1>12, <1>13, <1>14 DEF IInv

LEMMA LoginKeeps ==
    ASSUME IInv, NEW r \in Requests, BeginLogin(r)
    PROVE  IInv'
  <1>0. /\ TypeOK /\ Issued /\ Spent /\ LiveIsListed /\ Revoking /\ ReplayEndsAll
        /\ RotatedIsSpent /\ PresentedOnce /\ FreshWhenPresented /\ OneSuccessor
    BY DEF IInv
  <1>1. Comes(r, "set", req[r].then, req[r].token, req[r].listed, req[r].before)
    BY <1>0, GotoComes DEF BeginLogin, Place
  <1>2. ~At(r, "ended") /\ \A t \in Requests : At(t, "ended") => At(t, "ended")'
    BY <1>1, EndedStays DEF BeginLogin, At, Comes
  <1>3. /\ live \subseteq Requests /\ family \subseteq Requests /\ held \subseteq Requests
        /\ closed \subseteq Requests
        /\ \A s \in Requests : req[s].listed \subseteq Requests /\ req[s].before \subseteq Requests
    BY <1>0 DEF TypeOK, Token
  <1>4. /\ req'[r].at = "set" /\ req'[r].then = req[r].then /\ req'[r].token = req[r].token
        /\ req'[r].listed = req[r].listed /\ req'[r].before = req[r].before
        /\ \A s \in Requests \ {r} : req'[s] = req[s]
    BY <1>1, Records
  <1>5. TypeOK'
    BY <1>0, <1>1, <1>2, <1>3, <1>4
       DEF TypeOK, Comes, Request, Place, Token, BeginLogin, history
  <1>6. Issued'
    BY <1>0, <1>1, <1>2, <1>3, <1>4 DEF Issued, At, Token, TypeOK, BeginLogin, history
  <1>7. Spent'
    BY <1>0, <1>1, <1>2, <1>3, <1>4 DEF Spent, At, BeginLogin, history
  <1>8. LiveIsListed'
    BY <1>0, <1>1, <1>2, <1>3, <1>4 DEF LiveIsListed, At, BeginLogin, history
  <1>9. Revoking'
    BY <1>0, <1>1, <1>2, <1>3, <1>4 DEF Revoking, At, BeginLogin, history
  <1>10. ReplayEndsAll'
    BY <1>0, <1>1, <1>2, <1>3, <1>4 DEF ReplayEndsAll, BeginLogin, history
  <1>11. RotatedIsSpent'
    BY <1>0, <1>1, <1>2, <1>3, <1>4
       DEF RotatedIsSpent, Rotated, At, Token, BeginLogin, history
  <1>12. PresentedOnce'
    BY <1>0, <1>1, <1>2, <1>3, <1>4
       DEF PresentedOnce, Presents, Busy, At, Spent, BeginLogin, history
  <1>13. FreshWhenPresented'
    <2>1. \A s \in Requests, t \in Token \ {None} :
              Presents(s, t)' /\ Rotates(s)' => Presents(s, t) /\ Rotates(s)
      BY <1>0, <1>4 DEF Presents, Rotates, Busy, Spent, At, BeginLogin
    <2>2. QED
      BY <1>0, <2>1 DEF FreshWhenPresented, Rotated, BeginLogin, history
  <1>14. OneSuccessor'
    BY <1>0, <1>1, <1>2, <1>3, <1>4 DEF OneSuccessor, BeginLogin, history
  <1>15. QED
    BY <1>5, <1>6, <1>7, <1>8, <1>9, <1>10, <1>11, <1>12, <1>13, <1>14 DEF IInv

LEMMA SetKeyKeeps ==
    ASSUME IInv, NEW r \in Requests, SetKey(r)
    PROVE  IInv'
  <1>0. /\ TypeOK /\ Issued /\ Spent /\ LiveIsListed /\ Revoking /\ ReplayEndsAll
        /\ RotatedIsSpent /\ PresentedOnce /\ FreshWhenPresented /\ OneSuccessor
    BY DEF IInv
  <1>1. Comes(r, "add", req[r].then, req[r].token, req[r].listed, req[r].before)
    BY <1>0, GotoComes DEF SetKey, Place
  <1>2. ~At(r, "ended") /\ \A t \in Requests : At(t, "ended") => At(t, "ended")'
    BY <1>1, EndedStays DEF SetKey, At, Comes
  <1>3. /\ live \subseteq Requests /\ family \subseteq Requests /\ held \subseteq Requests
        /\ closed \subseteq Requests
        /\ \A s \in Requests : req[s].listed \subseteq Requests /\ req[s].before \subseteq Requests
    BY <1>0 DEF TypeOK, Token
  <1>4. /\ req'[r].at = "add" /\ req'[r].then = req[r].then /\ req'[r].token = req[r].token
        /\ req'[r].listed = req[r].listed /\ req'[r].before = req[r].before
        /\ \A s \in Requests \ {r} : req'[s] = req[s]
    BY <1>1, Records
  <1>5. TypeOK'
    BY <1>0, <1>1, <1>2, <1>3, <1>4
       DEF TypeOK, Comes, Request, Place, Token, SetKey, history
  <1>6. Issued'
    BY <1>0, <1>1, <1>2, <1>3, <1>4 DEF Issued, At, Token, TypeOK, SetKey, history
  <1>7. Spent'
    BY <1>0, <1>1, <1>2, <1>3, <1>4 DEF Spent, At, Issued, SetKey, history
  <1>8. LiveIsListed'
    BY <1>0, <1>1, <1>2, <1>3, <1>4 DEF LiveIsListed, At, SetKey, history
  <1>9. Revoking'
    BY <1>0, <1>1, <1>2, <1>3, <1>4 DEF Revoking, At, Issued, SetKey, history
  <1>10. ReplayEndsAll'
    BY <1>0, <1>1, <1>2, <1>3, <1>4 DEF ReplayEndsAll, Issued, At, SetKey, history
  <1>11. RotatedIsSpent'
    BY <1>0, <1>1, <1>2, <1>3, <1>4 DEF RotatedIsSpent, Rotated, At, Token, SetKey, history
  <1>12. PresentedOnce'
    BY <1>0, <1>1, <1>2, <1>3, <1>4 DEF PresentedOnce, Presents, Busy, At, SetKey, history
  <1>13. FreshWhenPresented'
    BY <1>0, <1>1, <1>2, <1>3, <1>4
       DEF FreshWhenPresented, Rotated, Rotates, Presents, Busy, At, SetKey, history
  <1>14. OneSuccessor'
    BY <1>0, <1>1, <1>2, <1>3, <1>4 DEF OneSuccessor, SetKey, history
  <1>15. QED
    BY <1>5, <1>6, <1>7, <1>8, <1>9, <1>10, <1>11, <1>12, <1>13, <1>14 DEF IInv

LEMMA AddKeeps ==
    ASSUME IInv, NEW r \in Requests, AddToFamily(r)
    PROVE  IInv'
  <1>0. /\ TypeOK /\ Issued /\ Spent /\ LiveIsListed /\ Revoking /\ ReplayEndsAll
        /\ RotatedIsSpent /\ PresentedOnce /\ FreshWhenPresented /\ OneSuccessor
    BY DEF IInv
  <1>1. Comes(r, "ended", req[r].then, req[r].token, req[r].listed, req[r].before)
    BY <1>0, GotoComes DEF AddToFamily, Place
  <1>2. ~At(r, "ended") /\ \A t \in Requests : At(t, "ended") => At(t, "ended")'
    BY <1>1, EndedStays DEF AddToFamily, At, Comes
  <1>3. /\ live \subseteq Requests /\ family \subseteq Requests /\ held \subseteq Requests
        /\ closed \subseteq Requests
        /\ \A s \in Requests : req[s].listed \subseteq Requests /\ req[s].before \subseteq Requests
    BY <1>0 DEF TypeOK, Token
  <1>4. /\ req'[r].at = "ended" /\ req'[r].then = req[r].then /\ req'[r].token = req[r].token
        /\ req'[r].listed = req[r].listed /\ req'[r].before = req[r].before
        /\ \A s \in Requests \ {r} : req'[s] = req[s]
    BY <1>1, Records
  <1>X. \A t, u : <<t, u>> \in rotations' <=>
            <<t, u>> \in rotations \/ (t = req[r].token /\ u = r /\ t # None)
    BY DEF AddToFamily
  <1>5. TypeOK'
    BY <1>0, <1>1, <1>2, <1>3, <1>4, <1>X
       DEF TypeOK, Comes, Request, Place, Token, AddToFamily, history
  <1>6. Issued'
    BY <1>0, <1>1, <1>2, <1>3, <1>4, <1>X
       DEF Issued, At, Token, TypeOK, AddToFamily, history
  <1>7. Spent'
    BY <1>0, <1>1, <1>2, <1>3, <1>4, <1>X DEF Spent, At, AddToFamily, history
  <1>8. LiveIsListed'
    BY <1>0, <1>1, <1>2, <1>3, <1>4, <1>X DEF LiveIsListed, At, AddToFamily, history
  <1>9. Revoking'
    BY <1>0, <1>1, <1>2, <1>3, <1>4, <1>X DEF Revoking, At, AddToFamily, history
  <1>10. ReplayEndsAll'
    BY <1>0, <1>1, <1>2, <1>3, <1>4, <1>X DEF ReplayEndsAll, AddToFamily, history
  <1>11. RotatedIsSpent'
    BY <1>0, <1>1, <1>2, <1>3, <1>4, <1>X
       DEF RotatedIsSpent, Rotated, At, Token, Spent, Issued, AddToFamily, history
  <1>12. PresentedOnce'
    BY <1>0, <1>1, <1>2, <1>3, <1>4, <1>X
       DEF PresentedOnce, Presents, Busy, At, AddToFamily, history
  <1>13. FreshWhenPresented'
    <2>1. \A s \in Requests : \A t :
              Presents(s, t)' /\ Rotates(s)' => s # r /\ Presents(s, t) /\ Rotates(s)
      BY <1>4 DEF Presents, Rotates, Busy
    <2>2. Presents(r, req[r].token)
      BY DEF Presents, Busy, At, AddToFamily
    <2>3. \A t \in Token : Rotated(t)' => Rotated(t) \/ t = req[r].token
      BY <1>X DEF Rotated
    <2>4. QED
      BY <1>0, <2>1, <2>2, <2>3 DEF FreshWhenPresented, PresentedOnce, AddToFamily
  <1>14. OneSuccessor'
    BY <1>0, <1>1, <1>2, <1>3, <1>4, <1>X
       DEF OneSuccessor, FreshWhenPresented, Presents, Rotates, Rotated, Busy, At, Token,
           AddToFamily, history
  <1>15. QED
    BY <1>5, <1>6, <1>7, <1>8, <1>9, <1>10, <1>11, <1>12, <1>13, <1>14 DEF IInv

LEMMA GetKeyKeeps ==
    ASSUME IInv, NEW r \in Requests, GetKey(r)
    PROVE  IInv'
  <1>0. /\ TypeOK /\ Issued /\ Spent /\ LiveIsListed /\ Revoking /\ ReplayEndsAll
        /\ RotatedIsSpent /\ PresentedOnce /\ FreshWhenPresented /\ OneSuccessor
    BY DEF IInv
  <1>1. PICK place \in {"find", "members"} :
            /\ place = "find" => req[r].token \in live
            /\ Comes(r, place, req[r].then, req[r].token, req[r].listed, req[r].before)
    BY <1>0, GotoComes DEF GetKey, Place
  <1>2. ~At(r, "ended") /\ \A t \in Requests : At(t, "ended") => At(t, "ended")'
    BY <1>1, EndedStays DEF GetKey, At, Comes
  <1>3. /\ live \subseteq Requests /\ family \subseteq Requests /\ held \subseteq Requests
        /\ closed \subseteq Requests
        /\ \A s \in Requests : req[s].listed \subseteq Requests /\ req[s].before \subseteq Requests
    BY <1>0 DEF TypeOK, Token
  <1>4. /\ req'[r].at = place /\ req'[r].then = req[r].then /\ req'[r].token = req[r].token
        /\ req'[r].listed = req[r].listed /\ req'[r].before = req[r].before
        /\ \A s \in Requests \ {r} : req'[s] = req[s]
    BY <1>1, Records
  <1>5. TypeOK'
    BY <1>0, <1>1, <1>2, <1>3, <1>4
       DEF TypeOK, Comes, Request, Place, Token, GetKey, history
  <1>6. Issued'
    BY <1>0, <1>1, <1>2, <1>3, <1>4 DEF Issued, At, Token, TypeOK, GetKey, history
  <1>7. Spent'
    BY <1>0, <1>1, <1>2, <1>3, <1>4 DEF Spent, At, GetKey, history
  <1>8. LiveIsListed'
    BY <1>0, <1>1, <1>2, <1>3, <1>4 DEF LiveIsListed, At, GetKey, history
  <1>9. Revoking'
    BY <1>0, <1>1, <1>2, <1>3, <1>4 DEF Revoking, At, GetKey, history
  <1>10. ReplayEndsAll'
    BY <1>0, <1>1, <1>2, <1>3, <1>4 DEF ReplayEndsAll, GetKey, history
  <1>11. RotatedIsSpent'
    BY <1>0, <1>1, <1>2, <1>3, <1>4 DEF RotatedIsSpent, Rotated, At, Token, GetKey, history
  <1>12. PresentedOnce'
    BY <1>0, <1>1, <1>2, <1>3, <1>4 DEF PresentedOnce, Presents, Busy, At, GetKey, history
  <1>13. FreshWhenPresented'
    BY <1>0, <1>1, <1>2, <1>3, <1>4
       DEF FreshWhenPresented, Rotated, Rotates, Presents, Busy, At, RotatedIsSpent, GetKey,
           history
  <1>14. OneSuccessor'
    BY <1>0, <1>1, <1>2, <1>3, <1>4 DEF OneSuccessor, GetKey, history
  <1>15. QED
    BY <1>5, <1>6, <1>7, <1>8, <1>9, <1>10, <1>11, <1>12, <1>13, <1>14 DEF IInv

LEMMA FindUserKeeps ==
    ASSUME IInv, NEW r \in Requests, FindUser(r)
    PROVE  IInv'
  <1>0. /\ TypeOK /\ Issued /\ Spent /\ LiveIsListed /\ Revoking /\ ReplayEndsAll
        /\ RotatedIsSpent /\ PresentedOnce /\ FreshWhenPresented /\ OneSuccessor
    BY DEF IInv
  <1>1. PICK place \in {"delete", "ended"} :
            /\ Goto(r, place)
            /\ Comes(r, place, req[r].then, req[r].token, req[r].listed, req[r].before)
    BY <1>0, GotoComes DEF FindUser, Place
  <1>2. ~At(r, "ended") /\ \A t \in Requests : At(t, "ended") => At(t, "ended")'
    BY <1>1, EndedStays DEF FindUser, At, Comes
  <1>3. /\ live \subseteq Requests /\ family \subseteq Requests /\ held \subseteq Requests
        /\ closed \subseteq Requests
        /\ \A s \in Requests : req[s].listed \subseteq Requests /\ req[s].before \subseteq Requests
    BY <1>0 DEF TypeOK, Token
  <1>4. /\ req'[r].at = place /\ req'[r].then = req[r].then /\ req'[r].token = req[r].token
        /\ req'[r].listed = req[r].listed /\ req'[r].before = req[r].before
        /\ \A s \in Requests \ {r} : req'[s] = req[s]
    BY <1>1, Records
  <1>5. TypeOK'
    BY <1>0, <1>1, <1>2, <1>3, <1>4
       DEF TypeOK, Comes, Request, Place, Token, FindUser, history
  <1>6. Issued'
    BY <1>0, <1>1, <1>2, <1>3, <1>4 DEF Issued, At, Token, TypeOK, FindUser, history
  <1>7. Spent'
    BY <1>0, <1>1, <1>2, <1>3, <1>4 DEF Spent, At, FindUser, history
  <1>8. LiveIsListed'
    BY <1>0, <1>1, <1>2, <1>3, <1>4 DEF LiveIsListed, At, FindUser, history
  <1>9. Revoking'
    BY <1>0, <1>1, <1>2, <1>3, <1>4 DEF Revoking, At, FindUser, history
  <1>10. ReplayEndsAll'
    BY <1>0, <1>1, <1>2, <1>3, <1>4 DEF ReplayEndsAll, FindUser, history
  <1>11. RotatedIsSpent'
    BY <1>0, <1>1, <1>2, <1>3, <1>4
       DEF RotatedIsSpent, Rotated, At, Token, FindUser, history
  <1>12. PresentedOnce'
    BY <1>0, <1>1, <1>2, <1>3, <1>4 DEF PresentedOnce, Presents, Busy, At, FindUser, history
  <1>13. FreshWhenPresented'
    BY <1>0, <1>1, <1>2, <1>3, <1>4
       DEF FreshWhenPresented, Rotated, Rotates, Presents, Busy, At, FindUser, history
  <1>14. OneSuccessor'
    BY <1>0, <1>1, <1>2, <1>3, <1>4 DEF OneSuccessor, FindUser, history
  <1>15. QED
    BY <1>5, <1>6, <1>7, <1>8, <1>9, <1>10, <1>11, <1>12, <1>13, <1>14 DEF IInv

LEMMA DeleteKeyKeeps ==
    ASSUME IInv, NEW r \in Requests, DeleteKey(r)
    PROVE  IInv'
  <1>0. /\ TypeOK /\ Issued /\ Spent /\ LiveIsListed /\ Revoking /\ ReplayEndsAll
        /\ RotatedIsSpent /\ PresentedOnce /\ FreshWhenPresented /\ OneSuccessor
    BY DEF IInv
  <1>1. Comes(r, "remove", req[r].then, req[r].token, req[r].listed, req[r].before)
    BY <1>0, GotoComes DEF DeleteKey, Place
  <1>2. ~At(r, "ended") /\ \A t \in Requests : At(t, "ended") => At(t, "ended")'
    BY <1>1, EndedStays DEF DeleteKey, At, Comes
  <1>3. /\ live \subseteq Requests /\ family \subseteq Requests /\ held \subseteq Requests
        /\ closed \subseteq Requests
        /\ \A s \in Requests : req[s].listed \subseteq Requests /\ req[s].before \subseteq Requests
    BY <1>0 DEF TypeOK, Token
  <1>4. /\ req'[r].at = "remove" /\ req'[r].then = req[r].then /\ req'[r].token = req[r].token
        /\ req'[r].listed = req[r].listed /\ req'[r].before = req[r].before
        /\ \A s \in Requests \ {r} : req'[s] = req[s]
    BY <1>1, Records
  <1>5. TypeOK'
    BY <1>0, <1>1, <1>2, <1>3, <1>4
       DEF TypeOK, Comes, Request, Place, Token, DeleteKey, history
  <1>6. Issued'
    BY <1>0, <1>1, <1>2, <1>3, <1>4 DEF Issued, At, Token, TypeOK, DeleteKey, history
  <1>7. Spent'
    BY <1>0, <1>1, <1>2, <1>3, <1>4 DEF Spent, At, DeleteKey, history
  <1>8. LiveIsListed'
    BY <1>0, <1>1, <1>2, <1>3, <1>4 DEF LiveIsListed, At, DeleteKey, history
  <1>9. Revoking'
    BY <1>0, <1>1, <1>2, <1>3, <1>4 DEF Revoking, At, DeleteKey, history
  <1>10. ReplayEndsAll'
    BY <1>0, <1>1, <1>2, <1>3, <1>4 DEF ReplayEndsAll, DeleteKey, history
  <1>11. RotatedIsSpent'
    BY <1>0, <1>1, <1>2, <1>3, <1>4
       DEF RotatedIsSpent, Rotated, At, Token, DeleteKey, history
  <1>12. PresentedOnce'
    BY <1>0, <1>1, <1>2, <1>3, <1>4
       DEF PresentedOnce, Presents, Busy, At, DeleteKey, history
  <1>13. FreshWhenPresented'
    BY <1>0, <1>1, <1>2, <1>3, <1>4
       DEF FreshWhenPresented, Rotated, Rotates, Presents, Busy, At, DeleteKey, history
  <1>14. OneSuccessor'
    BY <1>0, <1>1, <1>2, <1>3, <1>4 DEF OneSuccessor, DeleteKey, history
  <1>15. QED
    BY <1>5, <1>6, <1>7, <1>8, <1>9, <1>10, <1>11, <1>12, <1>13, <1>14 DEF IInv

LEMMA RemoveKeeps ==
    ASSUME IInv, NEW r \in Requests, RemoveFromFamily(r)
    PROVE  IInv'
  <1>0. /\ TypeOK /\ Issued /\ Spent /\ LiveIsListed /\ Revoking /\ ReplayEndsAll
        /\ RotatedIsSpent /\ PresentedOnce /\ FreshWhenPresented /\ OneSuccessor
    BY DEF IInv
  <1>1. Comes(r, req[r].then, req[r].then, req[r].token, req[r].listed, req[r].before)
        /\ req[r].then \in {"set", "ended"}
    <2>1. req[r].then \in {"set", "ended"}
      BY <1>0 DEF TypeOK
    <2>2. QED
      BY <1>0, <2>1, GotoComes DEF RemoveFromFamily, Place
  <1>2. ~At(r, "ended") /\ \A t \in Requests : At(t, "ended") => At(t, "ended")'
    BY <1>1, EndedStays DEF RemoveFromFamily, At, Comes
  <1>3. /\ live \subseteq Requests /\ family \subseteq Requests /\ held \subseteq Requests
        /\ closed \subseteq Requests
        /\ \A s \in Requests : req[s].listed \subseteq Requests /\ req[s].before \subseteq Requests
    BY <1>0 DEF TypeOK, Token
  <1>4. /\ req'[r].at = req[r].then /\ req'[r].then = req[r].then /\ req'[r].token = req[r].token
        /\ req'[r].listed = req[r].listed /\ req'[r].before = req[r].before
        /\ \A s \in Requests \ {r} : req'[s] = req[s]
    BY <1>1, Records
  <1>5. TypeOK'
    BY <1>0, <1>1, <1>2, <1>3, <1>4
       DEF TypeOK, Comes, Request, Place, Token, RemoveFromFamily, history
  <1>6. Issued'
    BY <1>0, <1>1, <1>2, <1>3, <1>4 DEF Issued, At, Token, TypeOK, RemoveFromFamily, history
  <1>7. Spent'
    BY <1>0, <1>1, <1>2, <1>3, <1>4 DEF Spent, At, RemoveFromFamily, history
  <1>8. LiveIsListed'
    BY <1>0, <1>1, <1>2, <1>3, <1>4 DEF LiveIsListed, At, Spent, RemoveFromFamily, history
  <1>9. Revoking'
    BY <1>0, <1>1, <1>2, <1>3, <1>4 DEF Revoking, At, RemoveFromFamily, history
  <1>10. ReplayEndsAll'
    BY <1>0, <1>1, <1>2, <1>3, <1>4 DEF ReplayEndsAll, RemoveFromFamily, history
  <1>11. RotatedIsSpent'
    BY <1>0, <1>1, <1>2, <1>3, <1>4
       DEF RotatedIsSpent, Rotated, At, Token, RemoveFromFamily, history
  <1>12. PresentedOnce'
    BY <1>0, <1>1, <1>2, <1>3, <1>4
       DEF PresentedOnce, Presents, Busy, At, RemoveFromFamily, history
  <1>13. FreshWhenPresented'
    BY <1>0, <1>1, <1>2, <1>3, <1>4
       DEF FreshWhenPresented, Rotated, Rotates, Presents, Busy, At, RemoveFromFamily,
           history
  <1>14. OneSuccessor'
    BY <1>0, <1>1, <1>2, <1>3, <1>4 DEF OneSuccessor, RemoveFromFamily, history
  <1>15. QED
    BY <1>5, <1>6, <1>7, <1>8, <1>9, <1>10, <1>11, <1>12, <1>13, <1>14 DEF IInv

LEMMA ReadKeeps ==
    ASSUME IInv, NEW r \in Requests, ReadFamily(r)
    PROVE  IInv'
  <1>0. /\ TypeOK /\ Issued /\ Spent /\ LiveIsListed /\ Revoking /\ ReplayEndsAll
        /\ RotatedIsSpent /\ PresentedOnce /\ FreshWhenPresented /\ OneSuccessor
    BY DEF IInv
  <1>1. Comes(r, "deleteAll", req[r].then, req[r].token, family, req[r].before)
    <2>1. req \in [Requests -> Request] /\ req[r] \in Request /\ family \in SUBSET Token
      BY <1>0 DEF TypeOK, Request, Place
    <2>2. QED
      BY <2>1 DEF ReadFamily, Comes, Request, Place
  <1>2. ~At(r, "ended") /\ \A t \in Requests : At(t, "ended") => At(t, "ended")'
    BY <1>1, EndedStays DEF ReadFamily, At, Comes
  <1>3. /\ live \subseteq Requests /\ family \subseteq Requests /\ held \subseteq Requests
        /\ closed \subseteq Requests
        /\ \A s \in Requests : req[s].listed \subseteq Requests /\ req[s].before \subseteq Requests
    BY <1>0 DEF TypeOK, Token
  <1>4. /\ req'[r].at = "deleteAll" /\ req'[r].then = req[r].then /\ req'[r].token = req[r].token
        /\ req'[r].listed = family /\ req'[r].before = req[r].before
        /\ \A s \in Requests \ {r} : req'[s] = req[s]
    BY <1>1, Records
  <1>X. At(r, "members") /\ UNCHANGED <<account, live, family, held, history>>
    BY DEF ReadFamily
  <1>5. TypeOK'
    BY <1>0, <1>1, <1>2, <1>3, <1>4, <1>X DEF TypeOK, Comes, Request, Place, Token, history
  <1>6. Issued'
    BY <1>0, <1>1, <1>2, <1>3, <1>4, <1>X DEF Issued, At, Token, TypeOK, history
  <1>7. Spent'
    BY <1>0, <1>1, <1>2, <1>3, <1>4, <1>X DEF Spent, At, history
  <1>8. LiveIsListed'
    BY <1>0, <1>1, <1>2, <1>3, <1>4, <1>X DEF LiveIsListed, At, history
  <1>9. Revoking'
    BY <1>0, <1>1, <1>2, <1>3, <1>4, <1>X DEF Revoking, At, LiveIsListed, Issued, history
  <1>10. ReplayEndsAll'
    BY <1>0, <1>1, <1>2, <1>3, <1>4, <1>X DEF ReplayEndsAll, history
  <1>11. RotatedIsSpent'
    BY <1>0, <1>1, <1>2, <1>3, <1>4, <1>X DEF RotatedIsSpent, Rotated, At, Token, history
  <1>12. PresentedOnce'
    BY <1>0, <1>1, <1>2, <1>3, <1>4, <1>X DEF PresentedOnce, Presents, Busy, At, history
  <1>13. FreshWhenPresented'
    BY <1>0, <1>1, <1>2, <1>3, <1>4, <1>X, ZenonT(30)
       DEF FreshWhenPresented, Rotated, Rotates, Presents, Busy, At, history
  <1>14. OneSuccessor'
    BY <1>0, <1>1, <1>2, <1>3, <1>4, <1>X DEF OneSuccessor, history
  <1>15. QED
    BY <1>5, <1>6, <1>7, <1>8, <1>9, <1>10, <1>11, <1>12, <1>13, <1>14 DEF IInv

LEMMA DeleteKeysKeeps ==
    ASSUME IInv, NEW r \in Requests, DeleteKeys(r)
    PROVE  IInv'
  <1>0. /\ TypeOK /\ Issued /\ Spent /\ LiveIsListed /\ Revoking /\ ReplayEndsAll
        /\ RotatedIsSpent /\ PresentedOnce /\ FreshWhenPresented /\ OneSuccessor
    BY DEF IInv
  <1>1. Comes(r, "drop", req[r].then, req[r].token, req[r].listed, req[r].before)
    BY <1>0, GotoComes DEF DeleteKeys, Place
  <1>2. ~At(r, "ended") /\ \A t \in Requests : At(t, "ended") => At(t, "ended")'
    BY <1>1, EndedStays DEF DeleteKeys, At, Comes
  <1>3. /\ live \subseteq Requests /\ family \subseteq Requests /\ held \subseteq Requests
        /\ closed \subseteq Requests
        /\ \A s \in Requests : req[s].listed \subseteq Requests /\ req[s].before \subseteq Requests
    BY <1>0 DEF TypeOK, Token
  <1>4. /\ req'[r].at = "drop" /\ req'[r].then = req[r].then /\ req'[r].token = req[r].token
        /\ req'[r].listed = req[r].listed /\ req'[r].before = req[r].before
        /\ \A s \in Requests \ {r} : req'[s] = req[s]
    BY <1>1, Records
  <1>5. TypeOK'
    BY <1>0, <1>1, <1>2, <1>3, <1>4
       DEF TypeOK, Comes, Request, Place, Token, DeleteKeys, history
  <1>6. Issued'
    BY <1>0, <1>1, <1>2, <1>3, <1>4 DEF Issued, At, Token, TypeOK, DeleteKeys, history
  <1>7. Spent'
    BY <1>0, <1>1, <1>2, <1>3, <1>4 DEF Spent, At, DeleteKeys, history
  <1>8. LiveIsListed'
    BY <1>0, <1>1, <1>2, <1>3, <1>4 DEF LiveIsListed, At, DeleteKeys, history
  <1>9. Revoking'
    BY <1>0, <1>1, <1>2, <1>3, <1>4 DEF Revoking, At, DeleteKeys, history
  <1>10. ReplayEndsAll'
    BY <1>0, <1>1, <1>2, <1>3, <1>4 DEF ReplayEndsAll, DeleteKeys, history
  <1>11. RotatedIsSpent'
    BY <1>0, <1>1, <1>2, <1>3, <1>4
       DEF RotatedIsSpent, Rotated, At, Token, DeleteKeys, history
  <1>12. PresentedOnce'
    BY <1>0, <1>1, <1>2, <1>3, <1>4
       DEF PresentedOnce, Presents, Busy, At, DeleteKeys, history
  <1>13. FreshWhenPresented'
    BY <1>0, <1>1, <1>2, <1>3, <1>4
       DEF FreshWhenPresented, Rotated, Rotates, Presents, Busy, At, DeleteKeys, history
  <1>14. OneSuccessor'
    BY <1>0, <1>1, <1>2, <1>3, <1>4 DEF OneSuccessor, DeleteKeys, history
  <1>15. QED
    BY <1>5, <1>6, <1>7, <1>8, <1>9, <1>10, <1>11, <1>12, <1>13, <1>14 DEF IInv

LEMMA DropKeeps ==
    ASSUME IInv, NEW r \in Requests, DropFamily(r)
    PROVE  IInv'
  <1>0. /\ TypeOK /\ Issued /\ Spent /\ LiveIsListed /\ Revoking /\ ReplayEndsAll
        /\ RotatedIsSpent /\ PresentedOnce /\ FreshWhenPresented /\ OneSuccessor
    BY DEF IInv
  <1>1. Comes(r, "ended", req[r].then, req[r].token, req[r].listed, req[r].before)
    BY <1>0, GotoComes DEF DropFamily, Place
  <1>2. ~At(r, "ended") /\ \A t \in Requests : At(t, "ended") => At(t, "ended")'
    BY <1>1, EndedStays DEF DropFamily, At, Comes
  <1>3. /\ live \subseteq Requests /\ family \subseteq Requests /\ held \subseteq Requests
        /\ closed \subseteq Requests
        /\ \A s \in Requests : req[s].listed \subseteq Requests /\ req[s].before \subseteq Requests
    BY <1>0 DEF TypeOK, Token
  <1>4. /\ req'[r].at = "ended" /\ req'[r].then = req[r].then /\ req'[r].token = req[r].token
        /\ req'[r].listed = req[r].listed /\ req'[r].before = req[r].before
        /\ \A s \in Requests \ {r} : req'[s] = req[s]
    BY <1>1, Records
  <1>5. TypeOK'
    BY <1>0, <1>1, <1>2, <1>3, <1>4
       DEF TypeOK, Comes, Request, Place, Token, DropFamily, history
  <1>6. Issued'
    BY <1>0, <1>1, <1>2, <1>3, <1>4 DEF Issued, At, Token, TypeOK, DropFamily, history
  <1>7. Spent'
    BY <1>0, <1>1, <1>2, <1>3, <1>4 DEF Spent, At, DropFamily, history
  <1>8. LiveIsListed'
    BY <1>0, <1>1, <1>2, <1>3, <1>4 DEF LiveIsListed, At, Revoking, DropFamily, history
  <1>9. Revoking'
    BY <1>0, <1>1, <1>2, <1>3, <1>4 DEF Revoking, At, DropFamily, history
  <1>10. ReplayEndsAll'
    BY <1>0, <1>1, <1>2, <1>3, <1>4 DEF ReplayEndsAll, Revoking, At, DropFamily, history
  <1>11. RotatedIsSpent'
    BY <1>0, <1>1, <1>2, <1>3, <1>4
       DEF RotatedIsSpent, Rotated, At, Token, DropFamily, history
  <1>12. PresentedOnce'
    BY <1>0, <1>1, <1>2, <1>3, <1>4
       DEF PresentedOnce, Presents, Busy, At, DropFamily, history
  <1>13. FreshWhenPresented'
    BY <1>0, <1>1, <1>2, <1>3, <1>4
       DEF FreshWhenPresented, Rotated, Rotates, Presents, Busy, At, DropFamily, history
  <1>14. OneSuccessor'
    BY <1>0, <1>1, <1>2, <1>3, <1>4 DEF OneSuccessor, DropFamily, history
  <1>15. QED
    BY <1>5, <1>6, <1>7, <1>8, <1>9, <1>10, <1>11, <1>12, <1>13, <1>14 DEF IInv

LEMMA StopKeeps ==
    ASSUME IInv, NEW r \in Requests, Stop(r)
    PROVE  IInv'
  <1>0. /\ TypeOK /\ Issued /\ Spent /\ LiveIsListed /\ Revoking /\ ReplayEndsAll
        /\ RotatedIsSpent /\ PresentedOnce /\ FreshWhenPresented /\ OneSuccessor
    BY DEF IInv
  <1>1. Comes(r, "ended", req[r].then, req[r].token, req[r].listed, req[r].before)
    BY <1>0, GotoComes DEF Stop, Place
  <1>2. ~At(r, "ended") /\ \A t \in Requests : At(t, "ended") => At(t, "ended")'
    BY <1>1, EndedStays DEF Stop, Busy, At, Comes
  <1>3. /\ live \subseteq Requests /\ family \subseteq Requests /\ held \subseteq Requests
        /\ closed \subseteq Requests
        /\ \A s \in Requests : req[s].listed \subseteq Requests /\ req[s].before \subseteq Requests
    BY <1>0 DEF TypeOK, Token
  <1>4. /\ req'[r].at = "ended" /\ req'[r].then = req[r].then /\ req'[r].token = req[r].token
        /\ req'[r].listed = req[r].listed /\ req'[r].before = req[r].before
        /\ \A s \in Requests \ {r} : req'[s] = req[s]
    BY <1>1, Records
  <1>5. TypeOK'
    BY <1>0, <1>1, <1>2, <1>3, <1>4
       DEF TypeOK, Comes, Request, Place, Token, Busy, Stop, history
  <1>6. Issued'
    BY <1>0, <1>1, <1>2, <1>3, <1>4 DEF Issued, At, Token, TypeOK, Busy, Stop, history
  <1>7. Spent'
    BY <1>0, <1>1, <1>2, <1>3, <1>4 DEF Spent, At, Busy, Stop, history
  <1>8. LiveIsListed'
    BY <1>0, <1>1, <1>2, <1>3, <1>4 DEF LiveIsListed, At, Busy, Stop, history
  <1>9. Revoking'
    BY <1>0, <1>1, <1>2, <1>3, <1>4 DEF Revoking, At, Busy, Stop, history
  <1>10. ReplayEndsAll'
    BY <1>0, <1>1, <1>2, <1>3, <1>4 DEF ReplayEndsAll, Busy, Stop, history
  <1>11. RotatedIsSpent'
    BY <1>0, <1>1, <1>2, <1>3, <1>4
       DEF RotatedIsSpent, Rotated, At, Token, Busy, Stop, history
  <1>12. PresentedOnce'
    BY <1>0, <1>1, <1>2, <1>3, <1>4 DEF PresentedOnce, Presents, Busy, At, Stop, history
  <1>13. FreshWhenPresented'
    BY <1>0, <1>1, <1>2, <1>3, <1>4
       DEF FreshWhenPresented, Rotated, Rotates, Presents, Busy, At, Stop, history
  <1>14. OneSuccessor'
    BY <1>0, <1>1, <1>2, <1>3, <1>4 DEF OneSuccessor, Busy, Stop, history
  <1>15. QED
    BY <1>5, <1>6, <1>7, <1>8, <1>9, <1>10, <1>11, <1>12, <1>13, <1>14 DEF IInv

LEMMA PresentKeeps ==
    ASSUME IInv, NEW r \in Requests, NEW t,
           NEW place \in {"get", "delete"}, NEW then \in {"set", "ended"},
           (place = "get") = (then = "set"), Present(r, t, place, then)
    PROVE  IInv'
  <1>0. /\ TypeOK /\ Issued /\ Spent /\ LiveIsListed /\ Revoking /\ ReplayEndsAll
        /\ RotatedIsSpent /\ PresentedOnce /\ FreshWhenPresented /\ OneSuccessor
    BY DEF IInv
  <1>1. Comes(r, place, then, t, {}, held)
    <2>1. t \in Token /\ held \in SUBSET Token /\ req \in [Requests -> Request]
      BY <1>0 DEF Present, TypeOK, Request, Place
    <2>2. QED
      BY <2>1 DEF Present, Comes, Request, Place
  <1>2. ~At(r, "ended") /\ \A s \in Requests : At(s, "ended") => At(s, "ended")'
    BY <1>1, EndedStays DEF Present, At, Comes
  <1>3. /\ live \subseteq Requests /\ family \subseteq Requests /\ held \subseteq Requests
        /\ closed \subseteq Requests
        /\ \A s \in Requests : req[s].listed \subseteq Requests /\ req[s].before \subseteq Requests
    BY <1>0 DEF TypeOK, Token
  <1>4. /\ req'[r].at = place /\ req'[r].then = then /\ req'[r].token = t
        /\ req'[r].listed = {} /\ req'[r].before = held
        /\ \A s \in Requests \ {r} : req'[s] = req[s]
    BY <1>1, Records
  <1>5. TypeOK'
    BY <1>0, <1>1, <1>2, <1>3, <1>4 DEF TypeOK, Comes, Request, Place, Token, Present, history
  <1>6. Issued'
    BY <1>0, <1>1, <1>2, <1>3, <1>4 DEF Issued, At, Token, TypeOK, Present, history
  <1>7. Spent'
    BY <1>0, <1>1, <1>2, <1>3, <1>4 DEF Spent, At, Present, history
  <1>8. LiveIsListed'
    BY <1>0, <1>1, <1>2, <1>3, <1>4 DEF LiveIsListed, At, Present, history
  <1>9. Revoking'
    BY <1>0, <1>1, <1>2, <1>3, <1>4 DEF Revoking, At, Present, history
  <1>10. ReplayEndsAll'
    BY <1>0, <1>1, <1>2, <1>3, <1>4 DEF ReplayEndsAll, Present, history
  <1>11. RotatedIsSpent'
    BY <1>0, <1>1, <1>2, <1>3, <1>4 DEF RotatedIsSpent, Rotated, At, Token, Present, history
  <1>12. PresentedOnce'
    BY <1>0, <1>1, <1>2, <1>3, <1>4 DEF PresentedOnce, Presents, Busy, At, Present, history
  <1>13. FreshWhenPresented'
    BY <1>0, <1>1, <1>2, <1>3, <1>4
       DEF FreshWhenPresented, Rotated, Rotates, Presents, Busy, At, Present, history
  <1>14. OneSuccessor'
    BY <1>0, <1>1, <1>2, <1>3, <1>4 DEF OneSuccessor, Present, history
  <1>15. QED
    BY <1>5, <1>6, <1>7, <1>8, <1>9, <1>10, <1>11, <1>12, <1>13, <1>14 DEF IInv

LEMMA PresentedKeeps ==
    ASSUME IInv, NEW r \in Requests, NEW t, BeginRefresh(r, t) \/ BeginLogout(r, t)
    PROVE  IInv'
  <1>1. CASE BeginRefresh(r, t)
    BY <1>1, PresentKeeps DEF BeginRefresh
  <1>2. CASE BeginLogout(r, t)
    BY <1>2, PresentKeeps DEF BeginLogout
  <1>3. QED
    BY <1>1, <1>2

-------------------------------------------------------------------------------
(* The invariant and what follows from it *)

LEMMA InitEstablishes == Init => IInv
  <1> SUFFICES ASSUME Init PROVE IInv
    OBVIOUS
  <1>1. TypeOK
    BY DEF Init, TypeOK, Waiting
  <1>2. \A r \in Requests : req[r] = Waiting
    BY DEF Init
  <1>3. Issued /\ Spent /\ Revoking
    BY <1>2 DEF Init, Waiting, Issued, Spent, Revoking, At
  <1>4. LiveIsListed /\ ReplayEndsAll /\ RotatedIsSpent /\ OneSuccessor
    BY DEF Init, LiveIsListed, ReplayEndsAll, RotatedIsSpent, Rotated, OneSuccessor
  <1>5. PresentedOnce /\ FreshWhenPresented
    BY <1>2 DEF PresentedOnce, FreshWhenPresented, Presents, Busy, Waiting
  <1>6. QED
    BY <1>1, <1>3, <1>4, <1>5 DEF IInv

LEMMA StepKeeps == IInv /\ [Next]_vars => IInv'
  <1> SUFFICES ASSUME IInv, [Next]_vars PROVE IInv'
    OBVIOUS
  <1>1. CASE UNCHANGED vars
    <2>1. UNCHANGED vars
      BY <1>1
    <2>2. TypeOK' /\ Issued' /\ Spent'
      BY <2>1 DEF vars, history, IInv, TypeOK, Issued, Spent, At
    <2>3. LiveIsListed' /\ Revoking' /\ ReplayEndsAll'
      BY <2>1 DEF vars, history, IInv, LiveIsListed, Revoking, ReplayEndsAll, At
    <2>4. RotatedIsSpent' /\ OneSuccessor'
      BY <2>1 DEF vars, history, IInv, RotatedIsSpent, Rotated, OneSuccessor, At
    <2>5. PresentedOnce' /\ FreshWhenPresented'
      BY <2>1 DEF vars, history, IInv, PresentedOnce, FreshWhenPresented, Presents, Rotates,
                  Rotated, Busy
    <2>6. QED
      BY <2>2, <2>3, <2>4, <2>5 DEF IInv
  <1>2. ASSUME NEW r \in Requests, Step(r)
        PROVE  IInv'
    BY <1>2, RegisterKeeps, CreateKeeps, ProfileKeeps, LoginKeeps, SetKeyKeeps, AddKeeps,
       GetKeyKeeps, FindUserKeeps, DeleteKeyKeeps, RemoveKeeps, ReadKeeps, DeleteKeysKeeps,
       DropKeeps, StopKeeps DEF Step
  <1>3. QED
    BY <1>1, <1>2, PresentedKeeps DEF Next

\* Each token with a key is where a revoke_all finds it, but for one being issued
\* and those a revoke_all has dropped without listing (auth_service.py:104-119).
THEOREM LiveIsListedHolds == Spec => []LiveIsListed
  <1>1. IInv => LiveIsListed
    BY DEF IInv
  <1>2. QED
    BY InitEstablishes, StepKeeps, <1>1, PTL DEF Spec

\* After a replay is answered no token that the clients had when it began works
\* (auth_service.py:73-74).
THEOREM ReplayEndsAllHolds == Spec => []ReplayEndsAll
  <1>1. IInv => ReplayEndsAll
    BY DEF IInv
  <1>2. QED
    BY InitEstablishes, StepKeeps, <1>1, PTL DEF Spec

\* A token no two requests overlapped on is rotated once (auth_service.py:71-88).
THEOREM RotatedOnceHolds == Spec => []RotatedOnce
  <1>1. IInv => RotatedOnce
    <2> SUFFICES ASSUME IInv, NEW t \in Token \ overlap
                 PROVE  Cardinality({u \in Token : <<t, u>> \in rotations}) <= 1
      BY DEF RotatedOnce
    <2> DEFINE S == {u \in Token : <<t, u>> \in rotations}
    <2>1. S = {} => Cardinality(S) <= 1
      <3> HIDE DEF S
      <3>1. QED
        BY FS_EmptySet
    <2>2. ASSUME S # {}
          PROVE  Cardinality(S) <= 1
      <3>1. PICK u : u \in S
        BY <2>2
      <3>2. t # None
        BY <3>1 DEF IInv, RotatedIsSpent, Rotated
      <3>3. S = {u}
        BY <3>1, <3>2 DEF IInv, OneSuccessor
      <3> HIDE DEF S
      <3>4. QED
        BY <3>3, FS_Singleton, 1 <= 1
    <2>3. QED
      BY <2>1, <2>2
  <1>2. QED
    BY InitEstablishes, StepKeeps, <1>1, PTL DEF Spec
===============================================================================
