----------------------------- MODULE DigestProofs -----------------------------
(*****************************************************************************)
(* What the dedupeKey protocol keeps, for any runs, users, channels, dates   *)
(* and worklist that puts the in-app channel of a user first.                *)
(*****************************************************************************)
EXTENDS Digest, TLAPS

USE WorklistAssumption

Entry == User \X (Channel \union {InApp})
Working == Label \ {"idle", "done"}

Typed ==
    /\ rows \in [Key -> Status]
    /\ pc \in [Run -> Label]
    /\ todo \in [Run -> Seq(Entry)]
    /\ runDate \in [Run -> Date]
    /\ today \in Date
    /\ delivered \in [Key -> Nat]

\* Each user's in-app entry comes first.
InAppFirst(s) ==
    \A i \in DOMAIN s : i > 1 /\ s[i - 1][1] # s[i][1] => s[i][2] = InApp

\* The in-app row that belongs to a key.
AppKey(k) == <<k[1], k[2], InApp>>

\* Where a run is in its worklist.
InPlace(r) ==
    /\ InAppFirst(todo[r])
    /\ pc[r] \in Working => todo[r] # << >>
    /\ pc[r] = "user" => InHand(r)[2] = InApp
    /\ pc[r] \in Working \ {"user"} /\ InHand(r)[2] # InApp =>
           rows[AppKey(KeyOf(r))] # "absent"

InOrder == \A r \in Run : InPlace(r)

\* What a run that sends has before it.
SendsOnRow ==
    \A r \in Run : Sending(r) => InHand(r)[2] \in Channel /\ rows[KeyOf(r)] # "absent"

SentIsMarked == \A r \in Run : pc[r] = "markSent" => delivered[KeyOf(r)] > 0

\* A key that nobody contended for, and of which no delivery went unrecorded:
\* one run at most is at it, and it was not delivered before that run sends.
Single(k) ==
    k \notin contended \union unrecorded =>
        /\ \A r, q \in Run : /\ Sending(r) /\ KeyOf(r) = k
                             /\ Sending(q) /\ KeyOf(q) = k
                             => r = q
        /\ delivered[k] <= 1
        /\ delivered[k] > 0 => \/ rows[k] = "SENT"
                               \/ \E r \in Run : pc[r] = "markSent" /\ KeyOf(r) = k
        /\ \A r \in Run : pc[r] \in {"send", "markFailed"} /\ KeyOf(r) = k => delivered[k] = 0

IInv ==
    Typed /\ InOrder /\ SendsOnRow /\ SentIsMarked /\ SentMeansDelivered
    /\ \A k \in Key : Single(k)

-------------------------------------------------------------------------------
(* The worklist *)

LEMMA HeadInHand ==
    ASSUME Typed, NEW r \in Run, todo[r] # << >>
    PROVE  /\ InHand(r) \in Entry /\ KeyOf(r) \in Key /\ AppKey(KeyOf(r)) \in Key
           /\ InHand(r) = todo[r][1] /\ KeyOf(r)[3] = InHand(r)[2]
           /\ InHand(r)[2] = InApp => AppKey(KeyOf(r)) = KeyOf(r)
  <1>1. todo[r] \in Seq(Entry) /\ runDate[r] \in Date
    BY DEF Typed
  <1>2. InHand(r) = todo[r][1] /\ todo[r][1] \in Entry
    BY <1>1 DEF InHand
  <1>3. PICK u \in User, c \in Channel \union {InApp} : InHand(r) = <<u, c>>
    BY <1>2 DEF Entry
  <1>4. KeyOf(r) = <<u, runDate[r], c>> /\ AppKey(KeyOf(r)) = <<u, runDate[r], InApp>>
    BY <1>3 DEF KeyOf, AppKey
  <1>5. QED
    BY <1>1, <1>2, <1>3, <1>4 DEF Key

LEMMA TailInOrder ==
    ASSUME NEW s \in Seq(Entry), s # << >>, InAppFirst(s)
    PROVE  /\ Tail(s) \in Seq(Entry) /\ InAppFirst(Tail(s))
           /\ Tail(s) # << >> => /\ Head(Tail(s)) = s[2]
                                 /\ s[2][1] # s[1][1] => s[2][2] = InApp
  <1>1. /\ Tail(s) \in Seq(Entry) /\ Len(Tail(s)) = Len(s) - 1 /\ Len(s) \in Nat
        /\ DOMAIN s = 1..Len(s) /\ DOMAIN Tail(s) = 1..Len(Tail(s))
    OBVIOUS
  <1>2. \A i \in DOMAIN Tail(s) : Tail(s)[i] = s[i + 1] /\ i + 1 \in DOMAIN s
    BY <1>1
  <1>3. \A i \in DOMAIN Tail(s) : i > 1 => i - 1 \in DOMAIN Tail(s) /\ Tail(s)[i - 1] = s[i]
    BY <1>1, <1>2
  <1>4. InAppFirst(Tail(s))
    <2> SUFFICES ASSUME NEW i \in DOMAIN Tail(s), i > 1, Tail(s)[i - 1][1] # Tail(s)[i][1]
                 PROVE  Tail(s)[i][2] = InApp
      BY DEF InAppFirst
    <2>1. i + 1 \in DOMAIN s /\ i + 1 > 1 /\ s[(i + 1) - 1] = Tail(s)[i - 1]
      BY <1>1, <1>2, <1>3
    <2>2. QED
      BY <1>2, <2>1 DEF InAppFirst
  <1>5. ASSUME Tail(s) # << >>
        PROVE  Head(Tail(s)) = s[2] /\ (s[2][1] # s[1][1] => s[2][2] = InApp)
    <2> DEFINE t == Tail(s)
    <2>1. t \in Seq(Entry) /\ t # << >> /\ DOMAIN t = 1..Len(t)
      BY <1>1, <1>5
    <2>2. \A i \in DOMAIN t : t[i] = s[i + 1] /\ i + 1 \in DOMAIN s
      BY <1>2
    <2> HIDE DEF t
    <2>3. Head(t) = t[1] /\ 1 \in DOMAIN t
      BY <2>1
    <2>4. t[1] = s[2] /\ 2 \in DOMAIN s
      BY <2>2, <2>3
    <2>5. Head(t) = s[2] /\ (s[2][1] # s[1][1] => s[2][2] = InApp)
      BY <2>3, <2>4 DEF InAppFirst
    <2>6. QED
      BY <2>5 DEF t
  <1>6. QED
    BY <1>1, <1>4, <1>5

LEMMA RestInOrder ==
    ASSUME NEW s \in Seq(Entry), InAppFirst(s), NEW i \in DOMAIN s, i > 1,
           s[i - 1][1] # s[i][1]
    PROVE  LET rest == SubSeq(s, i, Len(s))
           IN  /\ rest \in Seq(Entry) /\ rest # << >> /\ InAppFirst(rest)
               /\ Head(rest)[2] = InApp
  <1> DEFINE rest == SubSeq(s, i, Len(s))
  <1>1. /\ i \in 1..Len(s) /\ Len(s) \in Nat
        /\ rest \in Seq(Entry) /\ Len(rest) = Len(s) - i + 1
        /\ \A j \in 1..Len(rest) : rest[j] = s[i + j - 1]
    OBVIOUS
  <1> HIDE DEF rest
  <1>2. rest # << >> /\ Head(rest) = s[i]
    BY <1>1
  <1>3. InAppFirst(rest)
    <2> SUFFICES ASSUME NEW j \in DOMAIN rest, j > 1, rest[j - 1][1] # rest[j][1]
                 PROVE  rest[j][2] = InApp
      BY DEF InAppFirst
    <2> DEFINE n == Len(s)
    <2>1. DOMAIN rest = 1..Len(rest) /\ DOMAIN s = 1..n /\ n \in Nat
      BY <1>1
    <2> HIDE DEF n
    <2>2. j \in 1..(n - i + 1) /\ i \in 1..n /\ Len(rest) = n - i + 1
      BY <1>1, <2>1 DEF n
    <2>3. /\ j \in 1..Len(rest) /\ j - 1 \in 1..Len(rest)
          /\ i + j - 1 \in DOMAIN s /\ i + j - 1 > 1 /\ i + (j - 1) - 1 = (i + j - 1) - 1
      BY <2>1, <2>2
    <2>4. rest[j] = s[i + j - 1] /\ rest[j - 1] = s[(i + j - 1) - 1]
      BY <1>1, <2>3
    <2>5. QED
      BY <2>3, <2>4 DEF InAppFirst
  <1>4. Head(rest)[2] = InApp
    BY <1>2 DEF InAppFirst
  <1>5. QED
    BY <1>1, <1>2, <1>3, <1>4 DEF rest

-------------------------------------------------------------------------------
(* What a step of one run leaves alone *)

OthersStay(r) ==
    \A q \in Run \ {r} : pc'[q] = pc[q] /\ todo'[q] = todo[q] /\ runDate'[q] = runDate[q]

\* The run comes to a label with s to do.
Comes(r, label, s) ==
    /\ pc' \in [Run -> Label] /\ pc'[r] = label
    /\ todo' \in [Run -> Seq(Entry)] /\ todo'[r] = s
    /\ \A q \in Run \ {r} : pc'[q] = pc[q] /\ todo'[q] = todo[q]

LEMMA GotoComes ==
    ASSUME Typed, NEW r \in Run, NEW label \in Label, Goto(r, label), UNCHANGED todo
    PROVE  Comes(r, label, todo[r])
  BY DEF Typed, Goto, Comes

LEMMA AdvanceComes ==
    ASSUME Typed, InOrder, NEW r \in Run, todo[r] # << >>, Advance(r)
    PROVE  \E label \in {"done", "find", "user"} :
              /\ Comes(r, label, Tail(todo[r])) /\ InAppFirst(Tail(todo[r]))
              /\ label # "done" => Tail(todo[r]) # << >>
              /\ label = "user" => Head(Tail(todo[r]))[2] = InApp
              /\ label = "find" => Head(Tail(todo[r]))[1] = UserOf(r)
  <1> DEFINE s == todo[r]
             label == NextLabel(Tail(s), UserOf(r))
  <1>1. s \in Seq(Entry) /\ s # << >> /\ InAppFirst(s)
    BY DEF Typed, InOrder, InPlace
  <1>2. /\ Tail(s) \in Seq(Entry) /\ InAppFirst(Tail(s))
        /\ Tail(s) # << >> => /\ Head(Tail(s)) = s[2]
                              /\ s[2][1] # s[1][1] => s[2][2] = InApp
    BY <1>1, TailInOrder
  <1>3. UserOf(r) = s[1][1]
    BY <1>1, HeadInHand DEF UserOf
  <1>4. /\ label \in {"done", "find", "user"}
        /\ label # "done" => Tail(s) # << >>
        /\ label = "user" => Tail(s) # << >> /\ Head(Tail(s))[1] # UserOf(r)
        /\ label = "find" => Head(Tail(s))[1] = UserOf(r)
    BY DEF NextLabel
  <1>5. Comes(r, label, Tail(s))
    BY <1>2, <1>4 DEF Advance, Goto, Typed, Comes, Label
  <1> HIDE DEF label
  <1>6. QED
    BY <1>2, <1>3, <1>4, <1>5

LEMMA SkipComes ==
    ASSUME Typed, InOrder, NEW r \in Run, todo[r] # << >>, SkipUser(r)
    PROVE  \E label \in {"done", "user"}, s \in Seq(Entry) :
              /\ Comes(r, label, s) /\ InAppFirst(s)
              /\ label = "user" => s # << >> /\ Head(s)[2] = InApp
  <1>1. todo[r] \in Seq(Entry) /\ InAppFirst(todo[r]) /\ UserOf(r) = todo[r][1][1]
    BY HeadInHand DEF Typed, InOrder, InPlace, UserOf
  <1>2. CASE todo' = [todo EXCEPT ![r] = << >>] /\ Goto(r, "done")
    <2>1. << >> \in Seq(Entry) /\ InAppFirst(<< >>)
      BY DEF InAppFirst
    <2>2. Comes(r, "done", << >>)
      BY <1>2, <2>1 DEF Typed, Goto, Comes, Label
    <2>3. QED
      BY <2>1, <2>2
  <1>3. ASSUME NEW i \in DOMAIN todo[r], todo[r][i][1] # UserOf(r),
               \A j \in 1..(i - 1) : todo[r][j][1] = UserOf(r),
               todo' = [todo EXCEPT ![r] = SubSeq(todo[r], i, Len(todo[r]))],
               Goto(r, "user")
        PROVE  \E label \in {"done", "user"}, s \in Seq(Entry) :
                  /\ Comes(r, label, s) /\ InAppFirst(s)
                  /\ label = "user" => s # << >> /\ Head(s)[2] = InApp
    <2> DEFINE s == SubSeq(todo[r], i, Len(todo[r]))
    <2>1. i \in 1..Len(todo[r]) /\ i > 1 /\ i - 1 \in 1..(i - 1)
      BY <1>1, <1>3
    <2>2. todo[r][i - 1][1] # todo[r][i][1]
      BY <1>3, <2>1
    <2>3. s \in Seq(Entry) /\ s # << >> /\ InAppFirst(s) /\ Head(s)[2] = InApp
      BY <1>1, <2>1, <2>2, RestInOrder
    <2> HIDE DEF s
    <2>4. Comes(r, "user", s)
      BY <1>3, <2>3 DEF s, Typed, Goto, Comes, Label
    <2>5. QED
      BY <2>3, <2>4
  <1>4. QED
    BY <1>2, <1>3 DEF SkipUser, Typed

-------------------------------------------------------------------------------
(* Where a step leaves its run *)

LEMMA AdvanceKeepsPlace ==
    ASSUME Typed, InOrder, NEW r \in Run, todo[r] # << >>, Advance(r),
           UNCHANGED runDate, rows'[AppKey(KeyOf(r))] # "absent"
    PROVE  /\ InPlace(r)' /\ ~Sending(r)' /\ OthersStay(r)
           /\ pc' \in [Run -> Label] /\ todo' \in [Run -> Seq(Entry)]
  <1>1. PICK label \in {"done", "find", "user"} :
            /\ Comes(r, label, Tail(todo[r])) /\ InAppFirst(Tail(todo[r]))
            /\ label # "done" => Tail(todo[r]) # << >>
            /\ label = "user" => Head(Tail(todo[r]))[2] = InApp
            /\ label = "find" => Head(Tail(todo[r]))[1] = UserOf(r)
    BY AdvanceComes
  <1> DEFINE s == Tail(todo[r])
  <1>2. /\ pc'[r] = label /\ todo'[r] = s /\ OthersStay(r)
        /\ pc' \in [Run -> Label] /\ todo' \in [Run -> Seq(Entry)]
    BY <1>1 DEF Comes, OthersStay
  <1>3. InHand(r)' = Head(s) /\ KeyOf(r)' = <<Head(s)[1], runDate[r], Head(s)[2]>>
    BY <1>2 DEF InHand, KeyOf
  <1>4. label = "find" => AppKey(KeyOf(r)') = AppKey(KeyOf(r))
    BY <1>1, <1>3 DEF AppKey, KeyOf, UserOf
  <1>5. label = "find" => rows'[AppKey(KeyOf(r)')] # "absent"
    BY <1>4
  <1> HIDE DEF s
  <1>6. InPlace(r)'
    BY <1>1, <1>2, <1>3, <1>5 DEF s, InPlace, Working, Label, AppKey
  <1>7. ~Sending(r)'
    BY <1>2 DEF Sending
  <1>8. QED
    BY <1>2, <1>6, <1>7

LEMMA SkipKeepsPlace ==
    ASSUME Typed, InOrder, NEW r \in Run, todo[r] # << >>, SkipUser(r), UNCHANGED runDate
    PROVE  /\ InPlace(r)' /\ ~Sending(r)' /\ OthersStay(r)
           /\ pc' \in [Run -> Label] /\ todo' \in [Run -> Seq(Entry)]
  <1>1. PICK label \in {"done", "user"}, s \in Seq(Entry) :
            /\ Comes(r, label, s) /\ InAppFirst(s)
            /\ label = "user" => s # << >> /\ Head(s)[2] = InApp
    BY SkipComes
  <1>2. /\ pc'[r] = label /\ todo'[r] = s /\ OthersStay(r)
        /\ pc' \in [Run -> Label] /\ todo' \in [Run -> Seq(Entry)]
    BY <1>1 DEF Comes, OthersStay
  <1>3. InPlace(r)'
    BY <1>1, <1>2 DEF InPlace, InHand, Working
  <1>4. QED
    BY <1>2, <1>3 DEF Sending

LEMMA GotoKeepsPlace ==
    ASSUME Typed, InOrder, NEW r \in Run, pc[r] \in Working,
           NEW label \in Working \ {"user"}, Goto(r, label), UNCHANGED <<todo, runDate>>,
           \A k \in Key : rows[k] # "absent" => rows'[k] # "absent"
    PROVE  /\ InPlace(r)' /\ OthersStay(r) /\ pc'[r] = label
           /\ InHand(r)' = InHand(r) /\ KeyOf(r)' = KeyOf(r)
           /\ pc' \in [Run -> Label] /\ todo' \in [Run -> Seq(Entry)]
  <1>1. todo[r] # << >> /\ InPlace(r)
    BY DEF InOrder, InPlace
  <1>2. Comes(r, label, todo[r])
    BY GotoComes DEF Working
  <1>3. /\ pc'[r] = label /\ todo'[r] = todo[r] /\ OthersStay(r)
        /\ pc' \in [Run -> Label] /\ todo' \in [Run -> Seq(Entry)]
    BY <1>2 DEF Comes, OthersStay
  <1>4. InHand(r)' = InHand(r) /\ KeyOf(r)' = KeyOf(r)
    BY DEF InHand, KeyOf
  <1>5. AppKey(KeyOf(r)) \in Key
    BY <1>1, HeadInHand
  <1>6. InHand(r)[2] # InApp => rows'[AppKey(KeyOf(r))] # "absent"
    BY <1>1, <1>5 DEF InPlace, Working
  <1>7. InPlace(r)'
    BY <1>1, <1>3, <1>4, <1>6 DEF InPlace, Working, AppKey
  <1>8. QED
    BY <1>3, <1>4, <1>7

-------------------------------------------------------------------------------
(* The parts of IInv that a step of one run may disturb *)

\* Rows are not deleted, messages not taken back.
Grows ==
    /\ \A k \in Key : rows[k] # "absent" => rows'[k] # "absent"
    /\ \A k \in Key : delivered'[k] >= delivered[k]
    /\ contended \subseteq contended' /\ unrecorded \subseteq unrecorded'

LEMMA OthersInHand ==
    ASSUME IInv, NEW r \in Run, OthersStay(r), NEW q \in Run \ {r}
    PROVE  /\ pc'[q] = pc[q] /\ todo'[q] = todo[q] /\ Sending(q)' = Sending(q)
           /\ InHand(q)' = InHand(q) /\ KeyOf(q)' = KeyOf(q)
           /\ pc[q] \in Working =>
                  todo[q] # << >> /\ KeyOf(q) \in Key /\ AppKey(KeyOf(q)) \in Key
  <1>1. pc'[q] = pc[q] /\ todo'[q] = todo[q] /\ runDate'[q] = runDate[q]
    BY DEF OthersStay
  <1>2. Sending(q)' = Sending(q) /\ InHand(q)' = InHand(q) /\ KeyOf(q)' = KeyOf(q)
    BY <1>1 DEF Sending, InHand, KeyOf
  <1>3. pc[q] \in Working => todo[q] # << >>
    BY DEF IInv, InOrder, InPlace
  <1>4. QED
    BY <1>1, <1>2, <1>3, HeadInHand DEF IInv

LEMMA OrderKept ==
    ASSUME IInv, NEW r \in Run, OthersStay(r), Grows, InPlace(r)'
    PROVE  InOrder'
  <1> SUFFICES ASSUME NEW q \in Run \ {r} PROVE InPlace(q)'
    BY DEF InOrder
  <1>1. InPlace(q)
    BY DEF IInv, InOrder
  <1>2. /\ pc'[q] = pc[q] /\ todo'[q] = todo[q]
        /\ InHand(q)' = InHand(q) /\ KeyOf(q)' = KeyOf(q)
        /\ pc[q] \in Working => AppKey(KeyOf(q)) \in Key
    BY OthersInHand
  <1>3. AppKey(KeyOf(q))' = AppKey(KeyOf(q))
    BY <1>2 DEF AppKey
  <1>4. pc[q] \in Working \ {"user"} /\ InHand(q)[2] # InApp =>
            rows'[AppKey(KeyOf(q))] # "absent"
    BY <1>1, <1>2 DEF InPlace, Grows
  <1>5. QED
    BY <1>1, <1>2, <1>3, <1>4 DEF InPlace

LEMMA SendsKept ==
    ASSUME IInv, NEW r \in Run, OthersStay(r), Grows,
           Sending(r)' => (InHand(r)[2] \in Channel /\ rows[KeyOf(r)] # "absent")',
           pc'[r] = "markSent" => (delivered[KeyOf(r)] > 0)',
           delivered' \in [Key -> Nat]
    PROVE  SendsOnRow' /\ SentIsMarked'
  <1>1. ASSUME NEW q \in Run \ {r}, Sending(q)'
        PROVE  (InHand(q)[2] \in Channel /\ rows[KeyOf(q)] # "absent")'
    <2>1. Sending(q) /\ InHand(q)' = InHand(q) /\ KeyOf(q)' = KeyOf(q)
      BY <1>1, OthersInHand
    <2>2. KeyOf(q) \in Key
      BY <2>1, OthersInHand DEF Sending, Working, Label
    <2>3. InHand(q)[2] \in Channel /\ rows[KeyOf(q)] # "absent"
      BY <2>1 DEF IInv, SendsOnRow
    <2>4. QED
      BY <2>1, <2>2, <2>3 DEF Grows
  <1>2. ASSUME NEW q \in Run \ {r}, pc'[q] = "markSent"
        PROVE  (delivered[KeyOf(q)] > 0)'
    <2>1. pc[q] = "markSent" /\ KeyOf(q)' = KeyOf(q)
      BY <1>2, OthersInHand
    <2>2. KeyOf(q) \in Key
      BY <2>1, OthersInHand DEF Working, Label
    <2>3. delivered[KeyOf(q)] > 0 /\ delivered[KeyOf(q)] \in Nat /\ delivered'[KeyOf(q)] \in Nat
      BY <2>1, <2>2 DEF IInv, SentIsMarked, Typed
    <2>4. delivered'[KeyOf(q)] > 0
      BY <2>2, <2>3 DEF Grows
    <2>5. QED
      BY <2>1, <2>4
  <1>3. QED
    BY <1>1, <1>2 DEF SendsOnRow, SentIsMarked

\* A step that delivers nothing, sets no run sending and records what its run
\* had delivered, as SENT or as unrecorded, leaves every key single.
LEMMA SingleKept ==
    ASSUME IInv, NEW r \in Run, OthersStay(r), Grows, UNCHANGED delivered, ~Sending(r)',
           \A k \in Key : /\ rows[k] = "SENT" /\ k \notin contended' \union unrecorded'
                           => rows'[k] = "SENT",
           pc[r] = "markSent" => rows'[KeyOf(r)] = "SENT" \/ KeyOf(r) \in unrecorded'
    PROVE  \A k \in Key : Single(k)'
  <1> SUFFICES ASSUME NEW k \in Key, k \notin contended' \union unrecorded'
               PROVE  /\ \A p, q \in Run : /\ Sending(p)' /\ KeyOf(p)' = k
                                            /\ Sending(q)' /\ KeyOf(q)' = k
                                            => p = q
                      /\ delivered'[k] <= 1
                      /\ delivered'[k] > 0 =>
                             \/ rows'[k] = "SENT"
                             \/ \E q \in Run : pc'[q] = "markSent" /\ KeyOf(q)' = k
                      /\ \A q \in Run : pc'[q] \in {"send", "markFailed"} /\ KeyOf(q)' = k
                                         => delivered'[k] = 0
    BY DEF Single
  <1>1. Single(k) /\ k \notin contended \union unrecorded
    BY DEF IInv, Grows
  <1>2. \A q \in Run : Sending(q)' => q # r /\ Sending(q) /\ KeyOf(q)' = KeyOf(q)
    BY OthersInHand
  <1>3. \A q \in Run : pc'[q] \in {"send", "markFailed"} =>
                          Sending(q)' /\ pc[q] = pc'[q]
    BY OthersInHand DEF Sending
  <1>4. ASSUME delivered[k] > 0, rows'[k] # "SENT"
        PROVE  \E q \in Run : pc'[q] = "markSent" /\ KeyOf(q)' = k
    <2>1. rows[k] # "SENT"
      BY <1>4
    <2>2. PICK q \in Run : pc[q] = "markSent" /\ KeyOf(q) = k
      BY <1>1, <1>4, <2>1 DEF Single
    <2>3. q # r
      BY <1>4, <2>2
    <2>4. QED
      BY <2>2, <2>3, OthersInHand
  <1>5. QED
    BY <1>1, <1>2, <1>3, <1>4 DEF Single

-------------------------------------------------------------------------------
(* The steps of a run *)

LEMMA RowsAlone ==
    ASSUME IInv, UNCHANGED <<rows, delivered>> PROVE SentMeansDelivered'
  BY DEF IInv, SentMeansDelivered

LEMMA AtWork ==
    ASSUME IInv, NEW r \in Run, pc[r] \in Working
    PROVE  /\ Typed /\ InOrder /\ InPlace(r) /\ todo[r] # << >>
           /\ InHand(r) \in Entry /\ KeyOf(r) \in Key /\ AppKey(KeyOf(r)) \in Key
           /\ KeyOf(r)[3] = InHand(r)[2]
           /\ InHand(r)[2] = InApp => AppKey(KeyOf(r)) = KeyOf(r)
           /\ InHand(r)[2] # InApp => InHand(r)[2] \in Channel
  <1>1. Typed /\ InOrder /\ InPlace(r) /\ todo[r] # << >>
    BY DEF IInv, InOrder, InPlace
  <1>2. InHand(r) \in Entry
    BY <1>1, HeadInHand
  <1>3. InHand(r)[2] # InApp => InHand(r)[2] \in Channel
    BY <1>2 DEF Entry
  <1>4. QED
    BY <1>1, <1>2, <1>3, HeadInHand

\* A step that delivers nothing and after which its run sends nothing.
LEMMA QuietKeeps ==
    ASSUME IInv, NEW r \in Run, OthersStay(r), InPlace(r)', ~Sending(r)',
           pc' \in [Run -> Label], todo' \in [Run -> Seq(Entry)],
           runDate' \in [Run -> Date], today' \in Date, rows' \in [Key -> Status],
           UNCHANGED delivered, Grows, SentMeansDelivered',
           \A k \in Key : /\ rows[k] = "SENT" /\ k \notin contended' \union unrecorded'
                           => rows'[k] = "SENT",
           pc[r] = "markSent" => rows'[KeyOf(r)] = "SENT" \/ KeyOf(r) \in unrecorded'
    PROVE  IInv'
  <1>1. Typed'
    BY DEF IInv, Typed
  <1>2. InOrder'
    BY OrderKept
  <1>3. pc'[r] # "markSent"
    BY DEF Sending
  <1>4. SendsOnRow' /\ SentIsMarked'
    BY <1>1, <1>3, SendsKept DEF Typed
  <1>5. \A k \in Key : Single(k)'
    BY SingleKept
  <1>6. QED
    BY <1>1, <1>2, <1>4, <1>5 DEF IInv

LEMMA BeginKeeps ==
    ASSUME IInv, NEW r \in Run, Begin(r) PROVE IInv'
  <1> DEFINE label == IF Worklist = << >> THEN "done" ELSE "user"
  <1>1. /\ pc' = [pc EXCEPT ![r] = label] /\ todo' = [todo EXCEPT ![r] = Worklist]
        /\ runDate' = [runDate EXCEPT ![r] = today]
        /\ UNCHANGED <<today, rows, delivered, unrecorded, contended>> /\ pc[r] = "idle"
    BY DEF Begin, Goto
  <1>2. Worklist \in Seq(Entry)
    BY DEF Entry
  <1>3. Typed
    BY DEF IInv
  <1>4. /\ pc' \in [Run -> Label] /\ todo' \in [Run -> Seq(Entry)]
        /\ runDate' \in [Run -> Date] /\ OthersStay(r)
        /\ pc'[r] = label /\ todo'[r] = Worklist
    BY <1>1, <1>2, <1>3 DEF Typed, Label, OthersStay
  <1>5. InAppFirst(Worklist)
    BY DEF InAppFirst
  <1>6. ASSUME Worklist # << >> PROVE Head(Worklist)[2] = InApp
    <2>1. Head(Worklist) = Worklist[1] /\ 1 \in DOMAIN Worklist
      BY <1>2, <1>6
    <2>2. QED
      BY <2>1
  <1>7. InPlace(r)' /\ ~Sending(r)'
    BY <1>4, <1>5, <1>6 DEF InPlace, InHand, Working, Sending
  <1>8. SentMeansDelivered'
    BY <1>1, RowsAlone
  <1>9. Grows
    BY <1>1, <1>3 DEF Grows, Typed
  <1>10. QED
    BY <1>1, <1>3, <1>4, <1>7, <1>8, <1>9, QuietKeeps DEF Typed

LEMMA BuildDigestKeeps ==
    ASSUME IInv, NEW r \in Run, BuildDigest(r) PROVE IInv'
  <1>1. /\ UNCHANGED <<today, rows, runDate, delivered, unrecorded, contended>>
        /\ pc[r] = "user" /\ pc[r] \in Working
    BY DEF BuildDigest, history, Working, Label
  <1>2. Typed /\ InOrder /\ todo[r] # << >>
    BY <1>1, AtWork
  <1>3. /\ InPlace(r)' /\ OthersStay(r) /\ ~Sending(r)'
        /\ pc' \in [Run -> Label] /\ todo' \in [Run -> Seq(Entry)]
    <2>1. CASE Goto(r, "find") /\ UNCHANGED todo
      <3>1. "find" \in Working \ {"user"}
        BY DEF Working, Label
      <3>2. QED
        BY <1>1, <1>2, <2>1, <3>1, GotoKeepsPlace DEF Sending
    <2>2. CASE SkipUser(r)
      BY <1>1, <1>2, <2>2, SkipKeepsPlace
    <2>3. QED
      BY <2>1, <2>2 DEF BuildDigest
  <1>4. SentMeansDelivered'
    BY <1>1, RowsAlone
  <1>5. Grows
    BY <1>1, <1>2 DEF Grows, Typed
  <1>6. QED
    BY <1>1, <1>2, <1>3, <1>4, <1>5, QuietKeeps DEF Typed

\* A run begins to send: nobody else sends for the key, and nothing went out for
\* it, or the key is contended or has an unrecorded delivery.
LEMMA StartSendingKeeps ==
    ASSUME IInv, NEW r \in Run, pc[r] \in {"find", "create"}, Goto(r, "send"),
           UNCHANGED <<todo, runDate, today, delivered, unrecorded>>, Grows,
           rows' \in [Key -> Status], SentMeansDelivered',
           \A k \in Key : rows[k] = "SENT" => rows'[k] = "SENT",
           InHand(r)[2] \in Channel, rows'[KeyOf(r)] # "absent",
           KeyOf(r) \notin contended' \union unrecorded =>
               /\ delivered[KeyOf(r)] = 0
               /\ \A q \in Run \ {r} : ~(Sending(q) /\ KeyOf(q) = KeyOf(r))
    PROVE  IInv'
  <1>1. pc[r] \in Working /\ "send" \in Working \ {"user"}
    BY DEF Working, Label
  <1>2. Typed /\ InOrder /\ KeyOf(r) \in Key
    BY <1>1, AtWork
  <1>3. /\ InPlace(r)' /\ OthersStay(r) /\ pc'[r] = "send"
        /\ InHand(r)' = InHand(r) /\ KeyOf(r)' = KeyOf(r)
        /\ pc' \in [Run -> Label] /\ todo' \in [Run -> Seq(Entry)]
    BY <1>1, <1>2, GotoKeepsPlace DEF Grows
  <1>4. Typed'
    BY <1>2, <1>3 DEF Typed
  <1>5. InOrder'
    BY <1>3, OrderKept
  <1>6. SendsOnRow' /\ SentIsMarked'
    <2>1. Sending(r)' => (InHand(r)[2] \in Channel /\ rows[KeyOf(r)] # "absent")'
      BY <1>3
    <2>2. pc'[r] # "markSent"
      BY <1>3
    <2>3. QED
      BY <1>3, <1>4, <2>1, <2>2, SendsKept DEF Typed
  <1>7. ASSUME NEW k \in Key, k \notin contended' \union unrecorded'
        PROVE  /\ \A p, q \in Run : /\ Sending(p)' /\ KeyOf(p)' = k
                                     /\ Sending(q)' /\ KeyOf(q)' = k
                                     => p = q
               /\ delivered'[k] <= 1
               /\ delivered'[k] > 0 =>
                      \/ rows'[k] = "SENT"
                      \/ \E q \in Run : pc'[q] = "markSent" /\ KeyOf(q)' = k
               /\ \A q \in Run : pc'[q] \in {"send", "markFailed"} /\ KeyOf(q)' = k
                                  => delivered'[k] = 0
    <2>1. Single(k) /\ k \notin contended \union unrecorded
      BY <1>7 DEF IInv, Grows
    <2>2. k = KeyOf(r) => /\ delivered[k] = 0
                          /\ \A q \in Run \ {r} : ~(Sending(q) /\ KeyOf(q) = k)
      BY <1>7
    <2>3. \A q \in Run \ {r} : /\ Sending(q)' = Sending(q) /\ KeyOf(q)' = KeyOf(q)
                               /\ pc'[q] = pc[q]
      BY <1>3, OthersInHand
    <2>4. ASSUME NEW p \in Run, NEW q \in Run, Sending(p)', KeyOf(p)' = k,
                 Sending(q)', KeyOf(q)' = k
          PROVE  p = q
      <3>1. CASE p # r /\ q # r
        <4>1. Sending(p) /\ KeyOf(p) = k /\ Sending(q) /\ KeyOf(q) = k
          BY <2>3, <2>4, <3>1
        <4>2. QED
          BY <2>1, <4>1 DEF Single
      <3>2. CASE k = KeyOf(r)
        <4>1. p = r /\ q = r
          BY <2>2, <2>3, <2>4, <3>2
        <4>2. QED
          BY <4>1
      <3>3. QED
        BY <1>3, <2>4, <3>1, <3>2
    <2>5. ASSUME delivered'[k] > 0, rows'[k] # "SENT"
          PROVE  \E q \in Run : pc'[q] = "markSent" /\ KeyOf(q)' = k
      <3>1. delivered[k] > 0 /\ rows[k] # "SENT"
        BY <2>5
      <3>2. PICK q \in Run : pc[q] = "markSent" /\ KeyOf(q) = k
        BY <2>1, <3>1 DEF Single
      <3>3. QED
        BY <2>3, <3>2
    <2>6. ASSUME NEW q \in Run, pc'[q] \in {"send", "markFailed"}, KeyOf(q)' = k
          PROVE  delivered'[k] = 0
      BY <1>3, <2>1, <2>2, <2>3, <2>6 DEF Single
    <2>7. QED
      BY <2>1, <2>4, <2>5, <2>6 DEF Single
  <1>8. \A k \in Key : Single(k)'
    BY <1>7 DEF Single
  <1>9. QED
    BY <1>4, <1>5, <1>6, <1>8 DEF IInv

\* The delivery of a key that is clean and whose row is not SENT is in the hands
\* of a run that is to mark it.
LEMMA CleanAndUnsent ==
    ASSUME IInv, NEW k \in Key, k \notin contended \union unrecorded, rows[k] # "SENT",
           \A q \in Run : ~(pc[q] = "markSent" /\ KeyOf(q) = k)
    PROVE  delivered[k] = 0
  <1>1. Single(k) /\ delivered[k] \in Nat
    BY DEF IInv, Typed
  <1>2. ~(delivered[k] > 0)
    BY <1>1 DEF Single
  <1>3. QED
    BY <1>1, <1>2

LEMMA FindRowKeeps ==
    ASSUME IInv, NEW r \in Run, FindRow(r) PROVE IInv'
  <1>1. /\ UNCHANGED <<today, rows, runDate, delivered, unrecorded>>
        /\ pc[r] = "find" /\ pc[r] \in Working
    BY DEF FindRow, Working, Label
  <1>2. /\ Typed /\ InOrder /\ InPlace(r) /\ todo[r] # << >>
        /\ KeyOf(r) \in Key
        /\ InHand(r)[2] = InApp => AppKey(KeyOf(r)) = KeyOf(r)
    BY <1>1, AtWork
  <1>3. SentMeansDelivered'
    BY <1>1, RowsAlone
  <1>4. contended \subseteq contended'
    BY DEF FindRow
  <1>5. Grows
    BY <1>1, <1>2, <1>4 DEF Grows, Typed
  <1>6. CASE /\ rows[KeyOf(r)] \in {"PENDING", "FAILED"} /\ InHand(r)[2] \in Channel
             /\ Goto(r, "send") /\ UNCHANGED todo
             /\ contended' = contended \union
                  {k \in {KeyOf(r)} : \E q \in Run \ {r} : Sending(q) /\ KeyOf(q) = k}
    <2>1. ASSUME KeyOf(r) \notin contended' \union unrecorded
          PROVE  /\ delivered[KeyOf(r)] = 0
                 /\ \A q \in Run \ {r} : ~(Sending(q) /\ KeyOf(q) = KeyOf(r))
      <3>1. \A q \in Run \ {r} : ~(Sending(q) /\ KeyOf(q) = KeyOf(r))
        BY <1>6, <2>1
      <3>2. \A q \in Run : ~(pc[q] = "markSent" /\ KeyOf(q) = KeyOf(r))
        BY <1>1, <3>1 DEF Sending
      <3>3. KeyOf(r) \notin contended \union unrecorded /\ rows[KeyOf(r)] # "SENT"
        BY <1>4, <1>6, <2>1
      <3>4. QED
        BY <1>2, <3>1, <3>2, <3>3, CleanAndUnsent
    <2>2. QED
      BY <1>1, <1>2, <1>3, <1>5, <1>6, <2>1, StartSendingKeeps DEF Typed
  <1>7. CASE Goto(r, "create") /\ UNCHANGED todo
    <2>1. "create" \in Working \ {"user"}
      BY DEF Working, Label
    <2>2. /\ InPlace(r)' /\ OthersStay(r) /\ ~Sending(r)'
          /\ pc' \in [Run -> Label] /\ todo' \in [Run -> Seq(Entry)]
      BY <1>1, <1>2, <1>7, <2>1, GotoKeepsPlace DEF Sending
    <2>3. QED
      BY <1>1, <1>2, <1>3, <1>5, <2>2, QuietKeeps DEF Typed
  <1>8. CASE rows[KeyOf(r)] # "absent" /\ Advance(r)
    <2>1. rows'[AppKey(KeyOf(r))] # "absent"
      BY <1>1, <1>2, <1>8 DEF InPlace
    <2>2. /\ InPlace(r)' /\ OthersStay(r) /\ ~Sending(r)'
          /\ pc' \in [Run -> Label] /\ todo' \in [Run -> Seq(Entry)]
      BY <1>1, <1>2, <1>8, <2>1, AdvanceKeepsPlace
    <2>3. QED
      BY <1>1, <1>2, <1>3, <1>5, <2>2, QuietKeeps DEF Typed
  <1>9. QED
    BY <1>6, <1>7, <1>8 DEF FindRow

LEMMA LoseCreateKeeps ==
    ASSUME IInv, NEW r \in Run, LoseCreate(r) PROVE IInv'
  <1>1. /\ UNCHANGED <<today, rows, todo, runDate, delivered, unrecorded, contended>>
        /\ pc[r] = "create" /\ Goto(r, "find")
        /\ pc[r] \in Working /\ "find" \in Working \ {"user"}
    BY DEF LoseCreate, history, Working, Label
  <1>2. Typed /\ InOrder
    BY DEF IInv
  <1>3. /\ InPlace(r)' /\ OthersStay(r) /\ ~Sending(r)'
        /\ pc' \in [Run -> Label] /\ todo' \in [Run -> Seq(Entry)]
    BY <1>1, <1>2, GotoKeepsPlace DEF Sending
  <1>4. SentMeansDelivered' /\ Grows
    BY <1>1, <1>2, RowsAlone DEF Grows, Typed
  <1>5. QED
    BY <1>1, <1>2, <1>3, <1>4, QuietKeeps DEF Typed

LEMMA CreateRowKeeps ==
    ASSUME IInv, NEW r \in Run, CreateRow(r) PROVE IInv'
  <1>1. /\ UNCHANGED <<today, runDate, delivered, unrecorded, contended>>
        /\ rows' = [rows EXCEPT ![KeyOf(r)] = "PENDING"] /\ rows[KeyOf(r)] = "absent"
        /\ pc[r] = "create" /\ pc[r] \in Working
    BY DEF CreateRow, history, Working, Label
  <1>2. /\ Typed /\ InOrder /\ InPlace(r) /\ todo[r] # << >>
        /\ KeyOf(r) \in Key
        /\ InHand(r)[2] = InApp => AppKey(KeyOf(r)) = KeyOf(r)
        /\ InHand(r)[2] # InApp => InHand(r)[2] \in Channel
    BY <1>1, AtWork
  <1>3. /\ rows' \in [Key -> Status] /\ rows'[KeyOf(r)] = "PENDING"
        /\ \A k \in Key : rows[k] # "absent" => rows'[k] = rows[k]
        /\ \A k \in Key : rows'[k] = "SENT" => rows[k] = "SENT"
    BY <1>1, <1>2 DEF Typed, Status
  <1>4. Grows
    BY <1>1, <1>2, <1>3 DEF Grows, Typed
  <1>5. SentMeansDelivered'
    <2> SUFFICES ASSUME NEW k \in Key
                 PROVE  /\ rows'[k] = "SENT" => delivered[k] > 0
                        /\ delivered[k] > 0 => /\ rows'[k] # "absent" /\ k[3] \in Channel
                                               /\ rows'[<<k[1], k[2], InApp>>] # "absent"
      BY <1>1 DEF SentMeansDelivered
    <2>1. <<k[1], k[2], InApp>> \in Key
      BY DEF Key
    <2>2. QED
      BY <1>3, <2>1 DEF IInv, SentMeansDelivered
  <1>6. CASE InHand(r)[2] = InApp /\ Advance(r)
    <2>1. rows'[AppKey(KeyOf(r))] # "absent"
      BY <1>2, <1>3, <1>6
    <2>2. /\ InPlace(r)' /\ OthersStay(r) /\ ~Sending(r)'
          /\ pc' \in [Run -> Label] /\ todo' \in [Run -> Seq(Entry)]
      BY <1>1, <1>2, <1>6, <2>1, AdvanceKeepsPlace
    <2>3. QED
      BY <1>1, <1>2, <1>3, <1>4, <1>5, <2>2, QuietKeeps DEF Typed
  <1>7. CASE InHand(r)[2] # InApp /\ Goto(r, "send") /\ UNCHANGED todo
    <2>1. ~(delivered[KeyOf(r)] > 0)
      BY <1>1, <1>2 DEF IInv, SentMeansDelivered
    <2>2. delivered[KeyOf(r)] = 0
      BY <1>2, <2>1 DEF Typed
    <2>3. \A q \in Run : ~(Sending(q) /\ KeyOf(q) = KeyOf(r))
      BY <1>1 DEF IInv, SendsOnRow
    <2>4. QED
      BY <1>1, <1>2, <1>3, <1>4, <1>5, <1>7, <2>2, <2>3, StartSendingKeeps
  <1>8. QED
    BY <1>6, <1>7 DEF CreateRow

\* The run has marked the row, or given its channel up, and goes on.
LEMMA MarkKeeps ==
    ASSUME IInv, NEW r \in Run, MarkSent(r) \/ MarkFailed(r) PROVE IInv'
  <1>1. PICK mark \in {"SENT", "FAILED"} :
            /\ rows' = [rows EXCEPT ![KeyOf(r)] = mark]
            /\ mark = "SENT" <=> pc[r] = "markSent"
            /\ pc[r] \in {"markSent", "markFailed"} /\ Advance(r)
            /\ UNCHANGED <<today, runDate, delivered, unrecorded, contended>>
    BY DEF MarkSent, MarkFailed, history
  <1>2. pc[r] \in Working /\ Sending(r)
    BY <1>1 DEF Working, Label, Sending
  <1>3. /\ Typed /\ InOrder /\ InPlace(r) /\ todo[r] # << >>
        /\ KeyOf(r) \in Key /\ AppKey(KeyOf(r)) \in Key
    BY <1>2, AtWork
  <1>4. /\ rows' \in [Key -> Status] /\ rows'[KeyOf(r)] = mark
        /\ \A k \in Key : k # KeyOf(r) => rows'[k] = rows[k]
    BY <1>1, <1>3 DEF Typed, Status
  <1>5. /\ InHand(r)[2] \in Channel /\ rows[KeyOf(r)] # "absent"
        /\ pc[r] = "markSent" => delivered[KeyOf(r)] > 0
    BY <1>2 DEF IInv, SendsOnRow, SentIsMarked
  <1>6. Grows
    BY <1>1, <1>3, <1>4 DEF Grows, Typed
  <1>7. SentMeansDelivered'
    <2> SUFFICES ASSUME NEW k \in Key
                 PROVE  /\ rows'[k] = "SENT" => delivered[k] > 0
                        /\ delivered[k] > 0 => /\ rows'[k] # "absent" /\ k[3] \in Channel
                                               /\ rows'[<<k[1], k[2], InApp>>] # "absent"
      BY <1>1 DEF SentMeansDelivered
    <2>1. <<k[1], k[2], InApp>> \in Key
      BY DEF Key
    <2>2. QED
      BY <1>1, <1>4, <1>5, <2>1 DEF IInv, SentMeansDelivered
  <1>8. rows'[AppKey(KeyOf(r))] # "absent"
    <2>1. rows[AppKey(KeyOf(r))] # "absent"
      BY <1>1, <1>3, <1>5 DEF InPlace, Working, Label
    <2>2. QED
      BY <1>3, <1>4, <2>1
  <1>9. /\ InPlace(r)' /\ OthersStay(r) /\ ~Sending(r)'
        /\ pc' \in [Run -> Label] /\ todo' \in [Run -> Seq(Entry)]
    BY <1>1, <1>3, <1>8, AdvanceKeepsPlace
  <1>10. ASSUME NEW k \in Key, rows[k] = "SENT", k \notin contended \union unrecorded
         PROVE  rows'[k] = "SENT"
    <2>1. Single(k) /\ delivered[k] > 0
      BY <1>10 DEF IInv, SentMeansDelivered
    <2>2. ~(pc[r] = "markFailed" /\ KeyOf(r) = k)
      BY <1>10, <2>1 DEF Single
    <2>3. QED
      BY <1>1, <1>4, <1>10, <2>2
  <1>11. QED
    BY <1>1, <1>3, <1>4, <1>6, <1>7, <1>9, <1>10, QuietKeeps DEF Typed

LEMMA SendKeeps ==
    ASSUME IInv, NEW r \in Run, Send(r) PROVE IInv'
  <1> DEFINE key == KeyOf(r)
             More == [delivered EXCEPT ![key] = @ + 1]
  <1>1. PICK label \in {"markSent", "markFailed"} :
            /\ Goto(r, label)
            /\ delivered' = More \/ (label = "markFailed" /\ delivered' = delivered)
            /\ label = "markSent" => delivered' = More
            /\ label = "markFailed" => delivered' = delivered \/ key \in unrecorded'
            /\ unrecorded \subseteq unrecorded'
    <2>1. CASE Goto(r, "markSent") /\ delivered' = More /\ UNCHANGED unrecorded
      BY <2>1
    <2>2. CASE Goto(r, "markFailed") /\ UNCHANGED <<delivered, unrecorded>>
      BY <2>2
    <2>3. CASE /\ Goto(r, "markFailed") /\ delivered' = More
               /\ unrecorded' = unrecorded \union {key}
      BY <2>3
    <2>4. QED
      BY <2>1, <2>2, <2>3 DEF Send
  <1>2. /\ UNCHANGED <<today, rows, todo, runDate, contended>>
        /\ pc[r] = "send" /\ pc[r] \in Working /\ Sending(r)
        /\ label \in Working \ {"user"}
    BY DEF Send, Working, Label, Sending
  <1>3. /\ Typed /\ InOrder /\ InPlace(r) /\ todo[r] # << >>
        /\ key \in Key /\ AppKey(key) \in Key /\ key[3] = InHand(r)[2]
    BY <1>2, AtWork
  <1>4. /\ InHand(r)[2] \in Channel /\ rows[key] # "absent"
        /\ rows[AppKey(key)] # "absent"
    BY <1>2, <1>3 DEF IInv, SendsOnRow, InPlace, Working, Label
  <1> HIDE DEF key
  <1>5. /\ More \in [Key -> Nat] /\ More[key] = delivered[key] + 1
        /\ \A k \in Key : k # key => More[k] = delivered[k]
    BY <1>3 DEF Typed
  <1> HIDE DEF More
  <1>6. /\ delivered' \in [Key -> Nat] /\ \A k \in Key : delivered[k] \in Nat
        /\ \A k \in Key : k # key => delivered'[k] = delivered[k]
        /\ delivered'[key] >= delivered[key]
    BY <1>1, <1>3, <1>5 DEF Typed
  <1>7. Grows
    <2>1. \A k \in Key : delivered'[k] >= delivered[k]
      <3> TAKE k \in Key
      <3>1. CASE k = key
        BY <1>6, <3>1
      <3>2. CASE k # key
        BY <1>6, <3>2
      <3>3. QED
        BY <3>1, <3>2
    <2>2. QED
      BY <1>1, <1>2, <2>1 DEF Grows
  <1>8. /\ InPlace(r)' /\ OthersStay(r) /\ pc'[r] = label
        /\ InHand(r)' = InHand(r) /\ KeyOf(r)' = key
        /\ pc' \in [Run -> Label] /\ todo' \in [Run -> Seq(Entry)]
    BY <1>1, <1>2, <1>3, GotoKeepsPlace DEF key
  <1>9. Typed'
    BY <1>2, <1>3, <1>6, <1>8 DEF Typed
  <1>10. InOrder'
    BY <1>7, <1>8, OrderKept
  <1>11. SendsOnRow' /\ SentIsMarked'
    <2>1. (InHand(r)[2] \in Channel /\ rows[KeyOf(r)] # "absent")'
      BY <1>2, <1>4, <1>8
    <2>2. pc'[r] = "markSent" => (delivered[KeyOf(r)] > 0)'
      BY <1>1, <1>3, <1>5, <1>6, <1>8
    <2>3. QED
      BY <1>6, <1>7, <1>8, <2>1, <2>2, SendsKept
  <1>12. SentMeansDelivered'
    <2> SUFFICES ASSUME NEW k \in Key
                 PROVE  /\ rows[k] = "SENT" => delivered'[k] > 0
                        /\ delivered'[k] > 0 => /\ rows[k] # "absent" /\ k[3] \in Channel
                                                /\ rows[<<k[1], k[2], InApp>>] # "absent"
      BY <1>2 DEF SentMeansDelivered
    <2>1. rows[k] = "SENT" => delivered'[k] > 0
      <3>1. delivered'[k] >= delivered[k] /\ delivered'[k] \in Nat /\ delivered[k] \in Nat
        BY <1>6, <1>7 DEF Grows
      <3>2. rows[k] = "SENT" => delivered[k] > 0
        BY DEF IInv, SentMeansDelivered
      <3>3. QED
        BY <3>1, <3>2
    <2>2. CASE k = key
      BY <1>3, <1>4, <2>1, <2>2 DEF AppKey
    <2>3. CASE k # key
      BY <1>6, <2>3 DEF IInv, SentMeansDelivered
    <2>4. QED
      BY <2>1, <2>2, <2>3
  <1>13. ASSUME NEW k \in Key, k \notin contended' \union unrecorded'
         PROVE  /\ \A p, q \in Run : /\ Sending(p)' /\ KeyOf(p)' = k
                                      /\ Sending(q)' /\ KeyOf(q)' = k
                                      => p = q
                /\ delivered'[k] <= 1
                /\ delivered'[k] > 0 =>
                       \/ rows'[k] = "SENT"
                       \/ \E q \in Run : pc'[q] = "markSent" /\ KeyOf(q)' = k
                /\ \A q \in Run : pc'[q] \in {"send", "markFailed"} /\ KeyOf(q)' = k
                                   => delivered'[k] = 0
    <2>1. Single(k) /\ k \notin contended \union unrecorded
      BY <1>7, <1>13 DEF IInv, Grows
    <2>2. \A q \in Run \ {r} : /\ Sending(q)' = Sending(q) /\ KeyOf(q)' = KeyOf(q)
                               /\ pc'[q] = pc[q]
      BY <1>8, OthersInHand
    <2>3. \A q \in Run : Sending(q)' /\ KeyOf(q)' = k => Sending(q) /\ KeyOf(q) = k
      BY <1>2, <1>8, <2>2 DEF key
    <2>4. ASSUME NEW p \in Run, NEW q \in Run, Sending(p)', KeyOf(p)' = k,
                 Sending(q)', KeyOf(q)' = k
          PROVE  p = q
      BY <2>1, <2>3, <2>4 DEF Single
    <2>5. CASE k = key
      <3>1. delivered[k] = 0
        BY <1>2, <2>1, <2>5 DEF Single, key
      <3>2. \A q \in Run \ {r} : ~(Sending(q)' /\ KeyOf(q)' = k)
        BY <1>2, <2>1, <2>2, <2>5 DEF Single, key
      <3>3. CASE delivered' = More /\ label = "markSent"
        <4>1. delivered'[k] = 1 /\ pc'[r] = "markSent" /\ KeyOf(r)' = k
          BY <1>5, <1>8, <2>5, <3>1, <3>3
        <4>2. \A q \in Run : ~(pc'[q] \in {"send", "markFailed"} /\ KeyOf(q)' = k)
          BY <3>2, <4>1 DEF Sending
        <4>3. QED
          BY <2>4, <4>1, <4>2
      <3>4. CASE delivered' = delivered
        BY <2>4, <3>1, <3>4
      <3>5. QED
        BY <1>1, <1>13, <2>5, <3>3, <3>4
    <2>6. CASE k # key
      <3>1. delivered'[k] = delivered[k] /\ rows'[k] = rows[k]
        BY <1>2, <1>6, <2>6
      <3>2. \A q \in Run : KeyOf(q)' = k => q # r
        BY <1>8, <2>6
      <3>3. \A q \in Run : pc[q] = "markSent" /\ KeyOf(q) = k => q # r
        BY <1>2
      <3>4. \A q \in Run : pc[q] = "markSent" /\ KeyOf(q) = k =>
                               pc'[q] = "markSent" /\ KeyOf(q)' = k
        BY <2>2, <3>3
      <3>5. \A q \in Run : pc'[q] \in {"send", "markFailed"} /\ KeyOf(q)' = k
                              => delivered'[k] = 0
        BY <2>1, <2>2, <3>1, <3>2 DEF Single
      <3>6. QED
        BY <2>1, <2>4, <3>1, <3>4, <3>5 DEF Single
    <2>7. QED
      BY <2>5, <2>6
  <1>14. \A k \in Key : Single(k)'
    BY <1>13 DEF Single
  <1>15. QED
    BY <1>9, <1>10, <1>11, <1>12, <1>14 DEF IInv

\* The run gives its user or its try up; what it had delivered is forgotten.
LEMMA GiveUpKeeps ==
    ASSUME IInv, NEW r \in Run, UserFails(r) \/ Crash(r) PROVE IInv'
  <1>1. /\ UNCHANGED <<today, rows, runDate, delivered, contended>>
        /\ pc[r] \in Working /\ Forget(r)
    BY DEF UserFails, Crash, Working, Label
  <1>2. Typed /\ InOrder /\ todo[r] # << >>
    BY <1>1, AtWork
  <1>3. /\ InPlace(r)' /\ OthersStay(r) /\ ~Sending(r)'
        /\ pc' \in [Run -> Label] /\ todo' \in [Run -> Seq(Entry)]
    <2>1. CASE UserFails(r)
      BY <1>1, <1>2, <2>1, SkipKeepsPlace DEF UserFails
    <2>2. CASE Crash(r)
      <3>1. pc' = [pc EXCEPT ![r] = "idle"] /\ todo' = [todo EXCEPT ![r] = << >>]
        BY <2>2 DEF Crash, Goto
      <3>2. << >> \in Seq(Entry) /\ InAppFirst(<< >>)
        BY DEF InAppFirst
      <3>3. /\ pc' \in [Run -> Label] /\ todo' \in [Run -> Seq(Entry)]
            /\ pc'[r] = "idle" /\ todo'[r] = << >> /\ OthersStay(r)
        BY <1>1, <1>2, <3>1, <3>2 DEF Typed, Label, OthersStay
      <3>4. QED
        BY <3>2, <3>3 DEF InPlace, Working, Sending
    <2>3. QED
      BY <2>1, <2>2
  <1>4. SentMeansDelivered'
    BY <1>1, RowsAlone
  <1>5. Grows
    BY <1>1, <1>2 DEF Grows, Typed, Forget
  <1>6. pc[r] = "markSent" => KeyOf(r) \in unrecorded'
    BY <1>1 DEF Forget
  <1>7. QED
    BY <1>1, <1>2, <1>3, <1>4, <1>5, <1>6, QuietKeeps DEF Typed

LEMMA MidnightKeeps ==
    ASSUME IInv, Midnight PROVE IInv'
  <1>1. UNCHANGED <<rows, pc, todo, runDate, delivered, unrecorded, contended>>
    BY DEF Midnight, history
  <1>2. today' \in Date
    BY DEF IInv, Typed, Midnight, Date
  <1>3. Typed'
    BY <1>1, <1>2 DEF IInv, Typed
  <1>4. InOrder'
    BY <1>1 DEF IInv, InOrder, InPlace, InHand, KeyOf, AppKey
  <1>5. SendsOnRow' /\ SentIsMarked' /\ SentMeansDelivered'
    BY <1>1 DEF IInv, SendsOnRow, SentIsMarked, SentMeansDelivered, Sending, InHand, KeyOf
  <1>6. \A k \in Key : Single(k)'
    BY <1>1 DEF IInv, Single, Sending, InHand, KeyOf
  <1>7. QED
    BY <1>3, <1>4, <1>5, <1>6 DEF IInv

-------------------------------------------------------------------------------
(* The theorems *)

LEMMA InitEstablishes == Init => IInv
  <1> SUFFICES ASSUME Init PROVE IInv
    OBVIOUS
  <1>1. Typed
    <2>1. << >> \in Seq(Entry) /\ 1 \in Date
      BY DEF Date
    <2>2. QED
      BY <2>1 DEF Init, Typed, Status, Label
  <1>2. \A r \in Run : pc[r] = "idle" /\ todo[r] = << >> /\ ~Sending(r)
    BY DEF Init, Sending
  <1>3. InOrder
    BY <1>2 DEF InOrder, InPlace, InAppFirst, Working
  <1>4. SendsOnRow /\ SentIsMarked
    BY <1>2 DEF SendsOnRow, SentIsMarked
  <1>5. \A k \in Key : rows[k] = "absent" /\ delivered[k] = 0
    BY DEF Init
  <1>6. SentMeansDelivered /\ \A k \in Key : Single(k)
    BY <1>2, <1>5 DEF SentMeansDelivered, Single
  <1>7. QED
    BY <1>1, <1>3, <1>4, <1>6 DEF IInv

LEMMA StepKeeps == IInv /\ [Next]_vars => IInv'
  <1> SUFFICES ASSUME IInv, [Next]_vars PROVE IInv'
    OBVIOUS
  <1>1. CASE Midnight
    BY <1>1, MidnightKeeps
  <1>2. ASSUME NEW r \in Run, Begin(r) PROVE IInv'
    BY <1>2, BeginKeeps
  <1>3. ASSUME NEW r \in Run, RunStep(r) PROVE IInv'
    BY <1>3, BuildDigestKeeps, FindRowKeeps, CreateRowKeeps, LoseCreateKeeps,
       SendKeeps, MarkKeeps DEF RunStep
  <1>4. ASSUME NEW r \in Run, UserFails(r) \/ Crash(r) PROVE IInv'
    BY <1>4, GiveUpKeeps
  <1>5. CASE UNCHANGED vars
    <2>1. UNCHANGED <<today, rows, pc, todo, runDate, delivered, unrecorded, contended>>
      BY <1>5 DEF vars
    <2>2. Typed' /\ InOrder'
      BY <2>1 DEF IInv, Typed, InOrder, InPlace, InHand, KeyOf, AppKey
    <2>3. SendsOnRow' /\ SentIsMarked' /\ SentMeansDelivered'
      BY <2>1 DEF IInv, SendsOnRow, SentIsMarked, SentMeansDelivered, Sending, InHand, KeyOf
    <2>4. \A k \in Key : Single(k)'
      BY <2>1 DEF IInv, Single, Sending, InHand, KeyOf
    <2>5. QED
      BY <2>2, <2>3, <2>4 DEF IInv
  <1>6. QED
    BY <1>1, <1>2, <1>3, <1>4, <1>5 DEF Next

LEMMA IInvHolds == Spec => []IInv
  BY InitEstablishes, StepKeeps, PTL DEF Spec

\* TwiceOnlyIfUnrecorded: whatever overlaps, fails, is killed or starts over, a
\* digest goes out twice on a channel only where two runs were sending it at once
\* or a delivery was not recorded (daily_digest_service.py:150-187).
THEOREM TwiceOnlyIfUnrecordedHolds == Spec => []TwiceOnlyIfUnrecorded
  <1>1. IInv => TwiceOnlyIfUnrecorded
    <2> SUFFICES ASSUME IInv, NEW k \in Key, k \notin contended \union unrecorded
                 PROVE  ~(delivered[k] > 1)
      BY DEF TwiceOnlyIfUnrecorded
    <2>1. delivered[k] \in Nat /\ delivered[k] <= 1
      BY DEF IInv, Typed, Single
    <2>2. QED
      BY <2>1
  <1>2. QED
    BY <1>1, IInvHolds, PTL

\* SentMeansDelivered: a row is SENT only if the provider delivered the message,
\* and a message goes out only once the user's digest of that date is in the app.
THEOREM SentMeansDeliveredHolds == Spec => []SentMeansDelivered
  <1>1. IInv => SentMeansDelivered
    BY DEF IInv
  <1>2. QED
    BY <1>1, IInvHolds, PTL

-------------------------------------------------------------------------------
(* Nobody is sunk *)

Holds(seq, e) == \E j \in DOMAIN seq : seq[j] = e

OnList(r, e) == Holds(todo[r], e)

KeyFor(r, e) == <<e[1], runDate[r], e[2]>>

Marked(status, channel) ==
    status # "absent" /\ (channel \in Channel => status # "PENDING")

\* What has become of the entries of the worklist in a try: they are still to
\* do, of a user passed over, or dealt with.
Accounted(r) ==
    /\ pc[r] = "done" => todo[r] = << >>
    /\ pc[r] # "idle" => \A i \in DOMAIN Worklist :
           \/ OnList(r, Worklist[i])
           \/ Worklist[i][1] \in passed[r]
           \/ DealtWith(KeyFor(r, Worklist[i]))

SInv == IInv /\ passed \in [Run -> SUBSET User] /\ \A r \in Run : Accounted(r)

LEMMA WorklistKeys ==
    ASSUME Typed, NEW r \in Run, NEW i \in DOMAIN Worklist
    PROVE  Worklist[i] \in Entry /\ KeyFor(r, Worklist[i]) \in Key
  <1>1. Worklist[i] \in Entry
    BY DEF Entry
  <1>2. PICK u \in User, c \in Channel \union {InApp} : Worklist[i] = <<u, c>>
    BY <1>1 DEF Entry
  <1>3. KeyFor(r, Worklist[i]) = <<u, runDate[r], c>> /\ runDate[r] \in Date
    BY <1>2 DEF KeyFor, Typed
  <1>4. QED
    BY <1>1, <1>3 DEF Key

\* What is dealt with stays so: a row that is marked is not made again.
LEMMA DealtStays ==
    ASSUME IInv, NEW r \in Run, NEW k \in Key, DealtWith(k),
           Begin(r) \/ RunStep(r) \/ UserFails(r) \/ Crash(r)
    PROVE  DealtWith(k)'
  <1>1. CASE UNCHANGED rows
    BY <1>1 DEF DealtWith
  <1>2. ASSUME NEW status \in {"PENDING", "SENT", "FAILED"},
               rows' = [rows EXCEPT ![KeyOf(r)] = status],
               status = "PENDING" => rows[KeyOf(r)] = "absent"
        PROVE  DealtWith(k)'
    <2>1. rows'[k] = IF k = KeyOf(r) THEN status ELSE rows[k]
      BY <1>2 DEF IInv, Typed
    <2>2. QED
      BY <1>2, <2>1 DEF DealtWith
  <1>3. CASE CreateRow(r) \/ MarkSent(r) \/ MarkFailed(r)
    BY <1>2, <1>3 DEF CreateRow, MarkSent, MarkFailed
  <1>4. QED
    BY <1>1, <1>3 DEF Begin, RunStep, BuildDigest, FindRow, LoseCreate, Send, UserFails,
       Crash, history

\* A step of one run leaves the others' places and lists alone.
LEMMA RunAlone ==
    ASSUME SInv, NEW r \in Run, Begin(r) \/ RunStep(r) \/ UserFails(r) \/ Crash(r)
    PROVE  /\ OthersStay(r)
           /\ \A q \in Run \ {r} : passed'[q] = passed[q]
  <1>1. \A q \in Run \ {r} : pc'[q] = pc[q]
    BY DEF SInv, IInv, Typed, Begin, RunStep, BuildDigest, FindRow, CreateRow, LoseCreate,
       Send, MarkSent, MarkFailed, UserFails, Crash, Advance, SkipUser, Goto
  <1>2. \A q \in Run \ {r} : todo'[q] = todo[q]
    BY DEF SInv, IInv, Typed, Begin, RunStep, BuildDigest, FindRow, CreateRow, LoseCreate,
       Send, MarkSent, MarkFailed, UserFails, Crash, Advance, SkipUser
  <1>3. \A q \in Run \ {r} : runDate'[q] = runDate[q]
    BY DEF SInv, IInv, Typed, Begin, RunStep, BuildDigest, FindRow, CreateRow, LoseCreate,
       Send, MarkSent, MarkFailed, UserFails, Crash
  <1>4. \A q \in Run \ {r} : passed'[q] = passed[q]
    BY DEF SInv, Begin, RunStep, BuildDigest, FindRow, CreateRow, LoseCreate,
       Send, MarkSent, MarkFailed, UserFails, Crash, SkipUser, history
  <1>5. QED
    BY <1>1, <1>2, <1>3, <1>4 DEF OthersStay

\* The entry in hand is dealt with, the rest stays to do.
LEMMA AdvanceAccounts ==
    ASSUME SInv, NEW r \in Run, pc[r] \in Working, Advance(r), UNCHANGED <<runDate, passed>>,
           Marked(rows'[KeyOf(r)], KeyOf(r)[3]), \A k \in Key : DealtWith(k) => DealtWith(k)'
    PROVE  Accounted(r)'
  <1> DEFINE s == todo[r]
  <1>1. s \in Seq(Entry) /\ s # << >> /\ InHand(r) = s[1] /\ pc[r] # "idle"
    BY AtWork, HeadInHand DEF SInv, IInv, Typed, Working
  <1>2. todo'[r] = Tail(s) /\ pc'[r] = NextLabel(Tail(s), UserOf(r))
    BY DEF SInv, IInv, Typed, Advance, Goto
  <1>3. pc'[r] = "done" => todo'[r] = << >>
    BY <1>2 DEF NextLabel
  <1>4. ASSUME NEW e, OnList(r, e), e # s[1] PROVE OnList(r, e)'
    <2>1. PICK j \in DOMAIN s : s[j] = e
      BY <1>4 DEF OnList, Holds
    <2> HIDE DEF s
    <2>2. j # 1
      BY <1>4, <2>1
    <2>3. /\ DOMAIN s = 1..Len(s) /\ Len(s) \in Nat /\ DOMAIN Tail(s) = 1..(Len(s) - 1)
          /\ \A n \in 1..(Len(s) - 1) : Tail(s)[n] = s[n + 1]
      BY <1>1
    <2>4. j - 1 \in 1..(Len(s) - 1) /\ (j - 1) + 1 = j
      BY <2>1, <2>2, <2>3
    <2>5. j - 1 \in DOMAIN Tail(s) /\ Tail(s)[j - 1] = e
      BY <2>1, <2>3, <2>4
    <2>6. QED
      BY <1>2, <2>5 DEF OnList, Holds
  <1>5. KeyFor(r, s[1]) = KeyOf(r)
    BY <1>1 DEF KeyFor, KeyOf
  <1>6. \A i \in DOMAIN Worklist : KeyFor(r, Worklist[i])' = KeyFor(r, Worklist[i])
    BY DEF KeyFor
  <1> HIDE DEF s
  <1>7. ASSUME NEW i \in DOMAIN Worklist
        PROVE  \/ OnList(r, Worklist[i])'
               \/ Worklist[i][1] \in passed'[r]
               \/ DealtWith(KeyFor(r, Worklist[i]))'
    <2>1. KeyFor(r, Worklist[i]) \in Key
      BY WorklistKeys DEF SInv, IInv
    <2>2. CASE Worklist[i] = s[1]
      <3>1. KeyFor(r, Worklist[i]) = KeyOf(r) /\ KeyOf(r) \in Key
        BY <1>5, <2>1, <2>2
      <3>2. KeyFor(r, Worklist[i])' = KeyOf(r)
        BY <1>6, <3>1
      <3>3. QED
        BY <3>2 DEF DealtWith, Marked
    <2>3. CASE Worklist[i] # s[1]
      BY <1>1, <1>4, <1>6, <2>1, <2>3 DEF SInv, Accounted, DealtWith
    <2>4. QED
      BY <2>2, <2>3
  <1>8. QED
    BY <1>3, <1>7 DEF Accounted

LEMMA RestOf ==
    ASSUME NEW s \in Seq(Entry), NEW i \in DOMAIN s
    PROVE  /\ i \in 1..Len(s) /\ Len(s) \in Nat
           /\ SubSeq(s, i, Len(s)) \in Seq(Entry)
           /\ Len(SubSeq(s, i, Len(s))) = Len(s) - i + 1
           /\ \A n \in 1..Len(SubSeq(s, i, Len(s))) : SubSeq(s, i, Len(s))[n] = s[i + n - 1]
  OBVIOUS

\* What is left out is of the user in hand, who is passed over.
LEMMA SkipAccounts ==
    ASSUME SInv, NEW r \in Run, pc[r] \in Working, SkipUser(r), UNCHANGED runDate,
           \A k \in Key : DealtWith(k) => DealtWith(k)'
    PROVE  Accounted(r)' /\ passed' \in [Run -> SUBSET User]
  <1> DEFINE s == todo[r]
             u == UserOf(r)
  <1>1. s \in Seq(Entry) /\ s # << >> /\ u = s[1][1] /\ u \in User /\ pc[r] # "idle"
    <2>1. s \in Seq(Entry) /\ s # << >> /\ InHand(r) = s[1] /\ InHand(r) \in Entry
      BY AtWork, HeadInHand DEF SInv, IInv, Typed
    <2>2. InHand(r)[1] \in User
      BY <2>1 DEF Entry
    <2>3. QED
      BY <2>1, <2>2 DEF UserOf, Working
  <1>2. passed' \in [Run -> SUBSET User] /\ passed'[r] = passed[r] \union {u}
    <2>1. passed' = [passed EXCEPT ![r] = passed[r] \union {u}]
      BY DEF SkipUser
    <2> HIDE DEF u
    <2>2. QED
      BY <1>1, <2>1 DEF SInv
  <1>3. /\ pc'[r] = "done" => todo'[r] = << >>
        /\ \A j \in DOMAIN s : s[j][1] = u \/ Holds(todo'[r], s[j])
    <2>1. CASE /\ \A i \in DOMAIN s : s[i][1] = u
               /\ todo' = [todo EXCEPT ![r] = << >>]
      BY <2>1 DEF SInv, IInv, Typed
    <2>2. ASSUME NEW i \in DOMAIN s, \A j \in 1..(i - 1) : s[j][1] = u,
                 todo' = [todo EXCEPT ![r] = SubSeq(s, i, Len(s))], Goto(r, "user")
          PROVE  /\ pc'[r] # "done"
                 /\ \A j \in DOMAIN s : s[j][1] = u \/ Holds(todo'[r], s[j])
      <3>1. pc'[r] = "user" /\ todo'[r] = SubSeq(s, i, Len(s))
        BY <2>2 DEF SInv, IInv, Typed, Goto
      <3> HIDE DEF s, u
      <3>2. ASSUME NEW j \in DOMAIN s, s[j][1] # u PROVE Holds(todo'[r], s[j])
        <4>1. j \in i..Len(s) /\ i \in 1..Len(s) /\ Len(s) \in Nat
          BY <1>1, <2>2, <3>2
        <4> DEFINE rest == SubSeq(s, i, Len(s))
        <4>2. /\ rest \in Seq(Entry) /\ Len(rest) = Len(s) - i + 1
              /\ \A n \in 1..Len(rest) : rest[n] = s[i + n - 1]
          BY <1>1, RestOf
        <4> HIDE DEF rest
        <4>3. j - i + 1 \in 1..(Len(s) - i + 1) /\ i + (j - i + 1) - 1 = j
          BY <4>1
        <4>4. j - i + 1 \in DOMAIN rest /\ rest[j - i + 1] = s[j]
          BY <4>2, <4>3
        <4>5. todo'[r] = rest
          BY <3>1 DEF rest, s
        <4>6. QED
          BY <4>4, <4>5 DEF Holds
      <3>3. QED
        BY <3>1, <3>2
    <2>3. QED
      BY <2>1, <2>2 DEF SkipUser
  <1> HIDE DEF s, u
  <1>4. ASSUME NEW i \in DOMAIN Worklist
        PROVE  \/ OnList(r, Worklist[i])'
               \/ Worklist[i][1] \in passed'[r]
               \/ DealtWith(KeyFor(r, Worklist[i]))'
    <2>1. KeyFor(r, Worklist[i]) \in Key /\ KeyFor(r, Worklist[i])' = KeyFor(r, Worklist[i])
      BY WorklistKeys DEF SInv, IInv, KeyFor
    <2>2. CASE OnList(r, Worklist[i])
      <3>1. PICK j \in DOMAIN s : s[j] = Worklist[i]
        BY <2>2 DEF OnList, Holds, s
      <3>2. s[j][1] = u \/ OnList(r, Worklist[i])'
        BY <1>3, <3>1 DEF OnList
      <3>3. QED
        BY <1>2, <3>1, <3>2
    <2>3. CASE DealtWith(KeyFor(r, Worklist[i]))
      BY <2>1, <2>3 DEF DealtWith
    <2>4. QED
      BY <1>1, <1>2, <2>2, <2>3 DEF SInv, Accounted
  <1>5. QED
    BY <1>2, <1>3, <1>4 DEF Accounted

\* A run that goes on with the same entry, or breaks off.
LEMMA StayAccounts ==
    ASSUME SInv, NEW r \in Run, UNCHANGED <<todo, runDate, passed>>, pc[r] # "idle",
           pc'[r] # "done", \A k \in Key : DealtWith(k) => DealtWith(k)'
    PROVE  Accounted(r)'
  <1> SUFFICES ASSUME NEW i \in DOMAIN Worklist
               PROVE  \/ OnList(r, Worklist[i])'
                      \/ Worklist[i][1] \in passed'[r]
                      \/ DealtWith(KeyFor(r, Worklist[i]))'
    BY DEF Accounted
  <1>1. KeyFor(r, Worklist[i]) \in Key /\ KeyFor(r, Worklist[i])' = KeyFor(r, Worklist[i])
    BY WorklistKeys DEF SInv, IInv, KeyFor
  <1>2. OnList(r, Worklist[i]) => OnList(r, Worklist[i])'
    BY DEF OnList
  <1>3. QED
    BY <1>1, <1>2 DEF SInv, Accounted, DealtWith

\* The other runs' accounts stand.
LEMMA OthersAccounted ==
    ASSUME SInv, NEW r \in Run, OthersStay(r), IInv', Accounted(r)',
           passed' \in [Run -> SUBSET User],
           \A q \in Run \ {r} : passed'[q] = passed[q],
           \A k \in Key : DealtWith(k) => DealtWith(k)'
    PROVE  SInv'
  <1> SUFFICES ASSUME NEW q \in Run \ {r} PROVE Accounted(q)'
    BY DEF SInv
  <1>1. pc'[q] = pc[q] /\ todo'[q] = todo[q] /\ runDate'[q] = runDate[q]
    BY DEF OthersStay
  <1>2. \A e : OnList(q, e) <=> Holds(todo'[q], e)
    BY <1>1 DEF OnList
  <1>3. ASSUME NEW i \in DOMAIN Worklist, pc[q] # "idle"
        PROVE  \/ OnList(q, Worklist[i])'
               \/ Worklist[i][1] \in passed'[q]
               \/ DealtWith(KeyFor(q, Worklist[i]))'
    <2>1. KeyFor(q, Worklist[i]) \in Key /\ KeyFor(q, Worklist[i])' = KeyFor(q, Worklist[i])
      BY <1>1, WorklistKeys DEF SInv, IInv, KeyFor
    <2>2. DealtWith(KeyFor(q, Worklist[i])) => DealtWith(KeyFor(q, Worklist[i]))'
      BY <2>1 DEF DealtWith
    <2>3. OnList(q, Worklist[i]) => OnList(q, Worklist[i])'
      BY <1>2 DEF OnList
    <2>4. QED
      BY <1>3, <2>2, <2>3 DEF SInv, Accounted
  <1>4. pc'[q] = "done" => todo'[q] = << >>
    BY <1>1 DEF SInv, Accounted
  <1>5. QED
    BY <1>1, <1>3, <1>4 DEF Accounted

LEMMA BeginAccounts ==
    ASSUME SInv, NEW r \in Run, Begin(r)
    PROVE  Accounted(r)' /\ passed' \in [Run -> SUBSET User]
  <1>1. passed' = [passed EXCEPT ![r] = {}] /\ todo'[r] = Worklist
    BY DEF SInv, IInv, Typed, Begin
  <1>2. pc'[r] = "done" => Worklist = << >>
    BY DEF SInv, IInv, Typed, Begin, Goto
  <1>3. \A i \in DOMAIN Worklist : OnList(r, Worklist[i])'
    BY <1>1 DEF OnList, Holds
  <1>4. QED
    BY <1>1, <1>2, <1>3 DEF SInv, Accounted

LEMMA RunStepAccounts ==
    ASSUME SInv, NEW r \in Run, RunStep(r), \A k \in Key : DealtWith(k) => DealtWith(k)'
    PROVE  Accounted(r)' /\ passed' \in [Run -> SUBSET User]
  <1>1. pc[r] \in Working /\ UNCHANGED runDate
    BY DEF RunStep, BuildDigest, FindRow, CreateRow, LoseCreate, Send, MarkSent, MarkFailed,
       Working, Label
  <1>2. KeyOf(r)[3] = InHand(r)[2]
    BY <1>1, AtWork DEF SInv
  <1>3. ASSUME Advance(r), UNCHANGED passed, Marked(rows'[KeyOf(r)], KeyOf(r)[3])
        PROVE  Accounted(r)' /\ passed' \in [Run -> SUBSET User]
    BY <1>1, <1>3, AdvanceAccounts DEF SInv
  <1>4. ASSUME NEW label \in Working, Goto(r, label), UNCHANGED <<todo, passed>>
        PROVE  Accounted(r)' /\ passed' \in [Run -> SUBSET User]
    <2>1. pc'[r] # "done" /\ pc[r] # "idle"
      BY <1>1, <1>4 DEF SInv, IInv, Typed, Goto, Working
    <2>2. QED
      BY <1>1, <1>4, <2>1, StayAccounts DEF SInv
  <1>5. CASE BuildDigest(r)
    <2>1. CASE SkipUser(r)
      BY <1>1, <2>1, SkipAccounts
    <2>2. CASE Goto(r, "find") /\ UNCHANGED <<todo, passed>>
      BY <1>4, <2>2 DEF Working, Label
    <2>3. QED
      BY <1>5, <2>1, <2>2 DEF BuildDigest
  <1>6. CASE FindRow(r)
    <2>1. CASE Goto(r, "create") /\ UNCHANGED <<todo, passed>>
      BY <1>4, <2>1 DEF Working, Label
    <2>2. CASE Goto(r, "send") /\ UNCHANGED <<todo, passed>>
      BY <1>4, <2>2 DEF Working, Label
    <2>3. CASE /\ rows[KeyOf(r)] # "absent" /\ UNCHANGED <<rows, passed>> /\ Advance(r)
               /\ rows[KeyOf(r)] = "SENT" \/ InHand(r)[2] = InApp
      BY <1>2, <1>3, <2>3 DEF Marked
    <2>4. QED
      BY <1>6, <2>1, <2>2, <2>3 DEF FindRow
  <1>7. CASE CreateRow(r)
    <2>1. CASE Goto(r, "send") /\ UNCHANGED <<todo, passed>>
      BY <1>4, <2>1 DEF Working, Label
    <2>2. CASE InHand(r)[2] = InApp /\ Advance(r) /\ UNCHANGED passed
      <3>1. rows'[KeyOf(r)] = "PENDING"
        BY <1>1, <1>7, AtWork DEF SInv, IInv, Typed, CreateRow
      <3>2. QED
        BY <1>2, <1>3, <2>2, <3>1 DEF Marked
    <2>3. QED
      BY <1>7, <2>1, <2>2 DEF CreateRow, history
  <1>8. CASE LoseCreate(r)
    BY <1>4, <1>8 DEF LoseCreate, history, Working, Label
  <1>9. CASE Send(r)
    BY <1>4, <1>9 DEF Send, Working, Label
  <1>10. CASE MarkSent(r) \/ MarkFailed(r)
    <2>1. rows'[KeyOf(r)] \in {"SENT", "FAILED"}
      BY <1>1, <1>10, AtWork DEF SInv, IInv, Typed, MarkSent, MarkFailed
    <2>2. QED
      BY <1>3, <1>10, <2>1 DEF Marked, MarkSent, MarkFailed, history
  <1>11. QED
    BY <1>5, <1>6, <1>7, <1>8, <1>9, <1>10 DEF RunStep

LEMMA GiveUpAccounts ==
    ASSUME SInv, NEW r \in Run, UserFails(r) \/ Crash(r),
           \A k \in Key : DealtWith(k) => DealtWith(k)'
    PROVE  Accounted(r)' /\ passed' \in [Run -> SUBSET User]
  <1>1. CASE UserFails(r)
    BY <1>1, SkipAccounts DEF UserFails, Working, Label
  <1>2. CASE Crash(r)
    BY <1>2 DEF Crash, Goto, SInv, IInv, Typed, Accounted
  <1>3. QED
    BY <1>1, <1>2

LEMMA SInvHolds == Spec => []SInv
  <1>1. Init => SInv
    <2> SUFFICES ASSUME Init PROVE SInv
      OBVIOUS
    <2>1. IInv
      BY InitEstablishes
    <2>2. QED
      BY <2>1 DEF Init, SInv, Accounted
  <1>2. SInv /\ [Next]_vars => SInv'
    <2> SUFFICES ASSUME SInv, [Next]_vars PROVE SInv'
      OBVIOUS
    <2>1. IInv'
      BY StepKeeps DEF SInv
    <2>2. ASSUME NEW r \in Run, Begin(r) \/ RunStep(r) \/ UserFails(r) \/ Crash(r)
          PROVE  SInv'
      <3>1. \A k \in Key : DealtWith(k) => DealtWith(k)'
        BY <2>2, DealtStays DEF SInv
      <3>2. Accounted(r)' /\ passed' \in [Run -> SUBSET User]
        BY <2>2, <3>1, BeginAccounts, RunStepAccounts, GiveUpAccounts
      <3>3. QED
        BY <2>1, <2>2, <3>1, <3>2, RunAlone, OthersAccounted
    <2>3. CASE UNCHANGED <<rows, pc, todo, runDate, passed>>
      BY <2>1, <2>3 DEF SInv, Accounted, OnList, Holds, KeyFor, DealtWith
    <2>4. QED
      BY <2>2, <2>3 DEF Next, Midnight, history, vars
  <1>3. QED
    BY <1>1, <1>2, PTL DEF Spec

\* NobodySunk: a run that has come to its end has dealt with every channel of
\* every user it did not pass over, for any worklist, failures and overlapping
\* runs (tasks.py:125-132).
THEOREM NobodySunkHolds == Spec => []NobodySunk
  <1>1. SInv => NobodySunk
    <2> SUFFICES ASSUME SInv, NEW r \in Run, pc[r] = "done", NEW i \in DOMAIN Worklist
                 PROVE  \/ Worklist[i][1] \in passed[r]
                        \/ DealtWith(<<Worklist[i][1], runDate[r], Worklist[i][2]>>)
      BY DEF NobodySunk
    <2>1. ~OnList(r, Worklist[i])
      BY DEF SInv, Accounted, OnList, Holds
    <2>2. QED
      BY <2>1 DEF SInv, Accounted, KeyFor
  <1>2. QED
    BY <1>1, SInvHolds, PTL
===============================================================================
