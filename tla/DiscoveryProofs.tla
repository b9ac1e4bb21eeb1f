---------------------------- MODULE DiscoveryProofs ----------------------------
(*****************************************************************************)
(* Theorems about Discovery, for any number of overlapping searches, any     *)
(* registry, any requests and whatever the sources answer.  What a search    *)
(* does to the catalogue is a step of Deduplication, so its invariant, the   *)
(* counters included, is taken over from DeduplicationProofs.                *)
(*****************************************************************************)
EXTENDS Discovery, FiniteSetTheorems, SequenceTheorems, TLAPS

-------------------------------------------------------------------------------
(* Sums and concatenations *)

\* Induction over the naturals, for a set.
LEMMA SetInduction ==
  ASSUME NEW S, 0 \in S, \A n \in Nat : n \in S => n + 1 \in S
  PROVE  Nat \subseteq S
  <1> DEFINE T == Nat \ S
             R == {p \in Nat \X Nat : p[1] < p[2]}
  <1>1. SUFFICES ASSUME T # {} PROVE FALSE
    OBVIOUS
  <1>2. PICK m \in T : \A y \in T : ~(<<y, m>> \in R)
    <2>1. IsWellFoundedOn(R, Nat)
      BY NatLessThanWellFounded DEF OpToRel
    <2>2. T \subseteq Nat
      OBVIOUS
    <2> HIDE DEF R, T
    <2>3. QED
      BY <2>1, <2>2, <1>1, WFMin
  <1>3. m \in Nat /\ m # 0 /\ m - 1 \in Nat /\ m - 1 < m
    OBVIOUS
  <1>4. m - 1 \notin T
    BY <1>2, <1>3
  <1>5. QED
    BY <1>3, <1>4

\* The partial concatenations that FlattenSeq computes.
LEMMA FlattenStep ==
    ASSUME NEW seqs, NEW T, seqs \in Seq(Seq(T))
    PROVE  \E g : g = [n \in 1 .. Len(seqs) |-> IF n = 1 THEN seqs[n] ELSE g[n - 1] \o seqs[n]]
  <1> DEFINE Rec(g, m) == g = [n \in 1 .. m |-> IF n = 1 THEN seqs[n] ELSE g[n - 1] \o seqs[n]]
             S == {m \in Nat : \E g : Rec(g, m)}
  <1>1. 0 \in S
    <2>1. Rec([n \in 1 .. 0 |-> n], 0)
      OBVIOUS
    <2>2. QED
      BY <2>1
  <1>2. ASSUME NEW m \in Nat, m \in S PROVE m + 1 \in S
    <2>1. PICK g : Rec(g, m)
      BY <1>2
    <2> DEFINE new == IF m = 0 THEN seqs[1] ELSE g[m] \o seqs[m + 1]
               h == [n \in 1 .. (m + 1) |-> IF n = m + 1 THEN new ELSE g[n]]
    <2>2. \A n \in 1 .. m : h[n] = g[n]
      OBVIOUS
    <2>3. ASSUME NEW n \in 1 .. (m + 1)
          PROVE  h[n] = IF n = 1 THEN seqs[n] ELSE h[n - 1] \o seqs[n]
      <3>1. CASE n = m + 1
        BY <3>1
      <3>2. CASE n # m + 1
        <4>1. n \in 1 .. m /\ (n # 1 => n - 1 \in 1 .. m)
          BY <3>2
        <4>2. g[n] = IF n = 1 THEN seqs[n] ELSE g[n - 1] \o seqs[n]
          BY <2>1, <4>1
        <4>3. QED
          BY <2>2, <4>1, <4>2
      <3>3. QED
        BY <3>1, <3>2
    <2> HIDE DEF new
    <2>4. Rec(h, m + 1)
      BY <2>3
    <2> HIDE DEF h, Rec
    <2>5. QED
      BY <2>4
  <1>3. Nat \subseteq S
    <2> HIDE DEF S
    <2>1. QED
      BY <1>1, <1>2, SetInduction
  <1>4. QED
    BY <1>3, LenProperties

\* FlattenSeq of sequences over T is a sequence over T.
LEMMA FlattenType ==
    ASSUME NEW T, NEW seqs \in Seq(Seq(T))
    PROVE  FlattenSeq(seqs) \in Seq(T)
  <1>1. CASE Len(seqs) = 0
    <2>1. seqs = << >>
      BY <1>1, EmptySeq
    <2>2. QED
      BY <1>1, <2>1, EmptySeq DEF FlattenSeq
  <1>2. CASE Len(seqs) # 0
    <2> DEFINE L == Len(seqs)
               f == CHOOSE g : g = [n \in 1 .. L |-> IF n = 1 THEN seqs[n] ELSE g[n - 1] \o seqs[n]]
    <2>1. f = [n \in 1 .. L |-> IF n = 1 THEN seqs[n] ELSE f[n - 1] \o seqs[n]]
      BY FlattenStep
    <2>2. FlattenSeq(seqs) = f[L]
      BY <1>2 DEF FlattenSeq
    <2> HIDE DEF f
    <2> DEFINE S == {m \in Nat : m \in 1 .. L => f[m] \in Seq(T)}
    <2>3. 0 \in S
      OBVIOUS
    <2>4. ASSUME NEW m \in Nat, m \in S PROVE m + 1 \in S
      <3> SUFFICES ASSUME m + 1 \in 1 .. L PROVE f[m + 1] \in Seq(T)
        OBVIOUS
      <3>1. seqs[m + 1] \in Seq(T)
        BY ElementOfSeq
      <3>2. CASE m = 0
        BY <3>1, <3>2, <2>1
      <3>3. CASE m # 0
        <4>1. m \in 1 .. L /\ f[m] \in Seq(T)
          BY <2>4, <3>3, LenProperties
        <4>2. f[m + 1] = f[m] \o seqs[m + 1]
          <5>1. \A n \in 1 .. L : f[n] = IF n = 1 THEN seqs[n] ELSE f[n - 1] \o seqs[n]
            BY <2>1
          <5>2. m + 1 \in 1 .. L /\ m + 1 # 1 /\ (m + 1) - 1 = m
            BY <3>3
          <5>3. QED
            BY <5>1, <5>2
        <4>3. QED
          BY <3>1, <4>1, <4>2, ConcatProperties
      <3>4. QED
        BY <3>2, <3>3
    <2>5. L \in S
      <3>1. L \in Nat
        BY LenProperties
      <3> HIDE DEF S, L
      <3>2. QED
        BY <2>3, <2>4, <3>1, SetInduction
    <2>6. QED
      BY <2>2, <2>5, <1>2, LenProperties
  <1>3. QED
    BY <1>1, <1>2

\* The partial sums that SumFunction computes.
First(s) == CHOOSE x \in s : TRUE

SumsOf(f, S, g) ==
    g = [s \in SUBSET S |-> IF s = {} THEN 0 ELSE f[First(s)] + g[s \ {First(s)}]]

\* They exist for every finite set of indices.
LEMMA SumStep ==
    ASSUME NEW S, IsFiniteSet(S), NEW f
    PROVE  \E g : SumsOf(f, S, g)
  <1> DEFINE Body(g, s) == IF s = {} THEN 0 ELSE f[First(s)] + g[s \ {First(s)}]
             Upto(m) == {s \in SUBSET S : Cardinality(s) <= m}
             N == {m \in Nat : \E g : g = [s \in Upto(m) |-> Body(g, s)]}
  <1>1. ASSUME NEW s \in SUBSET S
        PROVE  /\ Cardinality(s) \in Nat /\ (Cardinality(s) = 0 <=> s = {})
               /\ s # {} => /\ First(s) \in s /\ s \ {First(s)} \in SUBSET S
                            /\ Cardinality(s \ {First(s)}) = Cardinality(s) - 1
    <2>1. IsFiniteSet(s)
      BY FS_Subset
    <2>2. QED
      BY <2>1, FS_CardinalityType, FS_EmptySet, FS_RemoveElement DEF First
  <1>2. 0 \in N
    <2>1. [s \in Upto(0) |-> 0] = [s \in Upto(0) |-> Body([t \in Upto(0) |-> 0], s)]
      <3>1. ASSUME NEW s \in Upto(0) PROVE s = {}
        <4>1. s \in SUBSET S /\ Cardinality(s) <= 0
          OBVIOUS
        <4>2. Cardinality(s) \in Nat /\ (Cardinality(s) = 0 <=> s = {})
          BY <1>1, <4>1
        <4>3. QED
          BY <4>1, <4>2
      <3>2. QED
        BY <3>1
    <2>2. QED
      BY <2>1
  <1>3. ASSUME NEW m \in Nat, m \in N PROVE m + 1 \in N
    <2>1. PICK g : g = [s \in Upto(m) |-> Body(g, s)]
      BY <1>3
    <2> DEFINE h == [s \in Upto(m + 1) |-> Body(g, s)]
    <2>2. ASSUME NEW s \in Upto(m) PROVE s \in Upto(m + 1) /\ h[s] = g[s]
      <3>1. s \in Upto(m + 1)
        <4>1. s \in SUBSET S /\ Cardinality(s) <= m
          OBVIOUS
        <4>2. Cardinality(s) \in Nat
          BY <1>1, <4>1
        <4>3. QED
          BY <4>1, <4>2
      <3>2. g[s] = Body(g, s)
        BY <2>1
      <3>3. QED
        BY <3>1, <3>2
    <2>3. ASSUME NEW s \in Upto(m + 1) PROVE h[s] = Body(h, s)
      <3>1. CASE s = {}
        BY <3>1
      <3>2. CASE s # {}
        <4>1. s \ {First(s)} \in Upto(m)
          BY <1>1, <3>2
        <4>2. h[s \ {First(s)}] = g[s \ {First(s)}]
          BY <2>2, <4>1
        <4>3. QED
          BY <4>2
      <3>3. QED
        BY <3>1, <3>2
    <2>4. h = [s \in Upto(m + 1) |-> Body(h, s)]
      <3>1. h = [s \in Upto(m + 1) |-> h[s]]
        OBVIOUS
      <3> HIDE DEF h, Body
      <3>2. QED
        BY <2>3, <3>1
    <2> HIDE DEF h, Body, Upto
    <2>5. QED
      BY <2>4
  <1>4. Cardinality(S) \in N
    <2>1. Cardinality(S) \in Nat
      BY FS_CardinalityType
    <2> HIDE DEF N
    <2>2. QED
      BY <1>2, <1>3, <2>1, SetInduction
  <1>5. Upto(Cardinality(S)) = SUBSET S
    BY <1>1, FS_Subset
  <1>6. PICK g : g = [s \in SUBSET S |-> Body(g, s)]
    BY <1>4, <1>5
  <1>7. QED
    BY <1>6 DEF SumsOf

\* SumFunction is the last of them.
LEMMA SumIs ==
    ASSUME NEW S, IsFiniteSet(S), NEW f, DOMAIN f = S
    PROVE  \E g : SumFunction(f) = g[S] /\ SumsOf(f, S, g)
  <1> DEFINE g == CHOOSE h : SumsOf(f, S, h)
  <1>1. SumsOf(f, S, g)
    BY SumStep
  <1>2. SumFunction(f) = g[S]
    BY DEF SumFunction, SumFunctionOnSet, FoldFunctionOnSet, MapThenFoldSet, SumsOf, First
  <1>3. QED
    BY <1>1, <1>2

\* A sum of naturals is bounded by the number of elements of disjoint sets that
\* have at least as many each.
LEMMA SumWithin ==
    ASSUME NEW S, IsFiniteSet(S), NEW f \in [S -> Nat], NEW A,
           \A x \in S : IsFiniteSet(A[x]) /\ f[x] <= Cardinality(A[x]),
           \A x, y \in S : x # y => A[x] \intersect A[y] = {}
    PROVE  SumFunction(f) <= Cardinality(UNION {A[x] : x \in S})
  <1> DEFINE Of(s) == UNION {A[x] : x \in s}
  <1>0. PICK g : SumFunction(f) = g[S] /\ SumsOf(f, S, g)
    BY SumIs
  <1>1. \A s \in SUBSET S : g[s] = IF s = {} THEN 0 ELSE f[First(s)] + g[s \ {First(s)}]
    BY <1>0 DEF SumsOf
  <1>2. \A s : s # {} => First(s) \in s
    BY DEF First
  <1> DEFINE Good(s) == /\ g[s] \in Nat /\ IsFiniteSet(Of(s))
                        /\ g[s] <= Cardinality(Of(s))
             N == {n \in Nat : \A s \in SUBSET S : Cardinality(s) = n => Good(s)}
  <1>3. ASSUME NEW s \in SUBSET S
        PROVE  /\ IsFiniteSet(s) /\ Cardinality(s) \in Nat /\ (Cardinality(s) = 0 <=> s = {})
    BY FS_Subset, FS_CardinalityType, FS_EmptySet
  <1>4. 0 \in N
    <2> SUFFICES ASSUME NEW s \in SUBSET S, Cardinality(s) = 0 PROVE Good(s)
      OBVIOUS
    <2>1. s = {}
      BY <1>3
    <2>2. Of(s) = {} /\ g[s] = 0
      BY <1>1, <2>1
    <2>3. QED
      BY <2>2, FS_EmptySet
  <1>5. ASSUME NEW n \in Nat, n \in N PROVE n + 1 \in N
    <2> SUFFICES ASSUME NEW s \in SUBSET S, Cardinality(s) = n + 1 PROVE Good(s)
      OBVIOUS
    <2> DEFINE x == First(s)
               t == s \ {x}
    <2>1. IsFiniteSet(s) /\ s # {}
      BY <1>3
    <2>2. x \in s /\ x \in S /\ t \in SUBSET S
      BY <1>2, <2>1
    <2>3. g[s] = f[x] + g[t]
      BY <1>1, <2>1
    <2> HIDE DEF x
    <2>4. Cardinality(t) = n
      <3>1. Cardinality(s \ {x}) = Cardinality(s) - 1
        BY <2>1, <2>2, FS_RemoveElement
      <3>2. QED
        BY <3>1
    <2> HIDE DEF t, Good
    <2>5. Good(t)
      BY <1>5, <2>2, <2>4
    <2> USE DEF Good
    <2>6. Of(s) = A[x] \union Of(t)
      BY <2>2 DEF t
    <2>7. A[x] \intersect Of(t) = {}
      BY <2>2 DEF t
    <2> HIDE DEF Of
    <2>8. IsFiniteSet(A[x]) /\ f[x] <= Cardinality(A[x]) /\ f[x] \in Nat
      BY <2>2
    <2>9. /\ IsFiniteSet(A[x] \union Of(t))
          /\ Cardinality(A[x] \union Of(t)) =
               Cardinality(A[x]) + Cardinality(Of(t)) - Cardinality(A[x] \intersect Of(t))
      BY <2>5, <2>8, FS_Union
    <2>10. /\ Cardinality(A[x]) \in Nat /\ Cardinality(Of(t)) \in Nat
           /\ Cardinality(A[x] \intersect Of(t)) = 0
      BY <2>5, <2>7, <2>8, FS_CardinalityType, FS_EmptySet
    <2>11. QED
      BY <2>3, <2>5, <2>6, <2>8, <2>9, <2>10
  <1>6. Good(S)
    <2>1. Cardinality(S) \in N
      <3>1. Cardinality(S) \in Nat
        BY FS_CardinalityType
      <3> HIDE DEF N
      <3>2. QED
        BY <1>4, <1>5, <3>1, SetInduction
    <2>2. QED
      BY <2>1
  <1>7. QED
    BY <1>0, <1>6

-------------------------------------------------------------------------------
(* The steps of Deduplication that Discovery takes are those of DP *)

DP == INSTANCE DeduplicationProofs WITH Batches <- Seq(Offer), Unreliable <- Run

\* persist_batch is the same in both.
LEMMA SamePersist ==
    ASSUME NEW r \in Run, Dedup!PersistStep(r)
    PROVE  DP!PersistStep(r)
  <1>1. Dedup!SkipUnknownSource(r) => DP!SkipUnknownSource(r)
    BY DEF Dedup!SkipUnknownSource, DP!SkipUnknownSource, Dedup!Current,
           DP!Current, Dedup!Placed, DP!Placed, Dedup!Goto, DP!Goto,
           Dedup!NoMatch, DP!NoMatch
  <1>2. Dedup!ResolveCompany(r) => DP!ResolveCompany(r)
    BY DEF Dedup!ResolveCompany, DP!ResolveCompany, Dedup!Current, DP!Current,
           Dedup!Goto, DP!Goto
  <1>3. Dedup!FillCompany(r) => DP!FillCompany(r)
    BY DEF Dedup!FillCompany, DP!FillCompany, Dedup!Current, DP!Current,
           Dedup!Goto, DP!Goto
  <1>4. Dedup!FindListing(r) => DP!FindListing(r)
    BY DEF Dedup!FindListing, DP!FindListing, Dedup!Current, DP!Current,
           Dedup!ListingsOf, DP!ListingsOf, Dedup!Goto, DP!Goto
  <1>5. Dedup!RefreshListing(r) => DP!RefreshListing(r)
    BY DEF Dedup!RefreshListing, DP!RefreshListing, Dedup!Current, DP!Current,
           Dedup!Placed, DP!Placed, Dedup!Goto, DP!Goto, Dedup!CountDuplicate,
           DP!CountDuplicate, Dedup!NoMatch, DP!NoMatch
  <1>6. Dedup!FindByContentHash(r) => DP!FindByContentHash(r)
    BY DEF Dedup!FindByContentHash, DP!FindByContentHash, Dedup!Current,
           DP!Current, Dedup!Lookup, DP!Lookup, Dedup!Goto, DP!Goto,
           Dedup!IsOldest, DP!IsOldest, Dedup!JobsWithHash, DP!JobsWithHash
  <1>7. Dedup!FindByCanonicalUrl(r) => DP!FindByCanonicalUrl(r)
    BY DEF Dedup!FindByCanonicalUrl, DP!FindByCanonicalUrl, Dedup!Current,
           DP!Current, Dedup!Lookup, DP!Lookup, Dedup!Goto, DP!Goto,
           Dedup!IsOldest, DP!IsOldest, Dedup!JobsWithUrl, DP!JobsWithUrl
  <1>8. Dedup!DetectDuplicate(r) => DP!DetectDuplicate(r)
    BY DEF Dedup!DetectDuplicate, DP!DetectDuplicate, Dedup!Current, DP!Current,
           Dedup!Goto, DP!Goto, Dedup!Detected, DP!Detected, Dedup!Candidates,
           DP!Candidates, Dedup!Decide, DP!Decide, Dedup!Best, DP!Best,
           Dedup!Beats, DP!Beats, Dedup!Eligible, DP!Eligible,
           Dedup!PassesTitleGate, DP!PassesTitleGate, Dedup!Score, DP!Score,
           Dedup!Band, DP!Band, Dedup!Reaches, DP!Reaches, Dedup!TotalWeight,
           DP!TotalWeight, Dedup!NoMatch, DP!NoMatch, Dedup!Cardinality,
           DP!Cardinality
  <1>9. Dedup!AttachListing(r) => DP!AttachListing(r)
    BY DEF Dedup!AttachListing, DP!AttachListing, Dedup!Current, DP!Current,
           Dedup!Placed, DP!Placed, Dedup!Goto, DP!Goto, Dedup!CountDuplicate,
           DP!CountDuplicate, Dedup!ListingsOf, DP!ListingsOf, Dedup!NewListing,
           DP!NewListing, Dedup!NoMatch, DP!NoMatch
  <1>10. Dedup!FindIdlessListing(r) => DP!FindIdlessListing(r)
    BY DEF Dedup!FindIdlessListing, DP!FindIdlessListing, Dedup!Current,
           DP!Current, Dedup!Placed, DP!Placed, Dedup!Goto, DP!Goto,
           Dedup!CountDuplicate, DP!CountDuplicate, Dedup!SameIdlessListing,
           DP!SameIdlessListing, Dedup!NoMatch, DP!NoMatch
  <1>11. Dedup!AppendIdlessListing(r) => DP!AppendIdlessListing(r)
    BY DEF Dedup!AppendIdlessListing, DP!AppendIdlessListing, Dedup!Current,
           DP!Current, Dedup!Placed, DP!Placed, Dedup!Goto, DP!Goto,
           Dedup!CountDuplicate, DP!CountDuplicate, Dedup!NewListing,
           DP!NewListing, Dedup!NoMatch, DP!NoMatch
  <1>12. Dedup!CreateJob(r) => DP!CreateJob(r)
    BY DEF Dedup!CreateJob, DP!CreateJob, Dedup!Current, DP!Current,
           Dedup!Placed, DP!Placed, Dedup!Goto, DP!Goto, Dedup!ListingsOf,
           DP!ListingsOf, Dedup!NewListing, DP!NewListing, Dedup!NoMatch,
           DP!NoMatch
  <1>13. Dedup!LoseRace(r) => DP!LoseRace(r)
    BY DEF Dedup!LoseRace, DP!LoseRace, Dedup!Current, DP!Current, Dedup!Placed,
           DP!Placed, Dedup!Goto, DP!Goto, Dedup!CountDuplicate,
           DP!CountDuplicate, Dedup!ListingsOf, DP!ListingsOf, Dedup!NoMatch,
           DP!NoMatch
  <1>14. Dedup!ReturnBatch(r) => DP!ReturnBatch(r)
    BY DEF Dedup!ReturnBatch, DP!ReturnBatch, Dedup!Goto, DP!Goto
  <1>15. QED
    BY <1>1, <1>2, <1>3, <1>4, <1>5, <1>6, <1>7, <1>8, <1>9, <1>10, <1>11,
       <1>12, <1>13, <1>14 DEF Dedup!PersistStep, DP!PersistStep

\* So are its start and its abandonment.
LEMMA SameEnds ==
    ASSUME NEW r \in Run
    PROVE  /\ \A b : Dedup!StartBatch(r, b) => DP!StartBatch(r, b)
           /\ Dedup!AbortBatch(r) => DP!AbortBatch(r)
  BY DEF Dedup!StartBatch, DP!StartBatch, Dedup!AbortBatch, DP!AbortBatch, Dedup!Goto,
         DP!Goto, Dedup!Busy, DP!Busy

\* And the empty catalogue.
LEMMA SameInit == Dedup!Init => DP!Init
  BY DEF Dedup!Init, DP!Init, Dedup!NoMatch, DP!NoMatch

\* What is assumed of the postings is what Deduplication assumes.
LEMMA SameAssumption == DP!OfferAssumption
  BY RequestAssumption DEF DP!OfferAssumption

-------------------------------------------------------------------------------
(* The inductive invariant *)

Phase == {"idle", "refused", "fetching", "persisting", "finished", "raised",
          "failed", "stopped"}
Outcome == [state : {"pending", "error", "ok"}, jobs : Seq(Offer)]
Plan == [names : Seq(Source), runnable : SUBSET ToSet(Registered), rejected : SUBSET Source]

SearchTyped ==
    /\ phase \in [Run -> Phase]
    /\ plan \in [Run -> Plan]
    /\ fetched \in [Run -> [Source -> Outcome]]
    /\ DOMAIN row = Run

\* The row while the search is at work, as finish leaves it, and as the error
\* path of run_search does.
RunningRow(r) == [NoRow EXCEPT !.status = "RUNNING", !.attempted = Attempted(r)]
ClosedRow(r) == [Closing(r) EXCEPT !.attempted = Attempted(r)]
FailedRow(r) == [NoRow EXCEPT !.status = "FAILED", !.attempted = Attempted(r),
                              !.failed = Attempted(r)]

\* finish has written the row, with what the batch came to.
Closed(r) == pc[r] = "returned" /\ row[r] = ClosedRow(r)

RowIs(r) ==
    /\ phase[r] \in {"idle", "refused"} => row[r] = NoRow
    /\ phase[r] \in {"fetching", "persisting"} => row[r] = RunningRow(r)
    /\ phase[r] = "finished" => Closed(r)
    /\ phase[r] \in {"raised", "stopped"} => row[r] = RunningRow(r) \/ Closed(r)
    /\ phase[r] = "failed" => row[r] = RunningRow(r) \/ row[r] = FailedRow(r) \/ Closed(r)

PlaceIs(r) ==
    /\ phase[r] \in {"idle", "refused", "fetching"} => pc[r] = "idle"
    /\ pc[r] \in DP!Busy => phase[r] = "persisting"
    /\ pc[r] = "idle" => result[r].found = 0
    /\ pc[r] = "returned" => batch[r] = << >>

\* left is what remains of full when its first postings have been placed.
Done(full, left) == Len(full) - Len(left)
Remains(full, left) ==
    /\ Len(left) <= Len(full)
    /\ \A i \in 1 .. Len(left) : left[i] = full[Done(full, left) + i]

Known(full) == {i \in DOMAIN full : full[i].source \in KnownSource}
KnownUpTo(full, k) == {i \in Known(full) : i <= k}

\* persist_batch has taken the postings in order, counted those whose source
\* it knows, and listed each of them that has an id.
WorkedOff(r, full) ==
    /\ Remains(full, batch[r])
    /\ DP!InHand(r) => DP!Current(r).source \in KnownSource
    /\ result[r].found =
         Cardinality(KnownUpTo(full, Done(full, batch[r]) + (IF DP!InHand(r) THEN 1 ELSE 0)))
    /\ \A i \in KnownUpTo(full, Done(full, batch[r])) :
         full[i].externalId # NoValue => DP!ListingsOf(full[i]) # {}

SearchOK(r) ==
    /\ RowIs(r)
    /\ PlaceIs(r)
    /\ pc[r] \in DP!Busy \union {"returned"} => WorkedOff(r, BatchOf(r))

IInv == DP!CountsInv /\ SearchTyped /\ \A r \in Run : SearchOK(r)
-------------------------------------------------------------------------------
(* Types *)

\* What Launch puts into the plan.
LEMMA LaunchTyped ==
    ASSUME SearchTyped, NEW r \in Run, Launch(r)
    PROVE  SearchTyped'
  <1>1. PICK request \in Request, enabled \in Enabled :
          LET names    == IF request = NoValue THEN Registered ELSE request
              runnable == ToSet(names) \intersect enabled
              rejected == IF request = NoValue THEN {} ELSE ToSet(names) \ enabled
          IN  /\ ToSet(names) \subseteq ToSet(Registered)
              /\ plan' = [plan EXCEPT ![r] = [names |-> names, runnable |-> runnable,
                                              rejected |-> rejected]]
              /\ row' = [row EXCEPT ![r].status = "RUNNING",
                                    ![r].attempted = runnable \union rejected]
    BY DEF Launch
  <1> DEFINE names    == IF request = NoValue THEN Registered ELSE request
             runnable == ToSet(names) \intersect enabled
             rejected == IF request = NoValue THEN {} ELSE ToSet(names) \ enabled
             new == [names |-> names, runnable |-> runnable, rejected |-> rejected]
  <1>2. names \in Seq(Source)
    BY RequestAssumption
  <1>3. ToSet(names) \subseteq Source
    BY <1>2 DEF ToSet
  <1>4. ToSet(names) \subseteq ToSet(Registered)
    BY <1>1
  <1> HIDE DEF names
  <1>5. new \in Plan
    BY <1>2, <1>3, <1>4 DEF Plan
  <1>6. plan' = [plan EXCEPT ![r] = new]
    BY <1>1 DEF names
  <1>7. DOMAIN row' = DOMAIN row
    BY <1>1
  <1> HIDE DEF new
  <1>8. phase' = [phase EXCEPT ![r] = "fetching"] /\ fetched' = fetched
    BY DEF Launch, Enter
  <1>9. QED
    BY <1>5, <1>6, <1>7, <1>8 DEF SearchTyped, Phase

\* What a source's call comes to is an outcome.
LEMMA FetchTyped ==
    ASSUME SearchTyped, NEW r \in Run, NEW s \in Source, SettleFetch(r, s)
    PROVE  SearchTyped'
  <1>1. s \in ToSet(Registered)
    BY DEF SettleFetch, Runnable, SearchTyped, Plan
  <1>2. \A b \in Fetch[s] : b \in Seq(Offer)
    BY <1>1, RequestAssumption
  <1>3. \A b \in Fetch[s] : Answer(b) \in Outcome
    BY <1>2 DEF Answer, Outcome
  <1>4. Failed \in Outcome
    <2>1. << >> \in Seq(Offer)
      BY EmptySeq
    <2>2. QED
      BY <2>1 DEF Failed, Outcome
  <1>5. PICK outcome \in Outcome : fetched' = [fetched EXCEPT ![r][s] = outcome]
    BY <1>3, <1>4 DEF SettleFetch
  <1>6. fetched[r] \in [Source -> Outcome]
    BY DEF SearchTyped
  <1>7. [fetched[r] EXCEPT ![s] = outcome] \in [Source -> Outcome]
    BY <1>6
  <1>8. fetched' = [fetched EXCEPT ![r] = [fetched[r] EXCEPT ![s] = outcome]]
    BY <1>5
  <1>9. fetched' \in [Run -> [Source -> Outcome]]
    BY <1>7, <1>8 DEF SearchTyped
  <1>10. UNCHANGED <<phase, plan, row>>
    BY DEF SettleFetch
  <1>11. QED
    BY <1>9, <1>10 DEF SearchTyped

\* The batch of a search is a sequence of postings.
LEMMA BatchTyped ==
    ASSUME SearchTyped, NEW r \in Run
    PROVE  BatchOf(r) \in Seq(Offer)
  <1> DEFINE names == plan[r].names
             parts == [n \in DOMAIN names |-> fetched[r][names[n]].jobs]
  <1>1. names \in Seq(Source)
    BY DEF SearchTyped, Plan
  <1>2. \A n \in DOMAIN names : names[n] \in Source
    BY <1>1
  <1>3. \A s \in Source : fetched[r][s].jobs \in Seq(Offer)
    BY DEF SearchTyped, Outcome
  <1>4. DOMAIN names = 1 .. Len(names) /\ Len(names) \in Nat
    BY <1>1
  <1>5. parts \in [1 .. Len(names) -> Seq(Offer)]
    BY <1>2, <1>3, <1>4
  <1>6. parts \in Seq(Seq(Offer))
    <2> HIDE DEF parts
    <2>1. QED
      BY <1>4, <1>5, SeqDef
  <1>7. BatchOf(r) = FlattenSeq(parts)
    BY DEF BatchOf
  <1> HIDE DEF parts
  <1>8. QED
    BY <1>6, <1>7, FlattenType

\* Every step of a search keeps the types.
LEMMA TypedStep ==
    ASSUME SearchTyped, NEW r \in Run,
           Refuse(r) \/ Launch(r) \/ SearchStep(r) \/ Raise(r) \/ Stop(r)
    PROVE  SearchTyped'
  <1>a. \A label \in Phase : Enter(r, label) => phase' \in [Run -> Phase]
    BY DEF Enter, SearchTyped
  <1>1. CASE Refuse(r)
    BY <1>1, <1>a DEF Refuse, SearchTyped, Phase
  <1>2. CASE Launch(r)
    BY <1>2, LaunchTyped
  <1>3. ASSUME NEW s \in Source, SettleFetch(r, s) PROVE SearchTyped'
    BY <1>3, FetchTyped
  <1>4. CASE BeginPersist(r)
    BY <1>4, <1>a DEF BeginPersist, SearchTyped, Phase
  <1>5. CASE Persist(r)
    BY <1>5 DEF Persist, SearchTyped
  <1>6. CASE Finish(r)
    BY <1>6, <1>a DEF Finish, SearchTyped, Phase
  <1>7. CASE HandleException(r)
    BY <1>7, <1>a DEF HandleException, SearchTyped, Phase
  <1>8. CASE Raise(r)
    <2>1. DOMAIN row' = DOMAIN row
      BY <1>8 DEF Raise
    <2>2. QED
      BY <1>8, <2>1, <1>a DEF Raise, SearchTyped, Phase
  <1>9. CASE Stop(r)
    BY <1>9, <1>a DEF Stop, SearchTyped, Phase
  <1>10. QED
    BY <1>1, <1>2, <1>3, <1>4, <1>5, <1>6, <1>7, <1>8, <1>9 DEF SearchStep

-------------------------------------------------------------------------------
(* The postings of a batch, taken one by one *)

\* At first nothing has been placed.
LEMMA RemainsStart ==
    ASSUME NEW full \in Seq(Offer)
    PROVE  /\ Remains(full, full) /\ Done(full, full) = 0
           /\ KnownUpTo(full, 0) = {}
  BY DEF Remains, Done, KnownUpTo, Known

\* The known postings up to a place are finitely many.
LEMMA KnownFinite ==
    ASSUME NEW full \in Seq(Offer), NEW k
    PROVE  IsFiniteSet(KnownUpTo(full, k))
  <1>1. Len(full) \in Nat /\ DOMAIN full = 1 .. Len(full)
    OBVIOUS
  <1>2. IsFiniteSet(1 .. Len(full))
    BY <1>1, FS_Interval
  <1>3. KnownUpTo(full, k) \subseteq 1 .. Len(full)
    BY <1>1 DEF KnownUpTo, Known
  <1>4. QED
    BY <1>2, <1>3, FS_Subset

\* One more place is one more known posting, if its source is known.
LEMMA KnownNext ==
    ASSUME NEW full \in Seq(Offer), NEW k \in Nat, k + 1 \in DOMAIN full
    PROVE  /\ full[k + 1].source \in KnownSource =>
                /\ KnownUpTo(full, k + 1) = KnownUpTo(full, k) \union {k + 1}
                /\ Cardinality(KnownUpTo(full, k + 1)) =
                     Cardinality(KnownUpTo(full, k)) + 1
           /\ full[k + 1].source \notin KnownSource =>
                KnownUpTo(full, k + 1) = KnownUpTo(full, k)
  <1>1. DOMAIN full \subseteq Nat
    OBVIOUS
  <1>2. CASE full[k + 1].source \in KnownSource
    <2>1. KnownUpTo(full, k + 1) = KnownUpTo(full, k) \union {k + 1}
      BY <1>1, <1>2 DEF KnownUpTo, Known
    <2>2. k + 1 \notin KnownUpTo(full, k)
      BY DEF KnownUpTo
    <2>3. IsFiniteSet(KnownUpTo(full, k))
      BY KnownFinite
    <2>4. Cardinality(KnownUpTo(full, k) \union {k + 1}) = Cardinality(KnownUpTo(full, k)) + 1
      BY <2>2, <2>3, FS_AddElement
    <2>5. QED
      BY <1>2, <2>1, <2>4
  <1>3. CASE full[k + 1].source \notin KnownSource
    BY <1>1, <1>3 DEF KnownUpTo, Known
  <1>4. QED
    BY <1>2, <1>3

\* The posting in hand is the first that has not been placed; placing it leaves
\* the others.
LEMMA RemainsNext ==
    ASSUME NEW full \in Seq(Offer), NEW left \in Seq(Offer), left # << >>,
           Remains(full, left)
    PROVE  /\ Done(full, left) \in Nat
           /\ Done(full, left) + 1 \in DOMAIN full
           /\ Head(left) = full[Done(full, left) + 1]
           /\ Remains(full, Tail(left))
           /\ Done(full, Tail(left)) = Done(full, left) + 1
  <1> DEFINE k == Done(full, left)
  <1>1. /\ Len(full) \in Nat /\ Len(left) \in Nat /\ Len(left) > 0
        /\ Len(left) <= Len(full) /\ DOMAIN full = 1 .. Len(full)
    BY DEF Remains
  <1>2. k \in Nat /\ k + 1 \in DOMAIN full
    BY <1>1 DEF Done
  <1>3. Head(left) = full[k + 1]
    BY <1>1 DEF Remains
  <1>4. /\ Len(Tail(left)) = Len(left) - 1
        /\ \A i \in 1 .. Len(Tail(left)) : Tail(left)[i] = left[i + 1]
    OBVIOUS
  <1>5. Done(full, Tail(left)) = k + 1
    BY <1>1, <1>4 DEF Done
  <1>6. ASSUME NEW i \in 1 .. Len(Tail(left))
        PROVE  Tail(left)[i] = full[(k + 1) + i]
    <2>1. i + 1 \in 1 .. Len(left) /\ Tail(left)[i] = left[i + 1]
      BY <1>1, <1>4
    <2>2. left[i + 1] = full[k + (i + 1)]
      BY <2>1 DEF Remains
    <2>3. k + (i + 1) = (k + 1) + i
      BY <1>2
    <2>4. QED
      BY <2>1, <2>2, <2>3
  <1>7. Remains(full, Tail(left))
    BY <1>1, <1>4, <1>5, <1>6 DEF Remains
  <1>8. QED
    BY <1>2, <1>3, <1>5, <1>7

\* When nothing is left, all known postings have been taken.
LEMMA RemainsEnd ==
    ASSUME NEW full \in Seq(Offer)
    PROVE  KnownUpTo(full, Done(full, << >>)) = Known(full)
  BY DEF KnownUpTo, Known, Done

-------------------------------------------------------------------------------
(* The invariant is kept *)

Action(r) == Refuse(r) \/ Launch(r) \/ SearchStep(r) \/ Raise(r) \/ Stop(r)

\* A search that calls Deduplication takes one of its steps, and none otherwise.
LEMMA DedupInside ==
    ASSUME IInv, NEW r \in Run, Action(r)
    PROVE  UNCHANGED dedupVars \/ DP!RunStep(r)
  <1>1. CASE Refuse(r) \/ Launch(r) \/ Finish(r) \/ HandleException(r)
    BY <1>1 DEF Refuse, Launch, Finish, HandleException
  <1>2. ASSUME NEW s \in Source, SettleFetch(r, s) PROVE UNCHANGED dedupVars
    BY <1>2 DEF SettleFetch
  <1>3. CASE BeginPersist(r)
    <2>1. BatchOf(r) \in Seq(Offer)
      BY BatchTyped DEF IInv
    <2>2. DP!StartBatch(r, BatchOf(r))
      BY <1>3, SameEnds DEF BeginPersist
    <2>3. QED
      BY <2>1, <2>2 DEF DP!RunStep
  <1>4. CASE Persist(r)
    BY <1>4, SamePersist DEF Persist, DP!RunStep
  <1>5. CASE Raise(r) \/ Stop(r)
    BY <1>5, SameEnds DEF Raise, Stop, DP!RunStep
  <1>6. QED
    BY <1>1, <1>2, <1>3, <1>4, <1>5 DEF Action, SearchStep

\* The searches' own variables of the other searches are theirs.
LEMMA OthersLeft ==
    ASSUME IInv, NEW r \in Run, Action(r), NEW s \in Run, s # r
    PROVE  /\ phase'[s] = phase[s] /\ plan'[s] = plan[s] /\ fetched'[s] = fetched[s]
           /\ row'[s] = row[s]
  <1> USE DEF IInv, SearchTyped, Enter
  <1>1. CASE Refuse(r)
    BY <1>1 DEF Refuse
  <1>2. CASE Launch(r)
    BY <1>2 DEF Launch
  <1>3. ASSUME NEW t \in Source, SettleFetch(r, t)
        PROVE  /\ phase'[s] = phase[s] /\ plan'[s] = plan[s] /\ fetched'[s] = fetched[s]
               /\ row'[s] = row[s]
    BY <1>3 DEF SettleFetch
  <1>4. CASE BeginPersist(r) \/ Persist(r)
    BY <1>4 DEF BeginPersist, Persist
  <1>5. CASE Finish(r) \/ HandleException(r)
    BY <1>5 DEF Finish, HandleException
  <1>6. CASE Raise(r) \/ Stop(r)
    BY <1>6 DEF Raise, Stop
  <1>7. QED
    BY <1>1, <1>2, <1>3, <1>4, <1>5, <1>6 DEF Action, SearchStep

\* A posting that is listed stays listed.
ListedKept ==
    \A offer : offer.externalId # NoValue /\ DP!ListingsOf(offer) # {}
                 => (DP!ListingsOf(offer) # {})'

\* What a posting's listing being there after a step means.
LEMMA ListedThen ==
    ASSUME NEW offer, DP!ListedNext(offer), offer.externalId # NoValue
    PROVE  (DP!ListingsOf(offer) # {})'
  BY DEF DP!ListedNext, DP!ListingsOf

\* No step of a search takes a listing from a posting.
LEMMA ListedStep ==
    ASSUME IInv, NEW r \in Run, Action(r)
    PROVE  ListedKept
  <1>1. CASE UNCHANGED dedupVars
    BY <1>1 DEF ListedKept, DP!ListingsOf, dedupVars
  <1>2. CASE DP!RunStep(r)
    <2>1. SUFFICES ASSUME NEW offer, offer.externalId # NoValue, DP!ListingsOf(offer) # {}
                   PROVE  (DP!ListingsOf(offer) # {})'
      BY DEF ListedKept
    <2>2. DP!ListedNext(offer)
      BY <1>2, <2>1, DP!ListedAfter, SameAssumption DEF IInv, DP!CountsInv
    <2>3. QED
      BY <2>1, <2>2, ListedThen
  <1>3. QED
    BY <1>1, <1>2, DedupInside

\* A search whose plan, outcomes and counters stay has the same rows to write.
LEMMA SameRows ==
    ASSUME NEW r \in Run, plan'[r] = plan[r], fetched'[r] = fetched[r]
    PROVE  /\ BatchOf(r)' = BatchOf(r)
           /\ RunningRow(r)' = RunningRow(r)
           /\ FailedRow(r)' = FailedRow(r)
           /\ result'[r] = result[r] => ClosedRow(r)' = ClosedRow(r)
  <1>1. BatchOf(r)' = BatchOf(r)
    BY DEF BatchOf
  <1>2. Attempted(r)' = Attempted(r) /\ Succeeded(r)' = Succeeded(r)
    BY DEF Attempted, Succeeded, Runnable
  <1>3. FailedSources(r)' = FailedSources(r)
    BY <1>2 DEF FailedSources
  <1>4. FinalStatus(r)' = FinalStatus(r)
    BY <1>2, <1>3 DEF FinalStatus
  <1>5. ASSUME result'[r] = result[r] PROVE ClosedRow(r)' = ClosedRow(r)
    BY <1>2, <1>3, <1>4, <1>5 DEF ClosedRow, Closing
  <1>6. QED
    BY <1>1, <1>2, <1>5 DEF RunningRow, FailedRow, NoRow

\* What persist_batch has worked off stays so while the search's own variables
\* stay, whatever is added to the catalogue.
LEMMA WorkedOffKept ==
    ASSUME NEW r \in Run, NEW full, WorkedOff(r, full), ListedKept,
           DP!InHand(r)' <=> DP!InHand(r), batch'[r] = batch[r],
           result'[r].found = result[r].found
    PROVE  WorkedOff(r, full)'
  <1>1. DP!Current(r)' = DP!Current(r)
    BY DEF DP!Current
  <1>2. ASSUME NEW i \in KnownUpTo(full, Done(full, batch[r])), full[i].externalId # NoValue
        PROVE  (DP!ListingsOf(full[i]) # {})'
    BY <1>2 DEF WorkedOff, ListedKept
  <1>3. QED
    BY <1>1, <1>2 DEF WorkedOff

\* The steps of a search do not disturb the others.
LEMMA CarrySearch ==
    ASSUME IInv, NEW r \in Run, Action(r), NEW s \in Run, s # r
    PROVE  SearchOK(s)'
  <1>1. /\ phase'[s] = phase[s] /\ plan'[s] = plan[s] /\ fetched'[s] = fetched[s]
        /\ row'[s] = row[s]
    BY OthersLeft
  <1>2. pc'[s] = pc[s] /\ batch'[s] = batch[s] /\ result'[s] = result[s]
    <2>1. CASE UNCHANGED dedupVars
      BY <2>1 DEF dedupVars
    <2>2. CASE DP!RunStep(r)
      <3>1. DP!Typed
        BY DEF IInv, DP!CountsInv, DP!IInv
      <3>2. QED
        BY <2>2, <3>1, DP!OthersUntouched, SameAssumption
    <2>3. QED
      BY <2>1, <2>2, DedupInside
  <1>3. /\ BatchOf(s)' = BatchOf(s)
        /\ RunningRow(s)' = RunningRow(s)
        /\ FailedRow(s)' = FailedRow(s)
        /\ ClosedRow(s)' = ClosedRow(s)
    BY <1>1, <1>2, SameRows
  <1>4. SearchOK(s)
    BY DEF IInv
  <1>5. RowIs(s)'
    <2>1. Closed(s) => Closed(s)'
      BY <1>1, <1>2, <1>3 DEF Closed
    <2>2. RowIs(s)
      BY <1>4 DEF SearchOK
    <2>3. QED
      BY <1>1, <1>3, <2>1, <2>2 DEF RowIs
  <1>6. PlaceIs(s)'
    BY <1>1, <1>2, <1>4 DEF SearchOK, PlaceIs, DP!Busy
  <1>7. ASSUME WorkedOff(s, BatchOf(s)) PROVE WorkedOff(s, BatchOf(s))'
    <2>1. DP!InHand(s)' <=> DP!InHand(s)
      BY <1>2 DEF DP!InHand, DP!Busy
    <2>2. ListedKept
      BY ListedStep
    <2>3. PICK full : full = BatchOf(s)
      OBVIOUS
    <2>4. WorkedOff(s, full)'
      BY <1>2, <1>7, <2>1, <2>2, <2>3, WorkedOffKept
    <2>5. QED
      BY <1>3, <2>3, <2>4
  <1>8. QED
    BY <1>2, <1>4, <1>5, <1>6, <1>7 DEF SearchOK, DP!Busy

\* One step of persist_batch keeps what has been worked off.
LEMMA WorkedOffStep ==
    ASSUME IInv, NEW r \in Run, Persist(r)
    PROVE  /\ WorkedOff(r, BatchOf(r))'
           /\ pc'[r] \in DP!Busy \union {"returned"}
           /\ pc'[r] = "returned" => batch'[r] = << >>
  <1> DEFINE left == batch[r]
  <1>1. DP!PersistStep(r)
    BY SamePersist DEF Persist
  <1>2. DP!IInv /\ DP!Typed /\ DP!TypeOK
    BY DEF IInv, DP!CountsInv, DP!IInv, DP!Typed
  <1>3. DP!Skips(r) \/ DP!Takes(r) \/ DP!Looks(r) \/ DP!Places(r) \/ DP!Returns(r)
    BY <1>1, <1>2, DP!PersistKinds, SameAssumption
  <1>4. PICK full : full = BatchOf(r)
    OBVIOUS
  <1>5. BatchOf(r)' = full
    BY <1>4, SameRows DEF Persist
  <1>6. full \in Seq(Offer) /\ left \in Seq(Offer)
    BY <1>2, <1>4, BatchTyped DEF IInv, DP!TypeOK
  <1>7. result[r].found \in Nat
    BY <1>2 DEF DP!TypeOK, DP!BatchResult
  <1>8. ListedKept
    BY ListedStep DEF Action, SearchStep
  <1>9. pc[r] \in DP!Busy
    BY <1>3 DEF DP!Skips, DP!Takes, DP!Looks, DP!Places, DP!Returns, DP!InHand, DP!Busy
  <1>10. WorkedOff(r, full)
    BY <1>4, <1>9 DEF IInv, SearchOK
  <1>11. DP!Current(r) = Head(left)
    BY DEF DP!Current
  <1>12. \A i \in KnownUpTo(full, Done(full, left)) :
           full[i].externalId # NoValue => (DP!ListingsOf(full[i]) # {})'
    BY <1>8, <1>10 DEF WorkedOff, ListedKept
  <1>13. SUFFICES /\ WorkedOff(r, full)'
                  /\ pc'[r] \in DP!Busy \union {"returned"}
                  /\ pc'[r] = "returned" => batch'[r] = << >>
    BY <1>5
  <1>14. ASSUME left # << >>
         PROVE  /\ Done(full, left) \in Nat
                /\ Done(full, left) + 1 \in DOMAIN full
                /\ Head(left) = full[Done(full, left) + 1]
                /\ Remains(full, Tail(left))
                /\ Done(full, Tail(left)) = Done(full, left) + 1
    BY <1>6, <1>10, <1>14, RemainsNext DEF WorkedOff
  <1>15. CASE DP!Skips(r)
    <2>1. /\ pc'[r] = "next" /\ batch'[r] = Tail(left) /\ result' = result
          /\ ~DP!InHand(r)' /\ ~DP!InHand(r) /\ left # << >>
          /\ Head(left).source \notin KnownSource
      BY <1>11, <1>15 DEF DP!Skips, DP!InHand
    <2>2. KnownUpTo(full, Done(full, left) + 1) = KnownUpTo(full, Done(full, left))
      BY <1>6, <1>14, <2>1, KnownNext
    <2>3. result[r].found = Cardinality(KnownUpTo(full, Done(full, left) + 0))
      BY <1>10, <2>1 DEF WorkedOff
    <2>4. Done(full, left) + 0 = Done(full, left)
      BY <1>14, <2>1
    <2>5. WorkedOff(r, full)'
      BY <1>12, <1>14, <2>1, <2>2, <2>3, <2>4 DEF WorkedOff
    <2>6. QED
      BY <2>1, <2>5 DEF DP!Busy
  <1>16. CASE DP!Takes(r)
    <2>1. /\ DP!InHand(r)' /\ ~DP!InHand(r) /\ batch' = batch /\ left # << >>
          /\ Head(left).source \in KnownSource
          /\ result'[r].found = result[r].found + 1
      BY <1>11, <1>16 DEF DP!Takes, DP!InHand
    <2>2. Cardinality(KnownUpTo(full, Done(full, left) + 1)) =
            Cardinality(KnownUpTo(full, Done(full, left))) + 1
      BY <1>6, <1>14, <2>1, KnownNext
    <2>3. result[r].found = Cardinality(KnownUpTo(full, Done(full, left)))
      <3>1. result[r].found = Cardinality(KnownUpTo(full, Done(full, left) + 0))
        BY <1>10, <2>1 DEF WorkedOff
      <3>2. Done(full, left) + 0 = Done(full, left)
        BY <1>14, <2>1
      <3>3. QED
        BY <3>1, <3>2
    <2>4. DP!Current(r)' = Head(left)
      BY <2>1 DEF DP!Current
    <2>5. Remains(full, left)
      BY <1>10 DEF WorkedOff
    <2>6. WorkedOff(r, full)'
      BY <1>12, <2>1, <2>2, <2>3, <2>4, <2>5 DEF WorkedOff
    <2>7. QED
      BY <2>1, <2>6 DEF DP!InHand, DP!Busy
  <1>17. CASE DP!Looks(r)
    <2>1. DP!InHand(r)' /\ DP!InHand(r) /\ batch' = batch /\ result' = result
      BY <1>17 DEF DP!Looks
    <2>2. WorkedOff(r, full)'
      BY <1>8, <1>10, <2>1, WorkedOffKept
    <2>3. QED
      BY <2>1, <2>2 DEF DP!InHand, DP!Busy
  <1>18. CASE DP!Places(r)
    <2>1. /\ DP!InHand(r) /\ left # << >> /\ pc'[r] = "next" /\ batch'[r] = Tail(left)
          /\ result'[r].found = result[r].found /\ ~DP!InHand(r)'
          /\ Head(left).externalId # NoValue => DP!ListedNext(Head(left))
      BY <1>11, <1>18 DEF DP!Places, DP!InHand
    <2>2. result'[r].found = Cardinality(KnownUpTo(full, Done(full, Tail(left)) + 0))
      <3>1. result[r].found = Cardinality(KnownUpTo(full, Done(full, left) + 1))
        BY <1>10, <2>1 DEF WorkedOff
      <3>2. Done(full, Tail(left)) + 0 = Done(full, left) + 1
        BY <1>14, <2>1
      <3>3. QED
        BY <2>1, <3>1, <3>2
    <2>3. ASSUME NEW i \in KnownUpTo(full, Done(full, Tail(left))), full[i].externalId # NoValue
          PROVE  (DP!ListingsOf(full[i]) # {})'
      <3>1. CASE i \in KnownUpTo(full, Done(full, left))
        BY <1>12, <2>3, <3>1
      <3>2. CASE i \notin KnownUpTo(full, Done(full, left))
        <4>1. i \in Nat /\ i <= Done(full, left) + 1 /\ ~(i <= Done(full, left))
          BY <1>6, <1>14, <2>1, <3>2 DEF KnownUpTo, Known
        <4>2. i = Done(full, left) + 1
          BY <4>1, <1>14, <2>1
        <4>3. full[i] = Head(left)
          BY <4>2, <1>14, <2>1
        <4>4. QED
          BY <2>1, <2>3, <4>3, ListedThen
      <3>3. QED
        BY <3>1, <3>2
    <2>4. WorkedOff(r, full)'
      BY <1>14, <2>1, <2>2, <2>3 DEF WorkedOff
    <2>5. QED
      BY <2>1, <2>4 DEF DP!Busy
  <1>19. CASE DP!Returns(r)
    <2>1. /\ pc'[r] = "returned" /\ ~DP!InHand(r)' /\ ~DP!InHand(r)
          /\ batch' = batch /\ left = << >> /\ result' = result
      BY <1>19 DEF DP!Returns, DP!InHand, DP!Busy
    <2>2. WorkedOff(r, full)'
      BY <1>8, <1>10, <2>1, WorkedOffKept
    <2>3. QED
      BY <2>1, <2>2
  <1>20. QED
    BY <1>3, <1>15, <1>16, <1>17, <1>18, <1>19

\* The steps of a search up to the batch.
LEMMA EarlyStep ==
    ASSUME IInv, NEW r \in Run,
           \/ Refuse(r) \/ Launch(r) \/ (\E s \in Source : SettleFetch(r, s)) \/ BeginPersist(r)
    PROVE  SearchOK(r)'
  <1>a. SearchOK(r) /\ SearchTyped
    BY DEF IInv
  <1>b. \A label : Enter(r, label) => phase'[r] = label
    BY DEF Enter, IInv, SearchTyped
  <1>1. CASE Refuse(r)
    <2>1. phase[r] = "idle" /\ phase'[r] = "refused" /\ UNCHANGED <<dedupVars, row>>
      BY <1>1, <1>b DEF Refuse
    <2>2. RowIs(r)'
      BY <1>a, <2>1 DEF SearchOK, RowIs
    <2>3. pc'[r] = "idle" /\ PlaceIs(r)'
      BY <1>a, <2>1 DEF SearchOK, PlaceIs, dedupVars, DP!Busy
    <2>4. QED
      BY <2>2, <2>3 DEF SearchOK, DP!Busy
  <1>2. CASE Launch(r)
    <2>1. phase[r] = "idle" /\ phase'[r] = "fetching" /\ UNCHANGED dedupVars
      BY <1>2, <1>b DEF Launch
    <2>2. row'[r] = RunningRow(r)'
      <3>1. PICK names, runnable, rejected :
              /\ plan' = [plan EXCEPT ![r] = [names |-> names, runnable |-> runnable,
                                              rejected |-> rejected]]
              /\ row' = [row EXCEPT ![r].status = "RUNNING",
                                    ![r].attempted = runnable \union rejected]
        <4>1. PICK request \in Request, enabled \in Enabled :
                LET names    == IF request = NoValue THEN Registered ELSE request
                    runnable == ToSet(names) \intersect enabled
                    rejected == IF request = NoValue THEN {} ELSE ToSet(names) \ enabled
                IN  /\ plan' = [plan EXCEPT ![r] = [names |-> names, runnable |-> runnable,
                                                    rejected |-> rejected]]
                    /\ row' = [row EXCEPT ![r].status = "RUNNING",
                                          ![r].attempted = runnable \union rejected]
          BY <1>2 DEF Launch
        <4> DEFINE chosen == IF request = NoValue THEN Registered ELSE request
                   refused == IF request = NoValue THEN {} ELSE ToSet(chosen) \ enabled
        <4>2. WITNESS chosen, ToSet(chosen) \intersect enabled, refused
        <4>3. QED
          BY <4>1
      <3>2. Attempted(r)' = runnable \union rejected
        BY <3>1 DEF Attempted, Runnable, IInv, SearchTyped
      <3>3. row[r] = NoRow
        BY <1>a, <2>1 DEF SearchOK, RowIs
      <3>4. row'[r] = [NoRow EXCEPT !.status = "RUNNING", !.attempted = runnable \union rejected]
        BY <3>1, <3>3 DEF IInv, SearchTyped
      <3>5. QED
        BY <3>2, <3>4 DEF RunningRow, NoRow
    <2>3. RowIs(r)'
      BY <2>1, <2>2 DEF RowIs
    <2>4. pc'[r] = "idle" /\ PlaceIs(r)'
      BY <1>a, <2>1 DEF SearchOK, PlaceIs, dedupVars, DP!Busy
    <2>5. QED
      BY <2>3, <2>4 DEF SearchOK, DP!Busy
  <1>3. ASSUME NEW s \in Source, SettleFetch(r, s) PROVE SearchOK(r)'
    <2>1. phase[r] = "fetching" /\ UNCHANGED <<dedupVars, phase, plan, row>>
      BY <1>3 DEF SettleFetch
    <2>2. RunningRow(r)' = RunningRow(r)
      BY <2>1 DEF RunningRow, Attempted, Runnable, NoRow
    <2>3. RowIs(r)'
      BY <1>a, <2>1, <2>2 DEF SearchOK, RowIs
    <2>4. pc'[r] = "idle" /\ PlaceIs(r)'
      BY <1>a, <2>1 DEF SearchOK, PlaceIs, dedupVars, DP!Busy
    <2>5. QED
      BY <2>3, <2>4 DEF SearchOK, DP!Busy
  <1>4. CASE BeginPersist(r)
    <2>1. /\ phase[r] = "fetching" /\ phase'[r] = "persisting"
          /\ UNCHANGED <<plan, fetched, row>>
          /\ DP!StartBatch(r, BatchOf(r))
      BY <1>4, <1>b, SameEnds DEF BeginPersist
    <2>2. pc'[r] = "next" /\ batch'[r] = BatchOf(r) /\ result' = result
      BY <2>1 DEF DP!StartBatch, DP!Goto, IInv, DP!CountsInv, DP!IInv, DP!Typed, DP!TypeOK
    <2>3. PICK full : full = BatchOf(r)
      OBVIOUS
    <2>4. BatchOf(r)' = full /\ RunningRow(r)' = RunningRow(r)
      BY <2>1, <2>3, SameRows
    <2>5. RowIs(r)'
      BY <1>a, <2>1, <2>4 DEF SearchOK, RowIs
    <2>6. PlaceIs(r)'
      BY <2>1, <2>2 DEF PlaceIs
    <2>7. WorkedOff(r, full)'
      <3>1. full \in Seq(Offer)
        BY <1>a, <2>3, BatchTyped
      <3>2. result'[r].found = 0
        BY <1>a, <2>1, <2>2 DEF SearchOK, PlaceIs
      <3>3. ~DP!InHand(r)'
        BY <2>2 DEF DP!InHand
      <3>4. /\ Remains(full, full) /\ Done(full, full) = 0 /\ Done(full, full) + 0 = 0
            /\ KnownUpTo(full, 0) = {}
        BY <3>1, RemainsStart
      <3>5. Cardinality(KnownUpTo(full, 0)) = 0
        BY <3>4, FS_EmptySet
      <3>6. QED
        BY <2>2, <2>3, <3>2, <3>3, <3>4, <3>5 DEF WorkedOff
    <2>8. QED
      BY <2>2, <2>4, <2>5, <2>6, <2>7 DEF SearchOK
  <1>5. QED
    BY <1>1, <1>2, <1>3, <1>4

\* The steps of a search from the batch on.
LEMMA LateStep ==
    ASSUME IInv, NEW r \in Run,
           Persist(r) \/ Finish(r) \/ HandleException(r) \/ Raise(r) \/ Stop(r)
    PROVE  SearchOK(r)'
  <1>a. SearchOK(r) /\ SearchTyped
    BY DEF IInv
  <1>b. \A label : Enter(r, label) => phase'[r] = label
    BY DEF Enter, IInv, SearchTyped
  <1>c. DP!AbortBatch(r) => pc'[r] = "raised" /\ result' = result
    BY DEF DP!AbortBatch, DP!Goto, IInv, DP!CountsInv, DP!IInv, DP!Typed, DP!TypeOK
  <1>d. DP!Busy = Dedup!Busy
    BY DEF DP!Busy, Dedup!Busy
  <1>e. ASSUME UNCHANGED <<plan, fetched>>
        PROVE  /\ RunningRow(r)' = RunningRow(r) /\ FailedRow(r)' = FailedRow(r)
               /\ result'[r] = result[r] => ClosedRow(r)' = ClosedRow(r)
    BY <1>e, SameRows
  <1>f. row[r] = RunningRow(r) => Closing(r) = ClosedRow(r) /\ row[r].attempted = Attempted(r)
    BY DEF RunningRow, ClosedRow, Closing, NoRow
  <1>g. ASSUME UNCHANGED <<dedupVars, plan, fetched>>, WorkedOff(r, BatchOf(r))
        PROVE  WorkedOff(r, BatchOf(r))'
    <2>1. BatchOf(r)' = BatchOf(r)
      BY <1>g, SameRows
    <2>2. UNCHANGED <<listings, pc, batch, result>>
      BY <1>g DEF dedupVars
    <2>3. QED
      BY <1>g, <2>1, <2>2 DEF WorkedOff, DP!InHand, DP!Current, DP!ListingsOf
  <1>1. CASE Persist(r)
    <2>1. /\ phase[r] = "persisting" /\ UNCHANGED <<phase, plan, fetched, row>>
      BY <1>1 DEF Persist
    <2>2. RowIs(r)'
      BY <1>a, <1>e, <2>1 DEF SearchOK, RowIs
    <2>3. /\ WorkedOff(r, BatchOf(r))'
          /\ pc'[r] \in DP!Busy \union {"returned"}
          /\ pc'[r] = "returned" => batch'[r] = << >>
      BY <1>1, WorkedOffStep
    <2>4. PlaceIs(r)'
      BY <2>1, <2>3 DEF PlaceIs, DP!Busy
    <2>5. QED
      BY <2>2, <2>3, <2>4 DEF SearchOK
  <1>2. CASE Finish(r)
    <2>1. /\ phase[r] = "persisting" /\ pc[r] = "returned" /\ phase'[r] = "finished"
          /\ row' = [row EXCEPT ![r] = Closing(r)]
          /\ UNCHANGED <<dedupVars, plan, fetched>>
      BY <1>2, <1>b DEF Finish
    <2>2. UNCHANGED <<pc, batch, result>>
      BY <2>1 DEF dedupVars
    <2>3. RowIs(r)'
      <3>1. row'[r] = ClosedRow(r)
        BY <1>a, <1>f, <2>1 DEF SearchOK, RowIs, SearchTyped
      <3>2. QED
        BY <1>e, <2>1, <2>2, <3>1 DEF RowIs, Closed
    <2>4. PlaceIs(r)'
      BY <1>a, <2>1, <2>2 DEF SearchOK, PlaceIs, DP!Busy
    <2>5. QED
      BY <1>a, <1>g, <2>1, <2>2, <2>3, <2>4 DEF SearchOK
  <1>3. CASE HandleException(r)
    <2>1. /\ phase[r] = "raised" /\ phase'[r] = "failed"
          /\ UNCHANGED <<dedupVars, plan, fetched>>
      BY <1>3, <1>b DEF HandleException
    <2>2. UNCHANGED <<pc, batch, result>>
      BY <2>1 DEF dedupVars
    <2>3. row[r] = RunningRow(r) \/ Closed(r)
      BY <1>a, <2>1 DEF SearchOK, RowIs
    <2>4. row'[r] = row[r] \/ row'[r] = FailedRow(r)
      <3>1. row[r].attempted = Attempted(r)
        BY <2>3 DEF Closed, ClosedRow, Closing, RunningRow, NoRow
      <3>2. QED
        BY <1>3, <3>1 DEF HandleException, FailedRow, IInv, SearchTyped
    <2>5. RowIs(r)'
      BY <1>e, <2>1, <2>2, <2>3, <2>4 DEF RowIs, Closed
    <2>6. PlaceIs(r)'
      BY <1>a, <2>1, <2>2 DEF SearchOK, PlaceIs, DP!Busy
    <2>7. QED
      BY <1>a, <1>g, <2>1, <2>2, <2>5, <2>6 DEF SearchOK
  <1>4. CASE Raise(r)
    <2>1. /\ phase[r] = "persisting" /\ phase'[r] = "raised" /\ UNCHANGED <<plan, fetched>>
          /\ row[r] = RunningRow(r)
      BY <1>a, <1>4, <1>b DEF Raise, SearchOK, RowIs
    <2>2. CASE Dedup!AbortBatch(r) /\ UNCHANGED row
      <3>1. pc'[r] = "raised" /\ result' = result
        BY <1>c, <2>2, SameEnds
      <3>2. RowIs(r)' /\ PlaceIs(r)'
        BY <1>e, <2>1, <2>2, <3>1 DEF RowIs, PlaceIs, DP!Busy
      <3>3. QED
        BY <3>1, <3>2 DEF SearchOK, DP!Busy
    <2>3. CASE /\ pc[r] = "returned" /\ UNCHANGED dedupVars
               /\ row' \in {row, [row EXCEPT ![r] = Closing(r)]}
      <3>1. UNCHANGED <<pc, batch, result>>
        BY <2>3 DEF dedupVars
      <3>2. row'[r] = row[r] \/ row'[r] = ClosedRow(r)
        BY <1>a, <1>f, <2>1, <2>3 DEF SearchTyped
      <3>3. RowIs(r)'
        BY <1>e, <2>1, <2>3, <3>1, <3>2 DEF RowIs, Closed
      <3>4. PlaceIs(r)'
        BY <1>a, <2>1, <2>3, <3>1 DEF SearchOK, PlaceIs, DP!Busy
      <3>5. QED
        BY <1>a, <1>g, <2>1, <2>3, <3>1, <3>3, <3>4 DEF SearchOK
    <2>4. QED
      BY <1>4, <2>2, <2>3 DEF Raise
  <1>5. CASE Stop(r)
    <2>1. /\ phase[r] \in {"fetching", "persisting", "raised"} /\ phase'[r] = "stopped"
          /\ UNCHANGED <<plan, fetched, row>>
          /\ row[r] = RunningRow(r) \/ Closed(r)
      BY <1>a, <1>5, <1>b DEF Stop, SearchOK, RowIs
    <2>2. CASE Dedup!AbortBatch(r)
      <3>1. pc'[r] = "raised" /\ result' = result /\ pc[r] \in DP!Busy
        BY <1>c, <2>2, SameEnds DEF DP!AbortBatch
      <3>2. phase[r] = "persisting"
        BY <1>a, <3>1 DEF SearchOK, PlaceIs
      <3>3. row[r] = RunningRow(r)
        BY <1>a, <3>2 DEF SearchOK, RowIs
      <3>4. RowIs(r)' /\ PlaceIs(r)'
        BY <1>e, <2>1, <3>1, <3>3 DEF RowIs, PlaceIs, DP!Busy
      <3>5. QED
        BY <3>1, <3>4 DEF SearchOK, DP!Busy
    <2>3. CASE pc[r] \notin Dedup!Busy /\ UNCHANGED dedupVars
      <3>1. UNCHANGED <<pc, batch, result>> /\ pc[r] \notin DP!Busy
        BY <1>d, <2>3 DEF dedupVars
      <3>2. RowIs(r)'
        BY <1>e, <2>1, <3>1 DEF RowIs, Closed
      <3>3. PlaceIs(r)'
        BY <1>a, <2>1, <3>1 DEF SearchOK, PlaceIs, DP!Busy
      <3>4. QED
        BY <1>a, <1>g, <2>1, <2>3, <3>1, <3>2, <3>3 DEF SearchOK, DP!Busy
    <2>4. QED
      BY <1>5, <2>2, <2>3 DEF Stop
  <1>6. QED
    BY <1>1, <1>2, <1>3, <1>4, <1>5

\* Every step of a search keeps the invariant, of Deduplication too.
LEMMA KeptByStep ==
    ASSUME IInv, NEW r \in Run, Action(r)
    PROVE  IInv'
  <1>1. DP!CountsInv'
    <2>1. [DP!Next]_DP!vars
      BY DedupInside DEF DP!Next, DP!RunStep, DP!vars, dedupVars
    <2>2. QED
      BY <2>1, DP!CountsStep, SameAssumption DEF IInv
  <1>2. SearchTyped'
    BY TypedStep DEF IInv, Action
  <1>3. SearchOK(r)'
    BY EarlyStep, LateStep DEF Action, SearchStep
  <1>4. \A s \in Run : SearchOK(s)'
    BY <1>3, CarrySearch
  <1>5. QED
    BY <1>1, <1>2, <1>4 DEF IInv

\* It holds when nothing has been searched for.
LEMMA InvariantStart == Init => IInv
  <1> SUFFICES ASSUME Init PROVE IInv
    OBVIOUS
  <1>1. DP!Init
    BY SameInit DEF Init
  <1>2. DP!CountsInv
    BY <1>1, DP!CountsStart, SameAssumption
  <1>3. SearchTyped
    <2>1. << >> \in Seq(Source) /\ << >> \in Seq(Offer)
      BY EmptySeq
    <2>2. Pending \in Outcome
      BY <2>1 DEF Pending, Outcome
    <2>3. [names |-> << >>, runnable |-> {}, rejected |-> {}] \in Plan
      BY <2>1 DEF Plan
    <2>4. QED
      BY <2>2, <2>3 DEF Init, SearchTyped, Phase
  <1>4. ASSUME NEW r \in Run PROVE SearchOK(r)
    <2>1. phase[r] = "idle" /\ pc[r] = "idle" /\ row[r] = NoRow /\ result[r].found = 0
      BY <1>1 DEF Init, DP!Init
    <2>2. QED
      BY <2>1 DEF SearchOK, RowIs, PlaceIs, DP!Busy
  <1>5. QED
    BY <1>2, <1>3, <1>4 DEF IInv

LEMMA Invariance == Spec => []IInv
  <1>1. IInv /\ [Next]_vars => IInv'
    <2> SUFFICES ASSUME IInv, [Next]_vars PROVE IInv'
      OBVIOUS
    <2>1. ASSUME NEW r \in Run, Action(r) PROVE IInv'
      BY <2>1, KeptByStep
    <2>2. CASE UNCHANGED vars
      <3>1. UNCHANGED <<dedupVars, phase, plan, fetched, row>>
        BY <2>2 DEF vars
      <3>2. DP!CountsInv'
        <4>1. [DP!Next]_DP!vars
          BY <3>1 DEF DP!vars, dedupVars
        <4>2. QED
          BY <4>1, DP!CountsStep, SameAssumption DEF IInv
      <3>3. SearchTyped'
        BY <3>1 DEF IInv, SearchTyped
      <3>4. ASSUME NEW r \in Run PROVE SearchOK(r)'
        <4>1. /\ BatchOf(r)' = BatchOf(r) /\ RunningRow(r)' = RunningRow(r)
              /\ FailedRow(r)' = FailedRow(r) /\ ClosedRow(r)' = ClosedRow(r)
          BY <3>1, SameRows DEF dedupVars
        <4>2. UNCHANGED <<listings, pc, batch, result, phase, row>>
          BY <3>1 DEF dedupVars
        <4>3. SearchOK(r)
          BY DEF IInv
        <4>4. WorkedOff(r, BatchOf(r)) => WorkedOff(r, BatchOf(r))'
          BY <4>1, <4>2 DEF WorkedOff, DP!InHand, DP!Current, DP!ListingsOf
        <4>5. RowIs(r)' /\ PlaceIs(r)'
          BY <4>1, <4>2, <4>3 DEF SearchOK, RowIs, PlaceIs, Closed, DP!Busy
        <4>6. QED
          BY <4>2, <4>3, <4>4, <4>5 DEF SearchOK, DP!Busy
      <3>5. QED
        BY <3>2, <3>3, <3>4 DEF IInv
    <2>3. QED
      BY <2>1, <2>2 DEF Next, Action
  <1>2. QED
    BY <1>1, InvariantStart, PTL DEF Spec

-------------------------------------------------------------------------------
(* Theorems *)

\* The statuses of a row that is not closed.
LEMMA OpenStatus ==
    \A r \in Run : NoRow.status = "none" /\ RunningRow(r).status = "RUNNING"
  BY DEF NoRow, RunningRow

\* A closed row accounts for each source it attempted, and its status follows
\* from how they ended (discovery_service.py:200-208).
THEOREM RowTruthfulHolds == Spec => []RowTruthful
  <1>1. IInv => RowTruthful
    <2> SUFFICES ASSUME IInv, NEW r \in Run, row[r].status \notin {"none", "RUNNING"}
                 PROVE  /\ row[r].succeeded \union row[r].failed = row[r].attempted
                        /\ row[r].succeeded \intersect row[r].failed = {}
                        /\ row[r].status = "COMPLETED" => row[r].failed = {}
                        /\ row[r].status = "FAILED" => row[r].succeeded = {}
                        /\ row[r].status = "PARTIAL" =>
                             row[r].failed # {} /\ row[r].succeeded # {}
      BY DEF RowTruthful
    <2>1. row[r] = FailedRow(r) \/ row[r] = ClosedRow(r)
      <3>1. row[r] # NoRow /\ row[r] # RunningRow(r)
        BY OpenStatus
      <3>2. RowIs(r) /\ phase[r] \in Phase
        BY DEF IInv, SearchOK, SearchTyped
      <3>3. QED
        BY <3>1, <3>2 DEF RowIs, Closed, Phase
    <2>2. CASE row[r] = FailedRow(r)
      BY <2>2 DEF FailedRow, NoRow
    <2>3. CASE row[r] = ClosedRow(r)
      <3>1. /\ row[r].attempted = Attempted(r) /\ row[r].succeeded = Succeeded(r)
            /\ row[r].failed = FailedSources(r) /\ row[r].status = FinalStatus(r)
        BY <2>3 DEF ClosedRow, Closing
      <3>2. Succeeded(r) \subseteq Attempted(r)
        BY DEF Succeeded, Attempted
      <3>3. QED
        BY <3>1, <3>2 DEF FinalStatus, FailedSources
    <2>4. QED
      BY <2>1, <2>2, <2>3
  <1>2. QED
    BY <1>1, Invariance, PTL

\* A search that has finished has worked its whole batch off.
LEMMA FinishedFacts ==
    ASSUME IInv, NEW r \in Run, Finished(r)
    PROVE  /\ pc[r] = "returned" /\ row[r] = ClosedRow(r) /\ ~DP!InHand(r)
           /\ Deliverable(r) = Known(BatchOf(r))
           /\ result[r].found = Cardinality(Deliverable(r))
           /\ \A i \in Deliverable(r) :
                BatchOf(r)[i].externalId # NoValue => DP!ListingsOf(BatchOf(r)[i]) # {}
  <1>1. SearchOK(r)
    BY DEF IInv
  <1>2. pc[r] = "returned" /\ row[r] = ClosedRow(r)
    BY <1>1 DEF Finished, SearchOK, RowIs, Closed
  <1>3. ~DP!InHand(r)
    BY <1>2 DEF DP!InHand, DP!Busy
  <1>4. batch[r] = << >>
    BY <1>1, <1>2 DEF SearchOK, PlaceIs
  <1>5. WorkedOff(r, BatchOf(r))
    BY <1>1, <1>2 DEF SearchOK
  <1>6. PICK full : full = BatchOf(r)
    OBVIOUS
  <1>7. full \in Seq(Offer)
    BY <1>6, BatchTyped DEF IInv
  <1>8. Deliverable(r) = Known(full)
    BY <1>6 DEF Deliverable, Known
  <1>9. KnownUpTo(full, Done(full, << >>)) = Known(full) /\ Done(full, << >>) + 0 = Done(full, << >>)
    BY <1>7, RemainsEnd DEF Done
  <1>10. QED
    BY <1>2, <1>3, <1>4, <1>5, <1>6, <1>8, <1>9 DEF WorkedOff

\* When a search has finished, everything it delivered is listed
\* (discovery_service.py:210-217, deduplication_service.py:60-131).
THEOREM DeliveredIsListedHolds == Spec => []DeliveredIsListed
  <1>1. IInv => DeliveredIsListed
    BY FinishedFacts DEF DeliveredIsListed, DP!ListingsOf, Dedup!ListingsOf
  <1>2. QED
    BY <1>1, Invariance, PTL

\* What a row calls new is at most what its search created.
LEMMA RowNew ==
    ASSUME IInv, NEW r \in Run
    PROVE  /\ IsFiniteSet(result[r].new)
           /\ row[r].new \in Nat /\ row[r].new <= Cardinality(result[r].new)
  <1>1. IsFiniteSet(result[r].new)
    BY DEF IInv, DP!CountsInv, DP!Counted, IsFiniteSet, DP!IsFiniteSet
  <1>2. Cardinality(result[r].new) \in Nat
    BY <1>1, FS_CardinalityType
  <1>3. RowIs(r) /\ phase[r] \in Phase
    BY DEF IInv, SearchOK, SearchTyped
  <1>4. row[r] \in {NoRow, RunningRow(r), FailedRow(r), ClosedRow(r)}
    BY <1>3 DEF RowIs, Closed, Phase
  <1>5. row[r].new = 0 \/ row[r].new = Cardinality(result[r].new)
    <2>1. NoRow.new = 0 /\ RunningRow(r).new = 0 /\ FailedRow(r).new = 0
      BY DEF NoRow, RunningRow, FailedRow
    <2>2. ClosedRow(r).new = Cardinality(result[r].new)
      BY DEF ClosedRow, Closing
    <2>3. QED
      BY <1>4, <2>1, <2>2
  <1>6. QED
    BY <1>1, <1>2, <1>5

\* The counts of a finished search add up, and the rows together claim no more
\* new jobs than there are, whichever searches overlapped
\* (discovery_service.py:210-217).
THEOREM CountsTruthfulHolds == Spec => []CountsTruthful
  <1>1. IInv => CountsTruthful
    <2> SUFFICES ASSUME IInv PROVE CountsTruthful
      OBVIOUS
    <2>1. ASSUME NEW r \in Run, Finished(r)
          PROVE  /\ row[r].found = Cardinality(Deliverable(r))
                 /\ row[r].found = row[r].new + row[r].duplicate
      <3>1. /\ row[r].found = result[r].found /\ row[r].duplicate = result[r].duplicate
            /\ row[r].new = Cardinality(result[r].new)
        BY <2>1, FinishedFacts DEF ClosedRow, Closing
      <3>2. result[r].found = Cardinality(result[r].new) + result[r].duplicate + 0
        <4>1. pc[r] # "raised" /\ ~DP!InHand(r)
          BY <2>1, FinishedFacts
        <4>2. DP!Counted(r)
          BY DEF IInv, DP!CountsInv
        <4>3. QED
          BY <4>1, <4>2 DEF DP!Counted, DP!Cardinality, Cardinality
      <3>3. /\ Cardinality(result[r].new) \in Nat /\ result[r].duplicate \in Nat
        BY RowNew, FS_CardinalityType
           DEF IInv, DP!CountsInv, DP!IInv, DP!Typed, DP!TypeOK, DP!BatchResult
      <3>4. QED
        BY <2>1, <3>1, <3>2, <3>3, FinishedFacts
    <2>2. Len(jobs) >= SumFunction([r \in Run |-> row[r].new])
      <3> DEFINE f == [r \in Run |-> row[r].new]
                 A == [r \in Run |-> result[r].new]
      <3>1. f \in [Run -> Nat]
        BY RowNew
      <3>2. \A r \in Run : IsFiniteSet(A[r]) /\ f[r] <= Cardinality(A[r])
        BY RowNew
      <3>3. /\ DOMAIN jobs = UNION {result[r].new : r \in Run}
            /\ \A r, s \in Run : r # s => A[r] \intersect A[s] = {}
        <4>1. DP!JobsCreditedOnce
          BY DP!CountsCredit, SameAssumption DEF IInv
        <4>2. QED
          BY <4>1 DEF DP!JobsCreditedOnce
      <3>4. UNION {A[r] : r \in Run} = DOMAIN jobs
        BY <3>3
      <3>5. IsFiniteSet(Run)
        BY RequestAssumption
      <3>6. Cardinality(DOMAIN jobs) = Len(jobs)
        <4>1. jobs \in Seq(DP!Job)
          BY DEF IInv, DP!CountsInv, DP!IInv, DP!Typed, DP!TypeOK
        <4>2. DOMAIN jobs = 1 .. Len(jobs) /\ Len(jobs) \in Nat
          BY <4>1
        <4>3. Cardinality(1 .. Len(jobs)) = IF 1 > Len(jobs) THEN 0 ELSE Len(jobs) - 1 + 1
          BY <4>2, FS_Interval
        <4>4. QED
          BY <4>2, <4>3
      <3> HIDE DEF f, A
      <3>7. SumFunction(f) <= Cardinality(UNION {A[r] : r \in Run})
        BY <3>1, <3>2, <3>3, <3>5, SumWithin
      <3>8. SumFunction(f) <= Len(jobs)
        BY <3>4, <3>6, <3>7
      <3>9. QED
        BY <3>8 DEF f
    <2>3. QED
      BY <2>1, <2>2 DEF CountsTruthful
  <1>2. QED
    BY <1>1, Invariance, PTL

\* No search changes what a row has been closed with, but for the error path of
\* the search whose row it is (discovery_service.py:142-156).
THEOREM ClosedRowsStayHolds == Spec => ClosedRowsStay
  <1>1. IInv /\ [Next]_vars =>
          [\A r \in Run : row[r].status \notin {"none", "RUNNING"} =>
             \/ row'[r] = row[r]
             \/ phase[r] = "raised" /\ row'[r].status = "FAILED"]_vars
    <2> SUFFICES ASSUME IInv, [Next]_vars, NEW r \in Run,
                        row[r].status \notin {"none", "RUNNING"}
                 PROVE  row'[r] = row[r] \/ (phase[r] = "raised" /\ row'[r].status = "FAILED")
      OBVIOUS
    <2>1. CASE UNCHANGED vars
      BY <2>1 DEF vars
    <2>2. ASSUME NEW s \in Run, Action(s)
          PROVE  row'[r] = row[r] \/ (phase[r] = "raised" /\ row'[r].status = "FAILED")
      <3>1. CASE s # r
        BY <2>2, <3>1, OthersLeft
      <3>2. CASE s = r
        <4>1. phase[r] \notin {"idle", "refused", "fetching", "persisting"}
          <5>1. row[r] # NoRow /\ row[r] # RunningRow(r)
            BY OpenStatus
          <5>2. RowIs(r)
            BY DEF IInv, SearchOK
          <5>3. QED
            BY <5>1, <5>2 DEF RowIs
        <4>2. HandleException(r) \/ Stop(r)
          BY <2>2, <3>2, <4>1 DEF Action, SearchStep, Refuse, Launch, SettleFetch,
             BeginPersist, Persist, Finish, Raise
        <4>3. QED
          BY <4>2 DEF HandleException, Stop, NoRow, IInv, SearchTyped
      <3>3. QED
        BY <3>1, <3>2
    <2>3. QED
      BY <2>1, <2>2 DEF Next, Action
  <1>2. QED
    BY <1>1, Invariance, PTL DEF Spec, ClosedRowsStay
===============================================================================
