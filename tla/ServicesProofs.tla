---------------------------- MODULE ServicesProofs ----------------------------
(*****************************************************************************)
(* Of the parts of Services: the skill gaps, the rule scores, the calls of   *)
(* the model, the learned order of the feed and the panels of the overview,  *)
(* for any input; the budget of SourceThrottle, for any number of callers,   *)
(* any budget and any clock; the loop of DetectionLoop, for any candidates   *)
(* and any weights.                                                          *)
(*****************************************************************************)
EXTENDS Services, FiniteSetTheorems, SequenceTheorems, TLAPS

-------------------------------------------------------------------------------
(* Inductions and concatenations *)

\* Induction over the naturals, for a set.
LEMMA SetInduction ==
  ASSUME NEW S, 0 \in S, \A n \in Nat : n \in S => n + 1 \in S
  PROVE  Nat \subseteq S
  <1> DEFINE T == Nat \ S
             R == {p \in Nat \X Nat : p[1] < p[2]}
  <1>1. SUFFICES ASSUME T # {} PROVE FALSE
    OBVIOUS
  <1>2. PICK m \in T : \A y \in T : ~(<<y, m>> \in R)
    <2>1. IsWellFoundedOn(R, Nat)
      BY NatLessThanWellFounded DEF OpToRel
    <2>2. T \subseteq Nat
      OBVIOUS
    <2> HIDE DEF R, T
    <2>3. QED
      BY <2>1, <2>2, <1>1, WFMin, Zenon
  <1>3. m \in Nat /\ m # 0 /\ m - 1 \in Nat /\ m - 1 < m
    OBVIOUS
  <1>4. m - 1 \notin T
    BY <1>2, <1>3, Zenon
  <1>5. QED
    BY <1>3, <1>4

\* The partial concatenations that FlattenSeq computes.
LEMMA FlattenStep ==
    ASSUME NEW seqs, NEW T, seqs \in Seq(Seq(T))
    PROVE  \E g : g = [n \in 1 .. Len(seqs) |-> IF n = 1 THEN seqs[n] ELSE g[n - 1] \o seqs[n]]
  <1> DEFINE Rec(g, m) == g = [n \in 1 .. m |-> IF n = 1 THEN seqs[n] ELSE g[n - 1] \o seqs[n]]
             S == {m \in Nat : \E g : Rec(g, m)}
  <1>1. 0 \in S
    <2>1. Rec([n \in 1 .. 0 |-> n], 0)
      OBVIOUS
    <2>2. QED
      BY <2>1, Zenon
  <1>2. ASSUME NEW m \in Nat, m \in S PROVE m + 1 \in S
    <2>1. PICK g : Rec(g, m)
      BY <1>2, Zenon
    <2> DEFINE new == IF m = 0 THEN seqs[1] ELSE g[m] \o seqs[m + 1]
               h == [n \in 1 .. (m + 1) |-> IF n = m + 1 THEN new ELSE g[n]]
    <2>2. \A n \in 1 .. m : h[n] = g[n]
      OBVIOUS
    <2>3. ASSUME NEW n \in 1 .. (m + 1)
          PROVE  h[n] = IF n = 1 THEN seqs[n] ELSE h[n - 1] \o seqs[n]
      <3>1. CASE n = m + 1
        BY <3>1
      <3>2. CASE n # m + 1
        <4>1. n \in 1 .. m /\ (n # 1 => n - 1 \in 1 .. m)
          BY <3>2
        <4>2. g[n] = IF n = 1 THEN seqs[n] ELSE g[n - 1] \o seqs[n]
          BY <2>1, <4>1, Zenon
        <4>3. QED
          BY <2>2, <4>1, <4>2
      <3>3. QED
        BY <3>1, <3>2
    <2> HIDE DEF new
    <2>4. Rec(h, m + 1)
      BY <2>3
    <2> HIDE DEF h, Rec
    <2>5. QED
      BY <2>4
  <1>3. Nat \subseteq S
    <2> HIDE DEF S
    <2>1. QED
      BY <1>1, <1>2, SetInduction, Zenon
  <1>4. QED
    BY <1>3, LenProperties, Zenon

\* FlattenSeq of sequences over T is a sequence over T.
LEMMA FlattenType ==
    ASSUME NEW T, NEW seqs \in Seq(Seq(T))
    PROVE  FlattenSeq(seqs) \in Seq(T)
  <1>1. CASE Len(seqs) = 0
    <2>1. seqs = << >>
      BY <1>1, EmptySeq
    <2>2. QED
      BY <1>1, <2>1, EmptySeq DEF FlattenSeq
  <1>2. CASE Len(seqs) # 0
    <2> DEFINE L == Len(seqs)
               f == CHOOSE g : g = [n \in 1 .. L |-> IF n = 1 THEN seqs[n] ELSE g[n - 1] \o seqs[n]]
    <2>1. f = [n \in 1 .. L |-> IF n = 1 THEN seqs[n] ELSE f[n - 1] \o seqs[n]]
      BY FlattenStep, Zenon
    <2>2. FlattenSeq(seqs) = f[L]
      BY <1>2 DEF FlattenSeq
    <2> HIDE DEF f
    <2> DEFINE S == {m \in Nat : m \in 1 .. L => f[m] \in Seq(T)}
    <2>3. 0 \in S
      OBVIOUS
    <2>4. ASSUME NEW m \in Nat, m \in S PROVE m + 1 \in S
      <3> SUFFICES ASSUME m + 1 \in 1 .. L PROVE f[m + 1] \in Seq(T)
        OBVIOUS
      <3>1. seqs[m + 1] \in Seq(T)
        BY ElementOfSeq
      <3>2. CASE m = 0
        BY <3>1, <3>2, <2>1
      <3>3. CASE m # 0
        <4>1. m \in 1 .. L /\ f[m] \in Seq(T)
          BY <2>4, <3>3, LenProperties
        <4>2. f[m + 1] = f[m] \o seqs[m + 1]
          <5>1. \A n \in 1 .. L : f[n] = IF n = 1 THEN seqs[n] ELSE f[n - 1] \o seqs[n]
            BY <2>1, Zenon
          <5>2. m + 1 \in 1 .. L /\ m + 1 # 1 /\ (m + 1) - 1 = m
            BY <3>3
          <5>3. QED
            BY <5>1, <5>2, Zenon
        <4>3. QED
          BY <3>1, <4>1, <4>2, ConcatProperties
      <3>4. QED
        BY <3>2, <3>3
    <2>5. L \in S
      <3>1. L \in Nat
        BY LenProperties
      <3> HIDE DEF S, L
      <3>2. QED
        BY <2>3, <2>4, <3>1, SetInduction, Zenon
    <2>6. QED
      BY <2>2, <2>5, <1>2, LenProperties
  <1>3. QED
    BY <1>1, <1>2

-------------------------------------------------------------------------------
(* Positions of a sequence *)

Rank(places, x) == Cardinality({y \in places : y <= x})

\* Each position has its own rank, and each rank its position.
LEMMA RankIsPlace ==
    ASSUME NEW n \in Nat, NEW places \in SUBSET (1 .. n)
    PROVE  /\ IsFiniteSet(places) /\ Cardinality(places) \in Nat
           /\ \A x \in places : Rank(places, x) \in 1 .. Cardinality(places)
           /\ \A x, y \in places : x < y => Rank(places, x) < Rank(places, y)
           /\ \A k \in 1 .. Cardinality(places) : \E x \in places : Rank(places, x) = k
  <1>1. IsFiniteSet(places) /\ Cardinality(places) \in Nat
    <2>1. IsFiniteSet(1 .. n)
      BY FS_Interval
    <2>2. IsFiniteSet(places)
      BY <2>1, FS_Subset, Zenon
    <2>3. QED
      BY <2>2, FS_CardinalityType
  <1> DEFINE upTo(x) == {y \in places : y <= x}
  <1>2. \A x \in places : IsFiniteSet(upTo(x)) /\ upTo(x) \subseteq places /\ x \in upTo(x)
    <2>1. TAKE x \in places
    <2>2. upTo(x) \in SUBSET places /\ x \in upTo(x)
      OBVIOUS
    <2>3. QED
      BY <2>2, <1>1, FS_Subset
  <1>3. \A x \in places : Rank(places, x) = Cardinality(upTo(x))
    BY DEF Rank
  <1>4. ASSUME NEW x \in places PROVE Rank(places, x) \in 1 .. Cardinality(places)
    <2>1. IsFiniteSet(upTo(x)) /\ upTo(x) \in SUBSET places /\ upTo(x) # {}
      BY <1>2
    <2> HIDE DEF upTo
    <2>2. Cardinality(upTo(x)) <= Cardinality(places) /\ Cardinality(upTo(x)) \in Nat
      BY <2>1, <1>1, FS_Subset, FS_CardinalityType
    <2>3. Cardinality(upTo(x)) # 0
      BY <2>1, FS_EmptySet
    <2>4. QED
      BY <2>2, <2>3, <1>3, <1>1
  <1>5. ASSUME NEW x \in places, NEW y \in places, x < y PROVE Rank(places, x) < Rank(places, y)
    <2>0. x \in Int /\ y \in Int /\ \A z \in places : z \in Int
      OBVIOUS
    <2>1. upTo(x) \in SUBSET upTo(y)
      <3> SUFFICES ASSUME NEW z \in upTo(x) PROVE z \in upTo(y)
        BY Zenon
      <3>1. z \in places /\ z <= x
        OBVIOUS
      <3>2. z <= y
        BY <1>5, <2>0, <3>1
      <3>3. QED
        BY <3>1, <3>2
    <2>2. y \in upTo(y) /\ y \notin upTo(x)
      BY <1>5
    <2>3. IsFiniteSet(upTo(x)) /\ IsFiniteSet(upTo(y))
      BY <1>2
    <2> HIDE DEF upTo
    <2>4. Cardinality(upTo(x)) <= Cardinality(upTo(y)) /\ Cardinality(upTo(x)) # Cardinality(upTo(y))
      BY <2>1, <2>2, <2>3, FS_Subset
    <2>5. Cardinality(upTo(x)) \in Nat /\ Cardinality(upTo(y)) \in Nat
      BY <2>3, FS_CardinalityType
    <2>6. QED
      BY <2>4, <2>5, <1>3
  <1>6. ASSUME NEW k \in 1 .. Cardinality(places) PROVE \E x \in places : Rank(places, x) = k
    <2> DEFINE f == [x \in places |-> Rank(places, x)]
               ranks == 1 .. Cardinality(places)
    <2>1. f \in [places -> ranks]
      BY <1>4
    <2>2. \A x, y \in places : f[x] = f[y] => x = y
      <3>1. \A x, y \in places : x # y => x < y \/ y < x
        OBVIOUS
      <3>2. \A x \in places : Rank(places, x) \in Int
        BY <1>4
      <3>3. \A x, y \in places : Rank(places, x) = Rank(places, y) => x = y
        BY <3>1, <3>2, <1>5
      <3>4. QED
        BY <3>3
    <2>3. f \in Injection(places, ranks)
      BY <2>1, <2>2 DEF Injection, IsInjective
    <2>4. IsFiniteSet(ranks) /\ Cardinality(ranks) = Cardinality(places)
      BY <1>1, FS_Interval
    <2> HIDE DEF ranks, f
    <2>5. f \in Surjection(places, ranks)
      BY <2>3, <2>4, FS_Injection
    <2>6. \E x \in places : f[x] = k
      BY <2>5 DEF Surjection, ranks
    <2>7. QED
      BY <2>6 DEF f
  <1>7. QED
    BY <1>1, <1>4, <1>5, <1>6

\* What is kept of a sequence: nothing else, each position once, in order.
LEMMA KeptFacts ==
    ASSUME NEW T, NEW seq \in Seq(T), NEW places \in SUBSET DOMAIN seq
    PROVE  /\ Skills!Kept(seq, places) \in Seq(T)
           /\ Len(Skills!Kept(seq, places)) = Cardinality(places)
           /\ \A k \in 1 .. Len(Skills!Kept(seq, places)) :
                  \E x \in places : Rank(places, x) = k /\ Skills!Kept(seq, places)[k] = seq[x]
  <1> DEFINE kept == Skills!Kept(seq, places)
             place(k) == CHOOSE x \in places : Rank(places, x) = k
  <1>1. DOMAIN seq = 1 .. Len(seq) /\ Len(seq) \in Nat /\ \A x \in 1 .. Len(seq) : seq[x] \in T
    BY LenProperties
  <1>2. Cardinality(places) \in Nat /\ \A k \in 1 .. Cardinality(places) : \E x \in places : Rank(places, x) = k
    BY <1>1, RankIsPlace, Zenon
  <1>3. kept = [k \in 1 .. Cardinality(places) |-> seq[place(k)]]
    BY DEF Skills!Kept, Skills!Cardinality, Cardinality, Rank
  <1>4. \A k \in 1 .. Cardinality(places) : place(k) \in places /\ Rank(places, place(k)) = k
    BY <1>2
  <1> HIDE DEF place, kept
  <1>5. \A k \in 1 .. Cardinality(places) : seq[place(k)] \in T
    BY <1>1, <1>4
  <1>6. kept \in [1 .. Cardinality(places) -> T]
    BY <1>3, <1>5
  <1>7. kept \in Seq(T) /\ Len(kept) = Cardinality(places)
    BY <1>6, <1>2
  <1>8. \A k \in 1 .. Len(kept) : \E x \in places : Rank(places, x) = k /\ kept[k] = seq[x]
    BY <1>3, <1>4, <1>7
  <1>9. QED
    BY <1>7, <1>8 DEF kept

-------------------------------------------------------------------------------
(* The gap *)

\* The first spellings: one for each key.
LEMMA DistinctFacts ==
    ASSUME NEW T, NEW skills \in Seq(T)
    PROVE  /\ Skills!Distinct(skills) \in Seq(T)
           /\ \A k, l \in 1 .. Len(Skills!Distinct(skills)) :
                  SkillKey(Skills!Distinct(skills)[k]) = SkillKey(Skills!Distinct(skills)[l]) => k = l
  <1> DEFINE firsts == {x \in DOMAIN skills :
                           /\ SkillKey(skills[x]) # ""
                           /\ \A y \in 1 .. x - 1 : SkillKey(skills[y]) # SkillKey(skills[x])}
             d == Skills!Kept(skills, firsts)
  <1>1. Skills!Distinct(skills) = d
    BY DEF Skills!Distinct
  <1>2. firsts \in SUBSET DOMAIN skills /\ DOMAIN skills = 1 .. Len(skills) /\ Len(skills) \in Nat
    BY LenProperties, Zenon
  <1>3. \A x, y \in firsts : SkillKey(skills[x]) = SkillKey(skills[y]) => x = y
    <2> HIDE DEF firsts
    <2>1. firsts \subseteq Nat /\ \A x \in firsts : x >= 1
      BY <1>2
    <2>2. \A y \in firsts : \A x \in 1 .. y - 1 : SkillKey(skills[x]) # SkillKey(skills[y])
      BY Zenon DEF firsts
    <2>3. \A x, y \in firsts : x # y => x \in 1 .. y - 1 \/ y \in 1 .. x - 1
      BY <2>1
    <2>4. QED
      BY <2>2, <2>3
  <1> HIDE DEF firsts
  <1>4. /\ d \in Seq(T)
        /\ \A k \in 1 .. Len(d) : \E x \in firsts : Rank(firsts, x) = k /\ d[k] = skills[x]
    BY <1>2, KeptFacts
  <1> HIDE DEF d
  <1>5. ASSUME NEW k \in 1 .. Len(d), NEW l \in 1 .. Len(d), SkillKey(d[k]) = SkillKey(d[l])
        PROVE  k = l
    <2>1. PICK x \in firsts : Rank(firsts, x) = k /\ d[k] = skills[x]
      BY <1>4
    <2>2. PICK y \in firsts : Rank(firsts, y) = l /\ d[l] = skills[y]
      BY <1>4
    <2>3. x = y
      BY <2>1, <2>2, <1>3, <1>5
    <2>4. QED
      BY <2>1, <2>2, <2>3
  <1>6. QED
    BY <1>1, <1>4, <1>5

\* What is matched and what is missing: one spelling of each key, and the keys
\* of the missing are not in the resume.
OneOfEach(skills) ==
    \A k, l \in DOMAIN skills : SkillKey(skills[k]) = SkillKey(skills[l]) => k = l

NotAmong(skills, resume) ==
    \A k \in DOMAIN skills : \A x \in DOMAIN resume : SkillKey(skills[k]) # SkillKey(resume[x])

LEMMA GapFacts ==
    ASSUME NEW T, NEW resume, NEW wanted \in Seq(T)
    PROVE  /\ Skills!Gap(resume, wanted).matched \in Seq(T)
           /\ Skills!Gap(resume, wanted).missing \in Seq(T)
           /\ OneOfEach(Skills!Gap(resume, wanted).matched \o Skills!Gap(resume, wanted).missing)
           /\ NotAmong(Skills!Gap(resume, wanted).missing, resume)
  <1> DEFINE have == {SkillKey(resume[x]) : x \in DOMAIN resume}
             asked == Skills!Distinct(wanted)
             met == {x \in DOMAIN asked : SkillKey(asked[x]) \in have}
             unmet == DOMAIN asked \ met
             matched == Skills!Kept(asked, met)
             missing == Skills!Kept(asked, unmet)
             all == matched \o missing
  <1>1. Skills!Gap(resume, wanted) = [matched |-> matched, missing |-> missing]
    BY DEF Skills!Gap
  <1>2. /\ asked \in Seq(T) /\ DOMAIN asked = 1 .. Len(asked) /\ Len(asked) \in Nat
        /\ \A k, l \in 1 .. Len(asked) : SkillKey(asked[k]) = SkillKey(asked[l]) => k = l
    BY DistinctFacts, LenProperties
  <1>3. met \in SUBSET DOMAIN asked /\ unmet \in SUBSET DOMAIN asked /\ met \intersect unmet = {}
    OBVIOUS
  <1>4. \A x \in unmet : \A y \in DOMAIN resume : SkillKey(asked[x]) # SkillKey(resume[y])
    OBVIOUS
  <1> HIDE DEF asked, met, unmet
  <1>5. /\ matched \in Seq(T) /\ Len(matched) \in Nat /\ DOMAIN matched = 1 .. Len(matched)
        /\ \A k \in 1 .. Len(matched) : \E x \in met : Rank(met, x) = k /\ matched[k] = asked[x]
    BY <1>2, <1>3, KeptFacts, LenProperties
  <1>6. /\ missing \in Seq(T) /\ Len(missing) \in Nat /\ DOMAIN missing = 1 .. Len(missing)
        /\ \A k \in 1 .. Len(missing) : \E x \in unmet : Rank(unmet, x) = k /\ missing[k] = asked[x]
    BY <1>2, <1>3, KeptFacts, LenProperties
  <1> HIDE DEF matched, missing
  <1>7. /\ all \in Seq(T) /\ DOMAIN all = 1 .. Len(matched) + Len(missing)
        /\ \A k \in 1 .. Len(matched) + Len(missing) :
               all[k] = IF k <= Len(matched) THEN matched[k] ELSE missing[k - Len(matched)]
    BY <1>5, <1>6, ConcatProperties, LenProperties
  <1> HIDE DEF all
  <1> DEFINE Comes(k, x) == /\ x \in DOMAIN asked /\ all[k] = asked[x]
                            /\ k <= Len(matched) => x \in met /\ Rank(met, x) = k
                            /\ k > Len(matched) => x \in unmet /\ Rank(unmet, x) = k - Len(matched)
  <1>8. ASSUME NEW k \in DOMAIN all PROVE \E x : Comes(k, x)
    <2>1. k \in Nat /\ k >= 1
      BY <1>5, <1>6, <1>7
    <2>2. CASE k <= Len(matched)
      <3>1. k \in 1 .. Len(matched) /\ all[k] = matched[k]
        BY <2>1, <2>2, <1>5, <1>7
      <3>2. PICK x \in met : Rank(met, x) = k /\ matched[k] = asked[x]
        BY <3>1, <1>5
      <3>3. Comes(k, x)
        BY <3>1, <3>2, <1>3, <2>1, <2>2, <1>5
      <3>4. QED
        BY <3>3
    <2>3. CASE k > Len(matched)
      <3>1. k - Len(matched) \in 1 .. Len(missing) /\ all[k] = missing[k - Len(matched)]
        BY <2>1, <2>3, <1>5, <1>6, <1>7
      <3>2. PICK x \in unmet : Rank(unmet, x) = k - Len(matched) /\ missing[k - Len(matched)] = asked[x]
        BY <3>1, <1>6
      <3>3. Comes(k, x)
        BY <3>1, <3>2, <1>3, <2>1, <2>3, <1>5
      <3>4. QED
        BY <3>3
    <2>4. QED
      BY <2>1, <2>2, <2>3, <1>5
  <1>9. ASSUME NEW k \in DOMAIN all, NEW l \in DOMAIN all, SkillKey(all[k]) = SkillKey(all[l])
        PROVE  k = l
    <2>1. PICK x : Comes(k, x)
      BY <1>8
    <2>2. PICK y : Comes(l, y)
      BY <1>8
    <2>3. x = y
      BY <2>1, <2>2, <1>2, <1>9
    <2>4. k \in Nat /\ l \in Nat
      BY <1>5, <1>6, <1>7
    <2>5. k <= Len(matched) <=> l <= Len(matched)
      BY <2>1, <2>2, <2>3, <2>4, <1>3, <1>5
    <2>6. QED
      BY <2>1, <2>2, <2>3, <2>4, <2>5, <1>5
  <1>10. \A k \in DOMAIN missing : \A y \in DOMAIN resume : SkillKey(missing[k]) # SkillKey(resume[y])
    BY <1>4, <1>6
  <1>11. QED
    BY <1>1, <1>5, <1>6, <1>9, <1>10 DEF all, OneOfEach, NotAmong

-------------------------------------------------------------------------------

GapAnswer ==
    [page |-> IF input.version = Unknown THEN Unknown
              ELSE Skills!PageGap(input.version, input.profile, input.job, input.found),
     assistant |-> Skills!AssistantGap(input.version, input.profile, input.job),
     ground |-> Skills!Ground(input.ai, input.roles, input.facts)]

\* What is listed of a candidate is a list.
LEMMA ListedType ==
    ASSUME NEW g \in GapInput
    PROVE  /\ Skills!Listed(g.version, g.profile) \in Seq(Skill)
           /\ \A text : Skills!DetectSkills(text) \in Seq(Skill)
           /\ Skills!WantedBy(g.job.analysis, g.job) \in Seq(Skill)
  <1>1. ASSUME NEW text PROVE Skills!DetectSkills(text) \in Seq(Skill)
    <2>1. {x \in DOMAIN Catalog : Catalog[x] \in text} \in SUBSET DOMAIN Catalog
      OBVIOUS
    <2>2. QED
      BY <2>1, KeptFacts, GapAssumption DEF Skills!DetectSkills
  <1> DEFINE e == Skills!ExtractionOf(g.version)
  <1>2. /\ e.skills \in Seq(Skill) /\ e.technologies \in Seq(Skill)
        /\ e.projects \in Seq(Seq(Skill))
    <2>1. CASE g.version = Unknown \/ g.version.extraction = Unknown
      <3>1. e = [skills |-> << >>, technologies |-> << >>, projects |-> << >>]
        BY <2>1 DEF Skills!ExtractionOf, Skills!NoExtraction
      <3>2. QED
        BY <3>1, EmptySeq
    <2>2. CASE g.version # Unknown /\ g.version.extraction # Unknown
      <3>1. e = g.version.extraction
        BY <2>2 DEF Skills!ExtractionOf
      <3>2. e \in [skills : Seq(Skill), technologies : Seq(Skill), projects : Seq(Seq(Skill))]
        BY <2>2, <3>1, GapAssumption
      <3>3. QED
        BY <3>2
    <2>3. QED
      BY <2>1, <2>2
  <1>3. Skills!Listed(g.version, g.profile) \in Seq(Skill)
    <2>1. Skills!FlattenSeq(e.projects) = FlattenSeq(e.projects)
      BY DEF Skills!FlattenSeq, FlattenSeq
    <2>2. FlattenSeq(e.projects) \in Seq(Skill) /\ g.profile \in Seq(Skill)
      BY <1>2, FlattenType, GapAssumption
    <2>3. Skills!Listed(g.version, g.profile)
              = e.skills \o e.technologies \o FlattenSeq(e.projects) \o g.profile
      BY <2>1 DEF Skills!Listed
    <2> HIDE DEF e
    <2>4. e.skills \o e.technologies \in Seq(Skill)
      BY <1>2, ConcatProperties
    <2>5. e.skills \o e.technologies \o FlattenSeq(e.projects) \in Seq(Skill)
      BY <2>2, <2>4, ConcatProperties
    <2>6. QED
      BY <2>2, <2>3, <2>5, ConcatProperties
  <1>4. Skills!WantedBy(g.job.analysis, g.job) \in Seq(Skill)
    <2> DEFINE a == g.job.analysis
               named == IF a = Unknown THEN << >> ELSE a.required \o a.preferred \o a.stack
    <2>1. named \in Seq(Skill)
      <3>1. CASE a = Unknown
        BY <3>1, EmptySeq
      <3>2. CASE a # Unknown
        <4>1. a \in [required : Seq(Skill), preferred : Seq(Skill), stack : Seq(Skill)]
          BY <3>2, GapAssumption
        <4>2. a.required \in Seq(Skill) /\ a.preferred \in Seq(Skill) /\ a.stack \in Seq(Skill)
          BY <4>1
        <4> HIDE DEF a
        <4>3. a.required \o a.preferred \in Seq(Skill)
          BY <4>2, ConcatProperties
        <4>4. QED
          BY <3>2, <4>2, <4>3, ConcatProperties
      <3>3. QED
        BY <3>1, <3>2
    <2>2. Skills!WantedBy(a, g.job)
              = IF named = << >> THEN Skills!DetectSkills(g.job.text) ELSE named
      BY DEF Skills!WantedBy
    <2>3. QED
      BY <2>1, <2>2, <1>1
  <1>5. QED
    BY <1>1, <1>3, <1>4

\* A quote that is grounded without being a part of the facts shares a word with
\* them: of seven in ten words there is one.
LEMMA GroundedShares ==
    ASSUME NEW quote, NEW facts, Tokens(quote) \in Seq(ToSet(Tokens(quote))),
           Skills!IsGrounded(quote, facts)
    PROVE  Within(quote, facts) \/ ToSet(Tokens(quote)) \intersect ToSet(Tokens(facts)) # {}
  <1> DEFINE words == Tokens(quote)
             known == ToSet(Tokens(facts))
             shared == {x \in DOMAIN words : words[x] \in known}
  <1>1. SUFFICES ASSUME ~Within(quote, facts), ToSet(words) \intersect known = {} PROVE FALSE
    OBVIOUS
  <1>2. words # << >> /\ 10 * Cardinality(shared) >= 7 * Len(words)
    BY <1>1 DEF Skills!IsGrounded, Skills!Share, Skills!Cardinality, Cardinality,
                Skills!ToSet, ToSet
  <1>3. shared = {}
    BY <1>1, Zenon DEF ToSet
  <1>4. Cardinality(shared) = 0
    BY <1>3, FS_EmptySet, Zenon
  <1>5. Len(words) \in Nat \ {0}
    BY <1>2, EmptySeq
  <1> HIDE DEF shared, words
  <1>6. QED
    BY <1>2, <1>4, <1>5

LEMMA GapsAgreeOnAnswer ==
    ASSUME part = "gap", input \in GapInput, output = GapAnswer
    PROVE  GapsAgree
  <1> DEFINE lists == Skills!Listed(input.version, input.profile)
             text == IF input.version = Unknown THEN << >>
                     ELSE Skills!DetectSkills(input.version.text)
             wanted == Skills!WantedBy(input.job.analysis, input.job)
             gap == output.assistant
             all == gap.matched \o gap.missing
  <1>1. gap = Skills!Gap(lists \o text, wanted)
    BY DEF GapAnswer, Skills!AssistantGap
  <1>2. lists \in Seq(Skill) /\ text \in Seq(Skill) /\ wanted \in Seq(Skill)
    BY ListedType, EmptySeq
  <1>3. input.version # Unknown /\ input.job.current => output.page = gap
    <2> SUFFICES ASSUME input.version # Unknown, input.job.current PROVE output.page = gap
      OBVIOUS
    <2>1. output.page = Skills!PageGap(input.version, input.profile, input.job, input.found)
      BY DEF GapAnswer
    <2>2. QED
      BY <1>1, <2>1 DEF Skills!PageGap
  <1> HIDE DEF lists, text, wanted, gap
  <1>4. /\ gap.matched \in Seq(Skill) /\ gap.missing \in Seq(Skill)
        /\ OneOfEach(all) /\ NotAmong(gap.missing, lists \o text)
    BY <1>1, <1>2, GapFacts
  <1>5. IsInjective([n \in DOMAIN all |-> SkillKey(all[n])])
    BY <1>4, Zenon DEF IsInjective, OneOfEach
  <1>6. \A x \in DOMAIN lists : x \in DOMAIN (lists \o text) /\ (lists \o text)[x] = lists[x]
    BY <1>2, ConcatProperties, LenProperties
  <1>7. {SkillKey(s) : s \in ToSet(gap.missing)} \intersect {SkillKey(s) : s \in ToSet(lists)} = {}
    BY <1>4, <1>6 DEF ToSet, NotAmong
  <1>8. ASSUME NEW s \in ToSet(output.ground.kept.suggestions)
        PROVE  \/ Within(s.quote, input.facts)
               \/ ToSet(Tokens(s.quote)) \intersect ToSet(Tokens(input.facts)) # {}
    <2> DEFINE said == input.ai.suggestions
               places == {x \in DOMAIN said : Skills!KeptSuggestion(said[x], input.facts)}
    <2>1. output.ground.kept.suggestions = Skills!Kept(said, places)
      BY DEF GapAnswer, Skills!Ground
    <2>2. said \in Seq(ToSet(said)) /\ places \in SUBSET DOMAIN said
      BY GapAssumption
    <2>3. \A x \in places : Skills!KeptSuggestion(said[x], input.facts) /\ said[x] \in ToSet(said)
      BY DEF ToSet
    <2> HIDE DEF places, said
    <2> DEFINE kept == Skills!Kept(said, places)
    <2>4. /\ DOMAIN kept = 1 .. Len(kept)
          /\ \A k \in 1 .. Len(kept) : \E x \in places : Rank(places, x) = k /\ kept[k] = said[x]
      BY <2>2, KeptFacts, LenProperties
    <2> HIDE DEF kept
    <2>5. PICK k \in DOMAIN kept : s = kept[k]
      BY <1>8, <2>1 DEF ToSet, kept
    <2>6. PICK x \in places : s = said[x]
      BY <2>4, <2>5
    <2>7. Skills!IsGrounded(s.quote, input.facts) /\ s \in ToSet(said)
      BY <2>3, <2>6 DEF Skills!KeptSuggestion
    <2>8. Tokens(s.quote) \in Seq(ToSet(Tokens(s.quote)))
      BY <2>7, GapAssumption DEF said
    <2>9. QED
      BY <2>7, <2>8, GroundedShares
  <1>9. QED
    BY <1>3, <1>5, <1>7, <1>8, Zenon DEF GapsAgree, Answered, gap, lists

-------------------------------------------------------------------------------
(* Sums over finite sets *)

\* The partial sums that a fold computes.
First(s) == CHOOSE x \in s : TRUE

SumsOf(f, S, g) ==
    g = [s \in SUBSET S |-> IF s = {} THEN 0 ELSE f[First(s)] + g[s \ {First(s)}]]

\* They exist for every finite set of indices.
LEMMA SumStep ==
    ASSUME NEW S, IsFiniteSet(S), NEW f
    PROVE  \E g : SumsOf(f, S, g)
  <1> DEFINE Body(g, s) == IF s = {} THEN 0 ELSE f[First(s)] + g[s \ {First(s)}]
             Upto(m) == {s \in SUBSET S : Cardinality(s) <= m}
             N == {m \in Nat : \E g : g = [s \in Upto(m) |-> Body(g, s)]}
  <1>1. ASSUME NEW s \in SUBSET S
        PROVE  /\ Cardinality(s) \in Nat /\ (Cardinality(s) = 0 <=> s = {})
               /\ s # {} => /\ First(s) \in s /\ s \ {First(s)} \in SUBSET S
                            /\ Cardinality(s \ {First(s)}) = Cardinality(s) - 1
    <2>1. IsFiniteSet(s)
      BY FS_Subset
    <2>2. QED
      BY <2>1, FS_CardinalityType, FS_EmptySet, FS_RemoveElement, Zenon DEF First
  <1>2. 0 \in N
    <2>1. [s \in Upto(0) |-> 0] = [s \in Upto(0) |-> Body([t \in Upto(0) |-> 0], s)]
      <3>1. ASSUME NEW s \in Upto(0) PROVE s = {}
        <4>1. s \in SUBSET S /\ Cardinality(s) <= 0
          OBVIOUS
        <4>2. Cardinality(s) \in Nat /\ (Cardinality(s) = 0 <=> s = {})
          BY <1>1, <4>1, Zenon
        <4>3. QED
          BY <4>1, <4>2
      <3>2. QED
        BY <3>1
    <2>2. QED
      BY <2>1, Zenon
  <1>3. ASSUME NEW m \in Nat, m \in N PROVE m + 1 \in N
    <2>1. PICK g : g = [s \in Upto(m) |-> Body(g, s)]
      BY <1>3, Zenon
    <2> DEFINE h == [s \in Upto(m + 1) |-> Body(g, s)]
    <2>2. ASSUME NEW s \in Upto(m) PROVE s \in Upto(m + 1) /\ h[s] = g[s]
      <3>1. s \in Upto(m + 1)
        <4>1. s \in SUBSET S /\ Cardinality(s) <= m
          OBVIOUS
        <4>2. Cardinality(s) \in Nat
          BY <1>1, <4>1, Zenon
        <4>3. QED
          BY <4>1, <4>2
      <3>2. g[s] = Body(g, s)
        BY <2>1, Zenon
      <3>3. QED
        BY <3>1, <3>2
    <2>3. ASSUME NEW s \in Upto(m + 1) PROVE h[s] = Body(h, s)
      <3>1. CASE s = {}
        BY <3>1
      <3>2. CASE s # {}
        <4>1. s \ {First(s)} \in Upto(m)
          BY <1>1, <3>2
        <4>2. h[s \ {First(s)}] = g[s \ {First(s)}]
          BY <2>2, <4>1, Zenon
        <4>3. QED
          BY <4>2
      <3>3. QED
        BY <3>1, <3>2
    <2>4. h = [s \in Upto(m + 1) |-> Body(h, s)]
      <3>1. h = [s \in Upto(m + 1) |-> h[s]]
        OBVIOUS
      <3> HIDE DEF h, Body
      <3>2. QED
        BY <2>3, <3>1
    <2> HIDE DEF h, Body, Upto
    <2>5. QED
      BY <2>4
  <1>4. Cardinality(S) \in N
    <2>1. Cardinality(S) \in Nat
      BY FS_CardinalityType
    <2> HIDE DEF N
    <2>2. QED
      BY <1>2, <1>3, <2>1, SetInduction
  <1>5. Upto(Cardinality(S)) = SUBSET S
    BY <1>1, FS_Subset
  <1>6. PICK g : g = [s \in SUBSET S |-> Body(g, s)]
    BY <1>4, <1>5, Zenon
  <1>7. QED
    BY <1>6, Zenon DEF SumsOf

\* What holds of the empty set and of a set whenever it holds of the set without
\* its first element holds of every finite set.
LEMMA SubsetInduction ==
    ASSUME NEW S, IsFiniteSet(S), NEW Good, {} \in Good,
           \A s \in SUBSET S : s # {} /\ s \ {First(s)} \in Good => s \in Good
    PROVE  S \in Good
  <1> DEFINE N == {n \in Nat : \A s \in SUBSET S : Cardinality(s) = n => s \in Good}
  <1>1. ASSUME NEW s \in SUBSET S
        PROVE  IsFiniteSet(s) /\ Cardinality(s) \in Nat /\ (Cardinality(s) = 0 <=> s = {})
    BY FS_Subset, FS_CardinalityType, FS_EmptySet
  <1>2. 0 \in N
    BY <1>1
  <1>3. ASSUME NEW n \in Nat, n \in N PROVE n + 1 \in N
    <2> SUFFICES ASSUME NEW s \in SUBSET S, Cardinality(s) = n + 1 PROVE s \in Good
      OBVIOUS
    <2>1. s # {} /\ IsFiniteSet(s)
      BY <1>1
    <2>2. First(s) \in s
      BY <2>1 DEF First
    <2>3. Cardinality(s \ {First(s)}) = n
      <3>1. Cardinality(s \ {First(s)}) = Cardinality(s) - 1
        BY <2>1, <2>2, FS_RemoveElement, Zenon
      <3>2. QED
        BY <3>1
    <2>4. s \ {First(s)} \in Good
      BY <1>3, <2>3
    <2>5. QED
      BY <2>1, <2>4
  <1>4. Cardinality(S) \in Nat
    BY FS_CardinalityType
  <1> HIDE DEF N
  <1>5. Cardinality(S) \in N
    BY <1>2, <1>3, <1>4, SetInduction
  <1>6. QED
    BY <1>5 DEF N

\* A weighted sum lies between the least and the greatest value, times the weights.
LEMMA WeightedBetween ==
    ASSUME NEW S, IsFiniteSet(S), S # {}, NEW w \in [S -> Nat \ {0}], NEW v \in [S -> Nat],
           NEW low \in Nat, NEW high \in Nat, \A x \in S : low <= v[x] /\ v[x] <= high,
           NEW g, SumsOf([x \in S |-> w[x] * v[x]], S, g), NEW h, SumsOf(w, S, h)
    PROVE  /\ g[S] \in Nat /\ h[S] \in Nat \ {0}
           /\ h[S] * low <= g[S] /\ g[S] <= h[S] * high
  <1> DEFINE Good == {s \in SUBSET S : /\ g[s] \in Nat /\ h[s] \in Nat
                                       /\ s # {} => h[s] # 0
                                       /\ h[s] * low <= g[s] /\ g[s] <= h[s] * high}
  <1>1. /\ g[{}] = 0 /\ h[{}] = 0
        /\ \A s \in SUBSET S : s # {} =>
              /\ First(s) \in s
              /\ g[s] = w[First(s)] * v[First(s)] + g[s \ {First(s)}]
              /\ h[s] = w[First(s)] + h[s \ {First(s)}]
    BY Zenon DEF SumsOf, First
  <1>2. {} \in Good
    BY <1>1
  <1>3. ASSUME NEW s \in SUBSET S, s # {}, s \ {First(s)} \in Good PROVE s \in Good
    <2> DEFINE x == First(s)
               t == s \ {x}
    <2>1. x \in S /\ g[s] = w[x] * v[x] + g[t] /\ h[s] = w[x] + h[t]
      BY <1>1, <1>3
    <2>2. /\ g[t] \in Nat /\ h[t] \in Nat /\ h[t] * low <= g[t] /\ g[t] <= h[t] * high
      BY <1>3
    <2> HIDE DEF x, t
    <2>3. /\ w[x] \in Nat \ {0} /\ v[x] \in Nat /\ low <= v[x] /\ v[x] <= high
      BY <2>1
    <2>4. /\ w[x] * low <= w[x] * v[x] /\ w[x] * v[x] <= w[x] * high /\ w[x] * v[x] \in Nat
      BY <2>3
    <2>5. /\ (w[x] + h[t]) * low = w[x] * low + h[t] * low
          /\ (w[x] + h[t]) * high = w[x] * high + h[t] * high
          /\ w[x] * low \in Nat /\ w[x] * high \in Nat /\ h[t] * low \in Nat /\ h[t] * high \in Nat
      BY <2>2, <2>3
    <2>6. g[s] \in Nat /\ h[s] \in Nat /\ h[s] # 0
      BY <2>1, <2>2, <2>3, <2>4
    <2>7. h[s] * low <= g[s] /\ g[s] <= h[s] * high
      BY <2>1, <2>2, <2>4, <2>5
    <2>8. QED
      BY <2>6, <2>7
  <1> HIDE DEF Good
  <1>4. S \in Good
    BY <1>2, <1>3, SubsetInduction, Zenon
  <1>5. QED
    BY <1>4 DEF Good

\* A set of naturals with a bound has a least and a greatest element.
LEMMA MinMaxIs ==
    ASSUME NEW S, S # {}, NEW a \in Int, NEW b \in Int, S \subseteq a .. b
    PROVE  /\ Min(S) \in S /\ \A x \in S : Min(S) <= x
           /\ Max(S) \in S /\ \A x \in S : x <= Max(S)
  <1> DEFINE N == {n \in Nat : \A x \in S : x <= a + n => \E m \in S : \A y \in S : m <= y}
             M == {n \in Nat : \A x \in S : x >= b - n => \E m \in S : \A y \in S : m >= y}
  <1>0. PICK e \in S : e \in a .. b
    BY Zenon
  <1>1. 0 \in N /\ 0 \in M
    OBVIOUS
  <1>2. ASSUME NEW n \in Nat, n \in N PROVE n + 1 \in N
    <2> SUFFICES ASSUME NEW x \in S, x <= a + (n + 1)
                 PROVE  \E m \in S : \A y \in S : m <= y
      OBVIOUS
    <2>1. CASE \E y \in S : y <= a + n
      BY <1>2, <2>1
    <2>2. CASE ~\E y \in S : y <= a + n
      <3>1. \A y \in S : x <= y
        BY <2>2
      <3>2. QED
        BY <3>1
    <2>3. QED
      BY <2>1, <2>2
  <1>3. ASSUME NEW n \in Nat, n \in M PROVE n + 1 \in M
    <2> SUFFICES ASSUME NEW x \in S, x >= b - (n + 1)
                 PROVE  \E m \in S : \A y \in S : m >= y
      OBVIOUS
    <2>1. CASE \E y \in S : y >= b - n
      BY <1>3, <2>1
    <2>2. CASE ~\E y \in S : y >= b - n
      <3>1. \A y \in S : x >= y
        BY <2>2
      <3>2. QED
        BY <3>1
    <2>3. QED
      BY <2>1, <2>2
  <1>4. b - a \in Nat /\ e <= a + (b - a) /\ e >= b - (b - a)
    BY <1>0
  <1> HIDE DEF N, M
  <1>5. b - a \in N /\ b - a \in M
    BY <1>1, <1>2, <1>3, <1>4, SetInduction
  <1>6. (\E m \in S : \A y \in S : m <= y) /\ (\E m \in S : \A y \in S : m >= y)
    BY <1>0, <1>4, <1>5 DEF N, M
  <1>7. Min(S) \in S /\ (\A y \in S : Min(S) <= y)
    BY <1>6, Zenon DEF Min
  <1>8. Max(S) \in S /\ (\A y \in S : Max(S) >= y)
    BY <1>6, Zenon DEF Max
  <1>9. QED
    BY <1>7, <1>8

-------------------------------------------------------------------------------
(* The rounding of the rule scores *)

LEMMA DivIs ==
    ASSUME NEW n \in Nat, NEW d \in Nat \ {0}
    PROVE  /\ n \div d \in Nat /\ n % d \in 0 .. (d - 1)
           /\ n = d * (n \div d) + (n % d)
  <1>1. n \div d \in Int /\ n % d \in 0 .. (d - 1) /\ n = d * (n \div d) + (n % d)
    OBVIOUS
  <1>2. n \div d >= 0
    OBVIOUS
  <1>3. QED
    BY <1>1, <1>2

\* What RoundDiv returns: the nearest integer, of two the even one.
LEMMA RoundDivIs ==
    ASSUME NEW n \in Nat, NEW d \in Nat \ {0}
    PROVE  /\ Match!RoundDiv(n, d) \in Nat
           /\ 2 * (d * Match!RoundDiv(n, d)) - d <= 2 * n
           /\ 2 * n <= 2 * (d * Match!RoundDiv(n, d)) + d
           /\ (2 * n = 2 * (d * Match!RoundDiv(n, d)) + d \/ 2 * n = 2 * (d * Match!RoundDiv(n, d)) - d)
                  => Match!RoundDiv(n, d) % 2 = 0
  <1> DEFINE q == n \div d
             r == n % d
             x == Match!RoundDiv(n, d)
  <1>1. q \in Nat /\ r \in 0 .. (d - 1) /\ n = d * q + r
    BY DivIs, Zenon
  <1>2. x = IF 2 * r < d \/ (2 * r = d /\ q % 2 = 0) THEN q ELSE q + 1
    BY DEF Match!RoundDiv
  <1> HIDE DEF q, r, x
  <1>3. d * (q + 1) = d * q + d /\ d * q \in Nat
    BY <1>1
  <1>4. CASE 2 * r < d
    BY <1>1, <1>2, <1>3, <1>4 DEF x
  <1>5. CASE 2 * r > d
    <2>1. x = q + 1
      BY <1>1, <1>2, <1>5
    <2>2. QED
      BY <1>1, <2>1, <1>3, <1>5 DEF x
  <1>6. CASE 2 * r = d /\ q % 2 = 0
    <2>1. x = q
      BY <1>1, <1>2, <1>6
    <2>2. QED
      BY <1>1, <2>1, <1>3, <1>6 DEF x
  <1>7. CASE 2 * r = d /\ q % 2 # 0
    <2>1. x = q + 1
      BY <1>1, <1>2, <1>7
    <2>2. (q + 1) % 2 = 0
      BY <1>1, <1>7
    <2>3. QED
      BY <1>1, <2>1, <2>2, <1>3, <1>7 DEF x
  <1>8. QED
    BY <1>1, <1>4, <1>5, <1>6, <1>7

\* A larger quotient is not rounded to a smaller number.
LEMMA RoundDivMonotone ==
    ASSUME NEW n \in Nat, NEW d \in Nat \ {0}, NEW m \in Nat, NEW e \in Nat \ {0},
           n * e <= m * d
    PROVE  Match!RoundDiv(n, d) <= Match!RoundDiv(m, e)
  <1> DEFINE x == Match!RoundDiv(n, d)
             y == Match!RoundDiv(m, e)
  <1>1. /\ x \in Nat /\ 2 * (d * x) - d <= 2 * n
        /\ 2 * n = 2 * (d * x) - d => x % 2 = 0
    BY RoundDivIs
  <1>2. /\ y \in Nat /\ 2 * m <= 2 * (e * y) + e
        /\ 2 * m = 2 * (e * y) + e => y % 2 = 0
    BY RoundDivIs
  <1> HIDE DEF x, y
  <1>3. SUFFICES ASSUME x >= y + 1 PROVE FALSE
    BY <1>1, <1>2 DEF x, y
  <1> DEFINE h == 2 * y + 1
  <1>4. h \in Nat /\ d * h <= 2 * n /\ 2 * m <= e * h
    <2>1. d * h = 2 * (d * y) + d /\ e * h = 2 * (e * y) + e
      BY <1>2
    <2>2. d * x >= d * (y + 1) /\ d * (y + 1) = d * y + d
      BY <1>1, <1>2, <1>3
    <2>3. d * x \in Nat /\ d * y \in Nat /\ e * y \in Nat
      BY <1>1, <1>2
    <2>4. QED
      BY <1>1, <1>2, <2>1, <2>2, <2>3
  <1> HIDE DEF h
  <1>5. (d * h) * e <= (2 * n) * e /\ (2 * m) * d <= (e * h) * d
    BY <1>4
  <1>6. (2 * n) * e = 2 * (n * e) /\ (2 * m) * d = 2 * (m * d) /\ (d * h) * e = (e * h) * d
    BY <1>4
  <1>7. (d * h) * e = (2 * n) * e /\ (2 * m) * d = (e * h) * d
    BY <1>4, <1>5, <1>6
  <1>8. d * h = 2 * n /\ e * h = 2 * m
    BY <1>4, <1>7
  <1>9. 2 * n = 2 * (d * y) + d /\ 2 * m = 2 * (e * y) + e
    BY <1>2, <1>8 DEF h
  <1>10. y % 2 = 0
    BY <1>2, <1>9
  <1>11. x = y + 1
    <2>1. 2 * (d * x) - d <= 2 * (d * y) + d
      BY <1>1, <1>9
    <2>2. d * x <= d * (y + 1)
      BY <1>1, <1>2, <2>1
    <2>3. QED
      BY <1>1, <1>2, <1>3, <2>2
  <1>12. 2 * n = 2 * (d * x) - d
    BY <1>9, <1>11, <1>2
  <1>13. QED
    BY <1>1, <1>2, <1>10, <1>11, <1>12

\* Between two integers before, between them after.
LEMMA RoundDivBetween ==
    ASSUME NEW n \in Nat, NEW d \in Nat \ {0}, NEW low \in Nat, NEW high \in Nat,
           d * low <= n, n <= d * high
    PROVE  low <= Match!RoundDiv(n, d) /\ Match!RoundDiv(n, d) <= high
  <1> DEFINE x == Match!RoundDiv(n, d)
  <1>1. x \in Nat /\ 2 * (d * x) - d <= 2 * n /\ 2 * n <= 2 * (d * x) + d
    BY RoundDivIs
  <1> HIDE DEF x
  <1>2. low <= x
    <2>1. SUFFICES ASSUME low >= x + 1 PROVE FALSE
      BY <1>1
    <2>2. d * low >= d * (x + 1) /\ d * (x + 1) = d * x + d /\ d * x \in Nat /\ d * low \in Nat
      BY <1>1, <2>1
    <2>3. QED
      BY <1>1, <2>2
  <1>3. x <= high
    <2>1. SUFFICES ASSUME x >= high + 1 PROVE FALSE
      BY <1>1
    <2>2. d * x >= d * (high + 1) /\ d * (high + 1) = d * high + d /\ d * x \in Nat /\ d * high \in Nat
      BY <1>1, <2>1
    <2>3. QED
      BY <1>1, <2>2
  <1>4. QED
    BY <1>2, <1>3 DEF x

-------------------------------------------------------------------------------
(* The rule scores *)

USE DEF Match!Neutral, Match!Full

MatchMinMax == /\ \A S : Match!Min(S) = Min(S)
               /\ \A S : Match!Max(S) = Max(S)

LEMMA MatchMinMaxIs == MatchMinMax
  BY DEF MatchMinMax, Match!Min, Min, Match!Max, Max

LEMMA MatchCardinality == \A S : Match!Cardinality(S) = Cardinality(S)
  BY DEF Match!Cardinality, Cardinality

Thousand == 0 .. 1000

LEMMA ThousandIsInt == \A z \in Thousand : z \in Int
  BY DEF Thousand

LEMMA RoleBetween ==
    ASSUME NEW s \in ScoreInput
    PROVE  Match!RoleScore(s.profile, s.job) \in Thousand
  <1> DEFINE alike == {Likeness(r, t) : r \in s.profile.roles, t \in Match!Titles(s.job)}
  <1>1. CASE s.profile.roles = {}
    BY <1>1 DEF Match!RoleScore, Thousand
  <1>2. CASE s.profile.roles # {}
    <2>1. \A r \in s.profile.roles, t \in Match!Titles(s.job) : Likeness(r, t) \in 0 .. 100
      BY ScoreAssumption, Zenon
    <2>2. alike \subseteq 0 .. 100
      BY <2>1
    <2>3. s.job.title \in Match!Titles(s.job)
      BY DEF Match!Titles
    <2>4. alike # {}
      BY <1>2, <2>3, SMTT(20)
    <2>5. Match!RoleScore(s.profile, s.job) = 10 * Max(alike)
      BY <1>2, MatchMinMaxIs DEF MatchMinMax, Match!RoleScore
    <2> HIDE DEF alike
    <2>6. Max(alike) \in alike
      BY <2>2, <2>4, MinMaxIs, 0 \in Int, 100 \in Int
    <2>7. Max(alike) \in 0 .. 100
      BY <2>2, <2>6, Zenon
    <2>8. QED
      BY <2>5, <2>7 DEF Thousand
  <1>3. QED
    BY <1>1, <1>2

\* What is covered is at most what is asked.
LEMMA ShareBetween ==
    ASSUME NEW skills, NEW required, NEW preferred, IsFiniteSet(required), IsFiniteSet(preferred),
           required \union preferred # {}
    PROVE  Match!SkillShare(skills, required, preferred) \in Thousand
  <1> DEFINE other == preferred \ required
             a == Cardinality(required)
             b == Cardinality(other)
             c == Cardinality(required \intersect skills)
             d == Cardinality(other \intersect skills)
  <1>1. IsFiniteSet(other) /\ (a = 0 <=> required = {}) /\ (b = 0 <=> other = {})
    BY FS_Difference, FS_EmptySet, Zenon
  <1>2. a \in Nat /\ b \in Nat /\ c \in Nat /\ d \in Nat /\ c <= a /\ d <= b
    BY <1>1, FS_Intersection, FS_CardinalityType, Zenon
  <1>3. a # 0 \/ b # 0
    BY <1>1
  <1>4. Match!SkillShare(skills, required, preferred)
            = Match!RoundDiv(1000 * (2 * c + d), 2 * a + b)
    BY MatchCardinality DEF Match!SkillShare
  <1> HIDE DEF a, b, c, d
  <1>5. /\ 1000 * (2 * c + d) \in Nat /\ 2 * a + b \in Nat \ {0}
        /\ (2 * a + b) * 0 <= 1000 * (2 * c + d)
        /\ 1000 * (2 * c + d) <= (2 * a + b) * 1000
    BY <1>2, <1>3
  <1> DEFINE n == 1000 * (2 * c + d)
             m == 2 * a + b
  <1>6. n \in Nat /\ m \in Nat \ {0} /\ m * 0 <= n /\ n <= m * 1000
    BY <1>5
  <1>7. Match!SkillShare(skills, required, preferred) = Match!RoundDiv(n, m)
    BY <1>4
  <1> HIDE DEF n, m
  <1>8. Match!RoundDiv(n, m) \in Nat
    BY <1>6, RoundDivIs
  <1>9. Match!RoundDiv(n, m) <= 1000
    BY <1>6, RoundDivBetween
  <1>10. QED
    BY <1>7, <1>8, <1>9 DEF Thousand

\* One more skill, one more hit at most: the share does not fall.
LEMMA ShareGrows ==
    ASSUME NEW skills, NEW skill, NEW required, NEW preferred,
           IsFiniteSet(required), IsFiniteSet(preferred), required \union preferred # {}
    PROVE  Match!SkillShare(skills \union {skill}, required, preferred)
               >= Match!SkillShare(skills, required, preferred)
  <1> DEFINE other == preferred \ required
             more == skills \union {skill}
             total == 2 * Cardinality(required) + Cardinality(other)
             Covered(S) == 2 * Cardinality(required \intersect S) + Cardinality(other \intersect S)
  <1>1. IsFiniteSet(other) /\ (Cardinality(required) = 0 <=> required = {})
        /\ (Cardinality(other) = 0 <=> other = {})
    BY FS_Difference, FS_EmptySet, Zenon
  <1>2. \A S : Match!SkillShare(S, required, preferred)
                   = Match!RoundDiv(1000 * Covered(S), total)
    BY MatchCardinality DEF Match!SkillShare
  <1>3. total \in Nat \ {0}
    BY <1>1, FS_CardinalityType
  <1>4. /\ Cardinality(required \intersect skills) <= Cardinality(required \intersect more)
        /\ Cardinality(other \intersect skills) <= Cardinality(other \intersect more)
    <2>1. /\ IsFiniteSet(required \intersect more) /\ IsFiniteSet(other \intersect more)
      BY <1>1, FS_Intersection, Zenon
    <2>2. /\ required \intersect skills \in SUBSET (required \intersect more)
          /\ other \intersect skills \in SUBSET (other \intersect more)
      OBVIOUS
    <2> HIDE DEF more, other
    <2>3. QED
      BY <2>1, <2>2, FS_Subset
  <1>5. ASSUME NEW S
        PROVE  /\ Cardinality(required \intersect S) \in Nat
               /\ Cardinality(other \intersect S) \in Nat
    BY <1>1, FS_Intersection, FS_CardinalityType, Zenon
  <1>6. Covered(skills) \in Nat /\ Covered(more) \in Nat /\ Covered(skills) <= Covered(more)
    <2> HIDE DEF other, more
    <2>1. /\ Cardinality(required \intersect skills) \in Nat
          /\ Cardinality(other \intersect skills) \in Nat
      BY <1>5
    <2>2. /\ Cardinality(required \intersect more) \in Nat
          /\ Cardinality(other \intersect more) \in Nat
      BY <1>5
    <2>3. QED
      BY <1>4, <2>1, <2>2
  <1> HIDE DEF Covered, total, more
  <1>7. /\ 1000 * Covered(skills) \in Nat /\ 1000 * Covered(more) \in Nat
        /\ (1000 * Covered(skills)) * total <= (1000 * Covered(more)) * total
    BY <1>3, <1>6
  <1>8. Match!RoundDiv(1000 * Covered(skills), total) <= Match!RoundDiv(1000 * Covered(more), total)
    BY <1>3, <1>7, RoundDivMonotone
  <1>9. /\ Match!RoundDiv(1000 * Covered(skills), total) \in Nat
        /\ Match!RoundDiv(1000 * Covered(more), total) \in Nat
    BY <1>3, <1>7, RoundDivIs
  <1>10. QED
    BY <1>2, <1>8, <1>9 DEF more

\* At least three, and half of what the candidate knows.
LEMMA HalfIs ==
    ASSUME NEW k \in Nat
    PROVE  /\ Match!Max({3, k \div 2}) = IF k \div 2 > 3 THEN k \div 2 ELSE 3
           /\ Match!Max({3, k \div 2}) \in Nat \ {0}
  <1> DEFINE h == k \div 2
  <1>1. h \in Nat
    BY DivIs
  <1> HIDE DEF h
  <1>2. Max({3, h}) \in {3, h} /\ Max({3, h}) >= 3 /\ Max({3, h}) >= h
    <2>1. {3, h} \subseteq 0 .. 3 + h /\ {3, h} # {} /\ 0 \in Int /\ 3 + h \in Int
      BY <1>1
    <2>2. Max({3, h}) \in {3, h} /\ \A x \in {3, h} : x <= Max({3, h})
      BY <2>1, MinMaxIs, Zenon
    <2>3. QED
      BY <1>1, <2>2
  <1>3. Max({3, h}) = IF h > 3 THEN h ELSE 3
    BY <1>1, <1>2
  <1>4. QED
    BY <1>1, <1>3, MatchMinMaxIs DEF MatchMinMax, h

LEMMA CapIs ==
    ASSUME NEW x \in Nat
    PROVE  Match!Min({1000, x}) = IF x < 1000 THEN x ELSE 1000
  <1>1. {1000, x} \subseteq 0 .. 1000 + x /\ {1000, x} # {} /\ 0 \in Int /\ 1000 + x \in Int
    OBVIOUS
  <1>2. Min({1000, x}) \in {1000, x} /\ \A y \in {1000, x} : Min({1000, x}) <= y
    BY <1>1, MinMaxIs
  <1>3. Match!Min({1000, x}) = Min({1000, x})
    BY MatchMinMaxIs DEF MatchMinMax
  <1>4. QED
    BY <1>2, <1>3

\* The score without an analysis, of n hits among k skills.
HitScore(n, k) == Match!Min({1000, Match!RoundDiv(1000 * n, Match!Max({3, k \div 2}))})

LEMMA HitsBetween ==
    ASSUME NEW n \in Nat, NEW k \in Nat
    PROVE  HitScore(n, k) \in Thousand
  <1> DEFINE d == Match!Max({3, k \div 2})
             x == Match!RoundDiv(1000 * n, d)
  <1>1. d \in Nat \ {0}
    BY HalfIs
  <1> HIDE DEF d
  <1>2. x \in Nat
    BY <1>1, RoundDivIs
  <1> HIDE DEF x
  <1>3. Match!Min({1000, x}) \in 0 .. 1000
    <2>1. Match!Min({1000, x}) = IF x < 1000 THEN x ELSE 1000
      BY <1>2, CapIs
    <2>2. (IF x < 1000 THEN x ELSE 1000) \in 0 .. 1000
      BY <1>2
    <2>3. QED
      BY <2>1, <2>2
  <1>4. QED
    BY <1>3 DEF HitScore, Thousand, x, d

\* A skill more that hits raises the score, though it counts as known.
LEMMA HitsGrow ==
    ASSUME NEW n \in Nat, NEW k \in Nat
    PROVE  HitScore(n + 1, k + 1) >= HitScore(n, k)
  <1> DEFINE d == Match!Max({3, k \div 2})
             e == Match!Max({3, (k + 1) \div 2})
             x == Match!RoundDiv(1000 * n, d)
             y == Match!RoundDiv(1000 * (n + 1), e)
  <1>1. d \in Nat \ {0} /\ e \in Nat \ {0} /\ e <= d + 1
    <2>1. k + 1 \in Nat /\ (k + 1) \div 2 <= (k \div 2) + 1
      OBVIOUS
    <2>2. k \div 2 \in Nat /\ (k + 1) \div 2 \in Nat
      BY DivIs
    <2>3. d \in Nat \ {0} /\ d = IF k \div 2 > 3 THEN k \div 2 ELSE 3
      BY HalfIs
    <2>4. e \in Nat \ {0} /\ e = IF (k + 1) \div 2 > 3 THEN (k + 1) \div 2 ELSE 3
      BY <2>1, HalfIs
    <2> HIDE DEF d, e
    <2>5. QED
      BY <2>1, <2>2, <2>3, <2>4
  <1> HIDE DEF d, e
  <1>2. x \in Nat /\ y \in Nat /\ 1000 * n \in Nat /\ 1000 * (n + 1) \in Nat
    <2>1. 1000 * n \in Nat /\ 1000 * (n + 1) \in Nat
      OBVIOUS
    <2>2. x \in Nat
      BY <1>1, <2>1, RoundDivIs
    <2>3. y \in Nat
      BY <1>1, <2>1, RoundDivIs
    <2>4. QED
      BY <2>1, <2>2, <2>3
  <1>3. x <= y \/ y >= 1000
    <2>1. CASE n <= d
      <3>1. n * e <= n * (d + 1) /\ n * (d + 1) = n * d + n /\ (n + 1) * d = n * d + d
        BY <1>1
      <3>2. n * e <= (n + 1) * d
        <4>1. n * e \in Nat /\ n * d \in Nat
          BY <1>1
        <4> DEFINE p == n * e
                   q == n * d
                   r == (n + 1) * d
                   t == n * (d + 1)
        <4>2. p \in Nat /\ q \in Nat /\ p <= t /\ t = q + n /\ r = q + d
          BY <3>1, <4>1
        <4> HIDE DEF p, q, r, t
        <4>3. p <= r
          BY <4>2, <2>1, <1>1
        <4>4. QED
          BY <4>3 DEF p, r
      <3>3. (1000 * n) * e = 1000 * (n * e) /\ (1000 * (n + 1)) * d = 1000 * ((n + 1) * d)
        BY <1>1
      <3>4. (1000 * n) * e <= (1000 * (n + 1)) * d
        <4>1. n * e \in Nat /\ (n + 1) * d \in Nat
          BY <1>1
        <4>2. 1000 * (n * e) <= 1000 * ((n + 1) * d)
          BY <3>2, <4>1
        <4>3. QED
          BY <3>3, <4>2
      <3>5. QED
        BY <1>1, <1>2, <3>4, RoundDivMonotone
    <2>2. CASE n > d
      <3>1. e <= n + 1
        BY <1>1, <2>2
      <3>2. e * 1000 <= 1000 * (n + 1) /\ 1000 * (n + 1) <= e * (1000 * (n + 1))
        <4>1. e * 1000 <= (n + 1) * 1000
          BY <1>1, <3>1
        <4>2. \A w \in Nat : w <= e * w
          BY <1>1
        <4>3. QED
          BY <1>2, <4>1, <4>2
      <3>3. 1000 <= y
        BY <1>1, <1>2, <3>2, RoundDivBetween
      <3>4. QED
        BY <1>2, <3>3
    <2>3. QED
      BY <1>1, <2>1, <2>2
  <1> HIDE DEF x, y
  <1>4. Match!Min({1000, y}) >= Match!Min({1000, x})
    <2>1. /\ Match!Min({1000, x}) = IF x < 1000 THEN x ELSE 1000
          /\ Match!Min({1000, y}) = IF y < 1000 THEN y ELSE 1000
      BY <1>2, CapIs
    <2>2. QED
      BY <1>2, <1>3, <2>1
  <1>5. QED
    BY <1>4 DEF HitScore, x, y, d, e

TextSkills(job) == job.named \union (IF job.described = Unknown THEN {} ELSE job.described)

ByAnalysis(job) == Match!Analysed(job) /\ job.analysis.required \union job.analysis.preferred # {}

\* Without an analysis the hits count, with one the share.
LEMMA SkillScoreIs ==
    ASSUME NEW p, NEW job, p.skills # {}
    PROVE  Match!SkillScore(p, job) =
               IF ByAnalysis(job)
               THEN Match!SkillShare(p.skills, job.analysis.required, job.analysis.preferred)
               ELSE HitScore(Cardinality(p.skills \intersect TextSkills(job)), Cardinality(p.skills))
  <1>1. Match!Cardinality(p.skills) = Cardinality(p.skills)
    BY MatchCardinality
  <1>2. Match!Cardinality(p.skills \intersect TextSkills(job))
            = Cardinality(p.skills \intersect TextSkills(job))
    BY MatchCardinality
  <1>3. Match!SkillScore(p, job) =
               IF ByAnalysis(job)
               THEN Match!SkillShare(p.skills, job.analysis.required, job.analysis.preferred)
               ELSE HitScore(Match!Cardinality(p.skills \intersect TextSkills(job)),
                             Match!Cardinality(p.skills))
    BY DEF Match!SkillScore, HitScore, ByAnalysis, TextSkills
  <1>4. QED
    BY <1>1, <1>2, <1>3

LEMMA SkillBetween ==
    ASSUME NEW s \in ScoreInput
    PROVE  Match!SkillScore(s.profile, s.job) \in Thousand
  <1>1. IsFiniteSet(s.profile.skills)
    BY ScoreAssumption
  <1>2. CASE s.profile.skills = {}
    BY <1>2 DEF Match!SkillScore, Thousand
  <1>3. CASE s.profile.skills # {} /\ ByAnalysis(s.job)
    <2>1. IsFiniteSet(s.job.analysis.required) /\ IsFiniteSet(s.job.analysis.preferred)
      BY <1>3, ScoreAssumption DEF ByAnalysis, Match!Analysed
    <2>2. Match!SkillScore(s.profile, s.job)
              = Match!SkillShare(s.profile.skills, s.job.analysis.required, s.job.analysis.preferred)
      BY <1>3, SkillScoreIs, Zenon
    <2>3. QED
      BY <1>3, <2>1, <2>2, ShareBetween DEF ByAnalysis
  <1>4. CASE s.profile.skills # {} /\ ~ByAnalysis(s.job)
    <2> DEFINE n == Cardinality(s.profile.skills \intersect TextSkills(s.job))
               k == Cardinality(s.profile.skills)
    <2>1. n \in Nat /\ k \in Nat
      BY <1>1, FS_Intersection, FS_CardinalityType, Zenon
    <2>2. Match!SkillScore(s.profile, s.job) = HitScore(n, k)
      BY <1>4, SkillScoreIs
    <2> HIDE DEF n, k
    <2>3. QED
      BY <2>1, <2>2, HitsBetween
  <1>5. QED
    BY <1>2, <1>3, <1>4

\* What the job names: FairScores calls it asked.
Asked(job) ==
    IF ByAnalysis(job) THEN job.analysis.required \union job.analysis.preferred ELSE TextSkills(job)

LEMMA SkillGrows ==
    ASSUME NEW s \in ScoreInput, s.profile.skills # {}, NEW skill \in Asked(s.job)
    PROVE  Match!SkillScore([s.profile EXCEPT !.skills = @ \union {skill}], s.job)
               >= Match!SkillScore(s.profile, s.job)
  <1> DEFINE p == s.profile
             job == s.job
             more == p.skills \union {skill}
             q == [p EXCEPT !.skills = @ \union {skill}]
  <1>1. IsFiniteSet(p.skills) /\ "skills" \in DOMAIN p
    BY ScoreAssumption
  <1>2. q.skills = more /\ more # {}
    BY <1>1
  <1>3. p.skills # {} /\ skill \in Asked(job)
    OBVIOUS
  <1>4. ByAnalysis(job) => /\ IsFiniteSet(job.analysis.required)
                           /\ IsFiniteSet(job.analysis.preferred)
    BY ScoreAssumption DEF ByAnalysis, Match!Analysed
  <1>5. SUFFICES Match!SkillScore(q, job) >= Match!SkillScore(p, job)
    OBVIOUS
  <1> HIDE DEF q, p, job
  <1>6. CASE ByAnalysis(job)
    <2> DEFINE required == job.analysis.required
               preferred == job.analysis.preferred
    <2>1. required \union preferred # {} /\ IsFiniteSet(required) /\ IsFiniteSet(preferred)
      BY <1>4, <1>6 DEF ByAnalysis
    <2>2. Match!SkillScore(p, job) = Match!SkillShare(p.skills, required, preferred)
      BY <1>3, <1>6, SkillScoreIs, Zenon
    <2>3. Match!SkillScore(q, job) = Match!SkillShare(more, required, preferred)
      BY <1>2, <1>6, SkillScoreIs, Zenon
    <2> HIDE DEF required, preferred
    <2>4. Match!SkillShare(more, required, preferred)
              >= Match!SkillShare(p.skills, required, preferred)
      BY <2>1, ShareGrows, Zenon
    <2>5. QED
      BY <2>2, <2>3, <2>4
  <1>7. CASE ~ByAnalysis(job)
    <2> DEFINE text == TextSkills(job)
               n == Cardinality(p.skills \intersect text)
               k == Cardinality(p.skills)
    <2>1. skill \in text
      BY <1>3, <1>7 DEF Asked
    <2>2. n \in Nat /\ k \in Nat /\ IsFiniteSet(p.skills \intersect text)
      BY <1>1, FS_Intersection, FS_CardinalityType, Zenon
    <2>3. Match!SkillScore(p, job) = HitScore(n, k)
      BY <1>3, <1>7, SkillScoreIs
    <2>4. Match!SkillScore(q, job) = HitScore(Cardinality(more \intersect text), Cardinality(more))
      BY <1>2, <1>7, SkillScoreIs, Zenon
    <2> HIDE DEF text
    <2>5. CASE skill \in p.skills
      <3>1. more = p.skills
        BY <2>5
      <3>2. Match!SkillScore(q, job) = HitScore(n, k)
        BY <2>4, <3>1
      <3>3. HitScore(n, k) \in Thousand
        BY <2>2, HitsBetween
      <3>4. QED
        BY <2>3, <3>2, <3>3 DEF Thousand
    <2>6. CASE skill \notin p.skills
      <3>1. more \intersect text = (p.skills \intersect text) \union {skill}
        BY <2>1
      <3>2. Cardinality(more) = k + 1 /\ Cardinality(more \intersect text) = n + 1
        BY <1>1, <2>2, <2>6, <3>1, FS_AddElement, Zenon
      <3>3. HitScore(n + 1, k + 1) >= HitScore(n, k)
        BY <2>2, HitsGrow
      <3>4. QED
        BY <2>3, <2>4, <3>2, <3>3
    <2>7. QED
      BY <2>5, <2>6
  <1>8. QED
    BY <1>6, <1>7

Amounts == Nat \union {Unknown}

LEMMA ScoreAmounts ==
    ASSUME NEW s \in ScoreInput
    PROVE  /\ Unknown \notin Int
           /\ s.profile.years \in Amounts /\ s.profile.salary \in Amounts /\ s.profile.floor \in Amounts
           /\ s.job.years.min \in Amounts /\ s.job.years.max \in Amounts /\ s.job.pay \in Amounts
           /\ s.job.analysis # Unknown => /\ s.job.analysis.years.min \in Amounts
                                          /\ s.job.analysis.years.max \in Amounts
                                          /\ s.job.analysis.pay \in Amounts
           /\ {"pay", "currency", "analysis"} \subseteq DOMAIN s.job
  BY ScoreAssumption DEF Amounts

LEMMA AtLeastIs ==
    ASSUME NEW x \in Int, x <= 1000
    PROVE  Match!AtLeast(0, x) \in Thousand /\ Match!AtLeast(600, x) \in Thousand
  BY DEF Match!AtLeast, Thousand

LEMMA ExperienceBetween ==
    ASSUME NEW s \in ScoreInput
    PROVE  Match!ExperienceScore(s.profile, s.job) \in Thousand
  <1> DEFINE low == Match!Bound(s.job, "min")
             high == Match!Bound(s.job, "max")
             years == s.profile.years
  <1>1. low \in Amounts /\ high \in Amounts /\ years \in Amounts /\ Unknown \notin Int
    BY ScoreAmounts DEF Match!Bound, Match!Analysed, Amounts
  <1>2. Match!ExperienceScore(s.profile, s.job) =
            IF years = Unknown \/ (low = Unknown /\ high = Unknown) THEN 500
            ELSE IF low # Unknown /\ years < low
            THEN Match!AtLeast(0, 1000 - 250 * (low - years))
            ELSE IF high # Unknown /\ years > high
            THEN Match!AtLeast(600, 1000 - 100 * (years - high))
            ELSE 1000
    BY DEF Match!ExperienceScore
  <1> DEFINE under == 1000 - 250 * (low - years)
             over == 1000 - 100 * (years - high)
  <1>3. /\ years \in Nat /\ low \in Nat /\ years < low => under \in Int /\ under <= 1000
        /\ years \in Nat /\ high \in Nat /\ years > high => over \in Int /\ over <= 1000
    <2> HIDE DEF low, high, years
    <2>1. QED
      OBVIOUS
  <1> HIDE DEF low, high, years, under, over
  <1>4. /\ years # Unknown => years \in Nat
        /\ low # Unknown => low \in Nat
        /\ high # Unknown => high \in Nat
    BY <1>1 DEF Amounts
  <1>5. /\ under \in Int /\ under <= 1000 => Match!AtLeast(0, under) \in Thousand
        /\ over \in Int /\ over <= 1000 => Match!AtLeast(600, over) \in Thousand
        /\ 500 \in Thousand /\ 1000 \in Thousand
    <2>1. 500 \in Thousand /\ 1000 \in Thousand
      BY DEF Thousand
    <2>2. QED
      BY <2>1, AtLeastIs
  <1>6. Match!ExperienceScore(s.profile, s.job) =
            IF years = Unknown \/ (low = Unknown /\ high = Unknown) THEN 500
            ELSE IF low # Unknown /\ years < low THEN Match!AtLeast(0, under)
            ELSE IF high # Unknown /\ years > high THEN Match!AtLeast(600, over)
            ELSE 1000
    BY <1>2 DEF under, over
  <1>7. QED
    BY <1>3, <1>4, <1>5, <1>6

LEMMA SalaryBetween ==
    ASSUME NEW s \in ScoreInput
    PROVE  Match!SalaryScore(s.profile, s.job) \in Thousand
  BY DEF Match!SalaryScore, Thousand

\* More pay, stated, is not worse.
LEMMA SalaryGrows ==
    ASSUME NEW s \in ScoreInput, s.job.pay # Unknown
    PROVE  Match!SalaryScore(s.profile, [s.job EXCEPT !.pay = @ + 20])
               >= Match!SalaryScore(s.profile, s.job)
  <1> DEFINE job == s.job
             more == [job EXCEPT !.pay = @ + 20]
             p == s.profile
             PayScore(pay) ==
                IF pay = Unknown \/ (job.currency # Unknown /\ job.currency # p.currency) THEN 500
                ELSE IF p.salary # Unknown /\ pay >= p.salary THEN 1000
                ELSE IF p.floor # Unknown THEN (IF pay >= p.floor THEN 700 ELSE 200)
                ELSE IF p.salary # Unknown THEN 700 ELSE 500
  <1>1. /\ job.pay \in Nat /\ p.salary \in Amounts /\ p.floor \in Amounts /\ Unknown \notin Int
        /\ "pay" \in DOMAIN job
    BY ScoreAmounts DEF Amounts
  <1>2. more.pay = job.pay + 20 /\ more.currency = job.currency /\ more.analysis = job.analysis
        /\ more.pay \in Nat
    BY <1>1
  <1>3. SUFFICES Match!SalaryScore(p, more) >= Match!SalaryScore(p, job)
    OBVIOUS
  <1> HIDE DEF more, job, p
  <1>4. Match!SalaryScore(p, job) = PayScore(job.pay)
    BY <1>1 DEF Match!SalaryScore
  <1>5. Match!SalaryScore(p, more) = PayScore(more.pay)
    BY <1>1, <1>2 DEF Match!SalaryScore
  <1>6. PayScore(job.pay + 20) >= PayScore(job.pay)
    BY <1>1 DEF Amounts
  <1> HIDE DEF PayScore
  <1>7. QED
    BY <1>2, <1>4, <1>5, <1>6

\* The entry that decides is one of the list.
LEMMA EntryIs ==
    ASSUME NEW s \in ScoreInput, Match!EntriesFor(s.job, s.watchlist) # {}
    PROVE  Match!Min(Match!EntriesFor(s.job, s.watchlist)) \in DOMAIN s.watchlist
  <1> DEFINE E == Match!EntriesFor(s.job, s.watchlist)
  <1>1. s.watchlist \in Seq(ToSet(s.watchlist))
    BY ScoreAssumption
  <1>2. E \subseteq DOMAIN s.watchlist
    BY DEF Match!EntriesFor
  <1>3. DOMAIN s.watchlist = 1 .. Len(s.watchlist) /\ Len(s.watchlist) \in Nat
    BY <1>1
  <1>4. E \subseteq 1 .. Len(s.watchlist) /\ E # {} /\ 1 \in Int /\ Len(s.watchlist) \in Int
    BY <1>2, <1>3
  <1> HIDE DEF E
  <1>5. Min(E) \in E
    BY <1>4, MinMaxIs, Zenon
  <1>6. QED
    BY <1>2, <1>5, MatchMinMaxIs DEF MatchMinMax, E

\* What an entry gives, by its priority and whether it asks for the title.
EntryScore(job, entry, base) ==
    IF Match!TitleMatches(job, entry.excluded) THEN 0
    ELSE IF entry.preferred = {} THEN base
    ELSE IF Match!TitleMatches(job, entry.preferred) THEN Match!Min({1000, base + 100})
    ELSE base - 150

LEMMA EntryScoreGrows ==
    ASSUME NEW job, NEW entry, NEW base \in {600, 750, 900}
    PROVE  /\ EntryScore(job, entry, base) \in Thousand
           /\ EntryScore(job, entry, base) <= EntryScore(job, entry, 900)
  <1>1. base + 100 \in Nat /\ 900 + 100 \in Nat
    OBVIOUS
  <1>2. Match!Min({1000, base + 100}) = IF base + 100 < 1000 THEN base + 100 ELSE 1000
    BY <1>1, CapIs
  <1>3. Match!Min({1000, 900 + 100}) = IF 900 + 100 < 1000 THEN 900 + 100 ELSE 1000
    BY <1>1, CapIs
  <1>4. QED
    BY <1>2, <1>3 DEF EntryScore, Thousand

LEMMA WatchlistBetween ==
    ASSUME NEW s \in ScoreInput, Match!EntriesFor(s.job, s.watchlist) # {}
    PROVE  Match!WatchlistScore(s.job, s.watchlist) \in Thousand
  <1> DEFINE entry == s.watchlist[Match!Min(Match!EntriesFor(s.job, s.watchlist))]
  <1>1. Match!WatchlistScore(s.job, s.watchlist)
            = EntryScore(s.job, entry, Match!Base(entry.priority))
    BY DEF Match!WatchlistScore, EntryScore
  <1>2. Match!Base(entry.priority) \in {600, 750, 900}
    BY DEF Match!Base
  <1> HIDE DEF entry
  <1>3. QED
    BY <1>1, <1>2, EntryScoreGrows

\* What FairScores calls HigherUp.
Raised(watchlist) == [n \in DOMAIN watchlist |-> [watchlist[n] EXCEPT !.priority = "HIGH"]]

\* A higher priority, everywhere, gives the same entry a higher base.
LEMMA WatchlistGrows ==
    ASSUME NEW s \in ScoreInput, Match!EntriesFor(s.job, s.watchlist) # {}
    PROVE  Match!WatchlistScore(s.job, Raised(s.watchlist))
               >= Match!WatchlistScore(s.job, s.watchlist)
  <1> DEFINE w == s.watchlist
             job == s.job
             n == Match!Min(Match!EntriesFor(job, w))
             base == Match!Base(w[n].priority)
  <1>1. ASSUME NEW k \in DOMAIN w
        PROVE  DOMAIN w[k] = {"id", "name", "priority", "preferred", "excluded"}
    <2>1. w[k] \in ToSet(w)
      BY DEF ToSet
    <2>2. QED
      BY <2>1, ScoreAssumption
  <1>2. DOMAIN Raised(w) = DOMAIN w
    BY DEF Raised
  <1>3. ASSUME NEW k \in DOMAIN w
        PROVE  /\ Raised(w)[k].id = w[k].id /\ Raised(w)[k].name = w[k].name
               /\ Raised(w)[k].preferred = w[k].preferred /\ Raised(w)[k].excluded = w[k].excluded
               /\ Raised(w)[k].priority = "HIGH"
    BY <1>1 DEF Raised
  <1>4. Match!EntriesFor(job, Raised(w)) = Match!EntriesFor(job, w)
    <2> DEFINE ById(l) == {k \in DOMAIN l : job.companyId # Unknown /\ l[k].id = job.companyId}
               ByName(l) == {k \in DOMAIN l : l[k].name = job.company}
    <2>1. ById(Raised(w)) = ById(w) /\ ByName(Raised(w)) = ByName(w)
      BY <1>2, <1>3
    <2>2. /\ Match!EntriesFor(job, Raised(w)) = IF ById(Raised(w)) # {} THEN ById(Raised(w))
                                                ELSE ByName(Raised(w))
          /\ Match!EntriesFor(job, w) = IF ById(w) # {} THEN ById(w) ELSE ByName(w)
      BY DEF Match!EntriesFor
    <2> HIDE DEF ById, ByName
    <2>3. QED
      BY <2>1, <2>2
  <1>5. n \in DOMAIN w
    BY EntryIs
  <1>6. Match!EntriesFor(job, w) # {}
    OBVIOUS
  <1> HIDE DEF w, job
  <1>7. Match!WatchlistScore(job, w) = EntryScore(job, w[n], base)
    BY <1>6 DEF Match!WatchlistScore, EntryScore
  <1>8. Match!WatchlistScore(job, Raised(w)) = EntryScore(job, Raised(w)[n], Match!Base("HIGH"))
    <2> DEFINE more == Raised(w)
               m == Match!Min(Match!EntriesFor(job, more))
    <2>1. Match!EntriesFor(job, more) # {} /\ m = n
      BY <1>4, <1>6
    <2>2. more[n].priority = "HIGH"
      BY <1>3, <1>5
    <2> HIDE DEF more, n
    <2>3. Match!WatchlistScore(job, more) = EntryScore(job, more[m], Match!Base(more[m].priority))
      BY <2>1 DEF Match!WatchlistScore, EntryScore
    <2> HIDE DEF m
    <2>4. Match!WatchlistScore(job, more) = EntryScore(job, more[n], Match!Base("HIGH"))
      BY <2>1, <2>2, <2>3
    <2>5. QED
      BY <2>4 DEF more, n
  <1>9. Match!Base("HIGH") = 900 /\ base \in {600, 750, 900}
    BY DEF Match!Base
  <1>10. EntryScore(job, Raised(w)[n], 900) = EntryScore(job, w[n], 900)
    BY <1>3, <1>5 DEF EntryScore
  <1> HIDE DEF n, base
  <1>11. /\ EntryScore(job, w[n], base) <= EntryScore(job, w[n], 900)
         /\ EntryScore(job, w[n], base) \in Thousand
    BY <1>9, EntryScoreGrows
  <1>12. EntryScore(job, w[n], 900) \in Thousand
    BY EntryScoreGrows
  <1>13. EntryScore(job, w[n], base) \in Int /\ EntryScore(job, w[n], 900) \in Int
    BY <1>11, <1>12, ThousandIsInt
  <1>14. /\ Match!WatchlistScore(job, Raised(w)) = EntryScore(job, w[n], 900)
         /\ Match!WatchlistScore(job, w) = EntryScore(job, w[n], base)
    BY <1>7, <1>8, <1>9, <1>10
  <1>15. Match!WatchlistScore(job, Raised(w)) >= Match!WatchlistScore(job, w)
    BY <1>11, <1>13, <1>14
  <1>16. QED
    BY <1>15 DEF w, job

\* Each score is between none and full, that of a company off the list unknown.
LEMMA ScoresBetween ==
    ASSUME NEW s \in ScoreInput, NEW c \in Match!Component
    PROVE  LET scores == Match!Scores(s.profile, s.job, s.watchlist)
           IN  scores[c] \in Thousand \/ (c = "watchlist" /\ scores[c] = Unknown)
  <1>1. /\ Match!LocationScore(s.profile, s.job) \in Thousand
        /\ Match!WorkModeScore(s.profile, s.job) \in Thousand
        /\ Match!IndustryScore(s.profile, s.job) \in Thousand
        /\ Match!CompanyScore(s.profile, s.job) \in Thousand
    BY DEF Match!LocationScore, Match!WorkModeScore, Match!IndustryScore, Match!CompanyScore, Thousand
  <1>2. Match!WatchlistScore(s.job, s.watchlist) \in Thousand \union {Unknown}
    <2>1. CASE Match!EntriesFor(s.job, s.watchlist) = {}
      BY <2>1 DEF Match!WatchlistScore
    <2>2. CASE Match!EntriesFor(s.job, s.watchlist) # {}
      BY <2>2, WatchlistBetween
    <2>3. QED
      BY <2>1, <2>2
  <1>3. QED
    BY <1>1, <1>2, RoleBetween, SkillBetween, ExperienceBetween, SalaryBetween
       DEF Match!Scores, Match!Component

\* A score that is not there counts as neutral.
Valued(scores, c) == IF scores[c] = Unknown THEN 500 ELSE scores[c]

LEMMA ComponentsFinite == IsFiniteSet(Match!Component)
  <1>1. Match!Component = {"role", "skill", "experience", "location"} \union
                          {"salary", "workMode", "industry", "company", "watchlist"}
    BY DEF Match!Component
  <1>2. IsFiniteSet({"role"}) /\ IsFiniteSet({"skill"})  /\ IsFiniteSet({"experience"})
        /\ IsFiniteSet({"location"}) /\ IsFiniteSet({"salary"}) /\ IsFiniteSet({"workMode"})
        /\ IsFiniteSet({"industry"}) /\ IsFiniteSet({"company"}) /\ IsFiniteSet({"watchlist"})
    BY FS_Singleton, Zenon
  <1>3. Match!Component = {"role"} \union ({"skill"} \union ({"experience"} \union ({"location"} \union
                          ({"salary"} \union ({"workMode"} \union ({"industry"} \union
                          ({"company"} \union {"watchlist"})))))))
    BY <1>1
  <1>4. IsFiniteSet({"industry"} \union ({"company"} \union {"watchlist"}))
    BY <1>2, FS_Union, Zenon
  <1>5. IsFiniteSet({"location"} \union ({"salary"} \union ({"workMode"} \union ({"industry"} \union
                          ({"company"} \union {"watchlist"})))))
    BY <1>2, <1>4, FS_Union, Zenon
  <1>6. QED
    BY <1>2, <1>3, <1>5, FS_Union, Zenon

Weighted(scores) == [c \in Match!Component |-> Match!Weights[c] * Valued(scores, c)]

\* The overall is the sum of the weighted values by that of the weights.
LEMMA OverallIs ==
    ASSUME NEW scores
    PROVE  \E g, h : /\ SumsOf(Weighted(scores), Match!Component, g)
                     /\ SumsOf(Match!Weights, Match!Component, h)
                     /\ Match!Overall(scores)
                            = Match!RoundDiv(g[Match!Component], h[Match!Component])
  <1> DEFINE S == Match!Component
             Is(iter) == iter = [s \in SUBSET S |-> IF s = {} THEN 0
                            ELSE Match!Weights[First(s)] * Valued(scores, First(s)) + iter[s \ {First(s)}]]
             IsW(iter) == iter = [s \in SUBSET S |-> IF s = {} THEN 0
                            ELSE Match!Weights[First(s)] + iter[s \ {First(s)}]]
             g == CHOOSE iter : Is(iter)
             h == CHOOSE iter : IsW(iter)
  <1>1. Match!Overall(scores) = Match!RoundDiv(g[S], h[S])
    BY DEF Match!Overall, Match!MapThenSumSet, Match!MapThenFoldSet, Valued, First
  <1>2. \A iter : Is(iter) <=> SumsOf(Weighted(scores), S, iter)
    <2> SUFFICES ASSUME NEW iter PROVE Is(iter) <=> SumsOf(Weighted(scores), S, iter)
      BY Zenon
    <2>1. \A s \in SUBSET S : s # {} => First(s) \in S
      BY DEF First
    <2>2. \A s \in SUBSET S : s # {} => Weighted(scores)[First(s)]
                                            = Match!Weights[First(s)] * Valued(scores, First(s))
      BY <2>1 DEF Weighted
    <2>3. [s \in SUBSET S |-> IF s = {} THEN 0
                ELSE Match!Weights[First(s)] * Valued(scores, First(s)) + iter[s \ {First(s)}]]
              = [s \in SUBSET S |-> IF s = {} THEN 0
                    ELSE Weighted(scores)[First(s)] + iter[s \ {First(s)}]]
      BY <2>2
    <2>4. QED
      BY <2>3, Zenon DEF SumsOf
  <1>3. \A iter : IsW(iter) <=> SumsOf(Match!Weights, S, iter)
    BY DEF SumsOf
  <1> HIDE DEF Is, IsW
  <1>4. (\E iter : Is(iter)) /\ (\E iter : IsW(iter))
    BY <1>2, <1>3, ComponentsFinite, SumStep
  <1>5. Is(g) /\ IsW(h)
    BY <1>4
  <1> HIDE DEF g, h
  <1>6. SumsOf(Weighted(scores), S, g) /\ SumsOf(Match!Weights, S, h)
    BY <1>2, <1>3, <1>5
  <1>7. QED
    BY <1>1, <1>6

\* Scores between two bounds have an overall between them.
LEMMA OverallBetween ==
    ASSUME NEW scores, NEW low \in Nat, NEW high \in Nat,
           \A c \in Match!Component : /\ Valued(scores, c) \in Nat
                                      /\ low <= Valued(scores, c) /\ Valued(scores, c) <= high
    PROVE  Match!Overall(scores) \in Nat /\ low <= Match!Overall(scores) /\ Match!Overall(scores) <= high
  <1> DEFINE S == Match!Component
             v == [c \in S |-> Valued(scores, c)]
             w == Match!Weights
  <1>1. PICK g, h : /\ SumsOf(Weighted(scores), S, g) /\ SumsOf(w, S, h)
                    /\ Match!Overall(scores) = Match!RoundDiv(g[S], h[S])
    BY OverallIs
  <1>2. w \in [S -> Nat \ {0}] /\ v \in [S -> Nat] /\ S # {}
    BY DEF Match!Weights, Match!Component
  <1>3. \A c \in S : low <= v[c] /\ v[c] <= high
    OBVIOUS
  <1>4. SumsOf([c \in S |-> w[c] * v[c]], S, g)
    <2>1. Weighted(scores) = [c \in S |-> w[c] * v[c]]
      BY DEF Weighted
    <2>2. QED
      BY <1>1, <2>1
  <1>5. IsFiniteSet(S)
    BY ComponentsFinite
  <1> HIDE DEF S, v, w
  <1>6. g[S] \in Nat /\ h[S] \in Nat \ {0} /\ h[S] * low <= g[S] /\ g[S] <= h[S] * high
    BY <1>1, <1>2, <1>3, <1>4, <1>5, WeightedBetween, Zenon
  <1> DEFINE n == g[S]
             d == h[S]
  <1> HIDE DEF n, d
  <1>7. n \in Nat /\ d \in Nat \ {0} /\ d * low <= n /\ n <= d * high
    BY <1>6 DEF n, d
  <1>8. Match!RoundDiv(n, d) \in Nat /\ low <= Match!RoundDiv(n, d) /\ Match!RoundDiv(n, d) <= high
    BY <1>7, RoundDivIs, RoundDivBetween
  <1>9. QED
    BY <1>1, <1>8 DEF n, d

ScoreAnswer(s) ==
    LET scores == Match!Scores(s.profile, s.job, s.watchlist)
    IN  [scores |-> scores, overall |-> Match!Overall(scores),
         verdict |-> Match!Recommendation(Match!Overall(scores))]

\* What FairScores says of an answer to s.
ScoreFair(s, answer) ==
    LET scores == answer.scores
        values == {IF scores[c] = Unknown THEN Match!Neutral ELSE scores[c] : c \in Match!Component}
        job == s.job
        named == job.named \union (IF job.described = Unknown THEN {} ELSE job.described)
        asked == IF Match!Analysed(job) /\ job.analysis.required \union job.analysis.preferred # {}
                 THEN job.analysis.required \union job.analysis.preferred ELSE named
        HigherUp == [n \in DOMAIN s.watchlist |-> [s.watchlist[n] EXCEPT !.priority = "HIGH"]]
    IN  /\ values \subseteq 0 .. Match!Full
        /\ Min(values) <= answer.overall /\ answer.overall <= Max(values)
        /\ s.profile.skills # {} => \A k \in asked :
               Match!SkillScore([s.profile EXCEPT !.skills = @ \union {k}], job) >= scores.skill
        /\ job.pay # Unknown =>
               Match!SalaryScore(s.profile, [job EXCEPT !.pay = @ + 20]) >= scores.salary
        /\ scores.watchlist # Unknown => Match!WatchlistScore(job, HigherUp) >= scores.watchlist

LEMMA ThousandMinMax ==
    ASSUME NEW S, S # {}, S \subseteq Thousand
    PROVE  /\ Min(S) \in Nat /\ \A x \in S : Min(S) <= x
           /\ Max(S) \in Nat /\ \A x \in S : x <= Max(S)
  <1> DEFINE low == 0
             high == 1000
  <1>1. low \in Int /\ high \in Int /\ Thousand = low .. high
    BY DEF Thousand
  <1> HIDE DEF low, high
  <1>2. /\ Min(S) \in S /\ \A x \in S : Min(S) <= x
        /\ Max(S) \in S /\ \A x \in S : x <= Max(S)
    BY <1>1, MinMaxIs, Zenon
  <1>3. \A x \in S : x \in Nat
    BY DEF Thousand
  <1>4. QED
    BY <1>2, <1>3

LEMMA ScoresAreFair ==
    ASSUME NEW s \in ScoreInput
    PROVE  ScoreFair(s, ScoreAnswer(s))
  <1> DEFINE scores == Match!Scores(s.profile, s.job, s.watchlist)
             values == {Valued(scores, c) : c \in Match!Component}
             answer == ScoreAnswer(s)
  <1>1. answer.scores = scores /\ answer.overall = Match!Overall(scores)
    BY DEF ScoreAnswer
  <1>2. /\ scores.skill = Match!SkillScore(s.profile, s.job)
        /\ scores.salary = Match!SalaryScore(s.profile, s.job)
        /\ scores.watchlist = Match!WatchlistScore(s.job, s.watchlist)
    BY DEF Match!Scores
  <1>3. \A c \in Match!Component : Valued(scores, c) \in Thousand
    <2> SUFFICES ASSUME NEW c \in Match!Component PROVE Valued(scores, c) \in Thousand
      OBVIOUS
    <2>1. scores[c] \in Thousand \/ scores[c] = Unknown
      BY ScoresBetween
    <2> HIDE DEF scores
    <2>2. QED
      BY <2>1 DEF Valued, Thousand
  <1> HIDE DEF scores
  <1>4. values \subseteq Thousand /\ values # {}
    BY <1>3 DEF Match!Component
  <1>5. Min(values) <= Match!Overall(scores) /\ Match!Overall(scores) <= Max(values)
    <2> HIDE DEF values
    <2>1. /\ Min(values) \in Nat /\ \A x \in values : Min(values) <= x
          /\ Max(values) \in Nat /\ \A x \in values : x <= Max(values)
      BY <1>4, ThousandMinMax
    <2>3. \A c \in Match!Component : /\ Valued(scores, c) \in Nat
                                     /\ Min(values) <= Valued(scores, c)
                                     /\ Valued(scores, c) <= Max(values)
      BY <1>3, <2>1 DEF Thousand, values
    <2>4. QED
      BY <2>1, <2>3, OverallBetween
  <1>6. s.profile.skills # {} => \A k \in Asked(s.job) :
            Match!SkillScore([s.profile EXCEPT !.skills = @ \union {k}], s.job) >= scores.skill
    BY <1>2, SkillGrows
  <1>7. s.job.pay # Unknown =>
            Match!SalaryScore(s.profile, [s.job EXCEPT !.pay = @ + 20]) >= scores.salary
    BY <1>2, SalaryGrows
  <1>8. scores.watchlist # Unknown => Match!WatchlistScore(s.job, Raised(s.watchlist)) >= scores.watchlist
    <2>1. scores.watchlist # Unknown => Match!EntriesFor(s.job, s.watchlist) # {}
      BY <1>2 DEF Match!WatchlistScore
    <2>2. QED
      BY <1>2, <2>1, WatchlistGrows
  <1> HIDE DEF answer
  <1>9. ScoreFair(s, answer) =
            /\ values \subseteq 0 .. 1000
            /\ Min(values) <= answer.overall /\ answer.overall <= Max(values)
            /\ s.profile.skills # {} => \A k \in Asked(s.job) :
                   Match!SkillScore([s.profile EXCEPT !.skills = @ \union {k}], s.job) >= scores.skill
            /\ s.job.pay # Unknown =>
                   Match!SalaryScore(s.profile, [s.job EXCEPT !.pay = @ + 20]) >= scores.salary
            /\ scores.watchlist # Unknown =>
                   Match!WatchlistScore(s.job, Raised(s.watchlist)) >= scores.watchlist
    BY <1>1 DEF ScoreFair, Asked, ByAnalysis, TextSkills, Raised, Valued
  <1>10. QED
    BY <1>1, <1>4, <1>5, <1>6, <1>7, <1>8, <1>9, ZenonT(30) DEF answer, Thousand

\* What AskModel answers.
AskAnswer(a) ==
    [retried |-> Model!CompleteWithRetries(a.responses, a.maxRetries),
     analysis |-> Model!Analyse(a.responses, a.maxRetries),
     match |-> Model!Explained(a.overall, a.band, a.responses[1]),
     remarks |-> Model!Remarks(a.cached, a.responses[1])]

\* The delays without a word of the API: each twice the last.
Doubling(f, m) == f = [n \in 1 .. m |-> IF n = 1 THEN BaseDelay ELSE 2 * f[n - 1]]

LEMMA DoublingStep ==
    ASSUME NEW m \in Nat
    PROVE  \E f : Doubling(f, m)
  <1> DEFINE N == {k \in Nat : \E f : Doubling(f, k)}
  <1>1. 0 \in N
    <2>1. Doubling([n \in 1 .. 0 |-> 0], 0)
      BY DEF Doubling
    <2>2. QED
      BY <2>1
  <1>2. ASSUME NEW k \in Nat, k \in N PROVE k + 1 \in N
    <2>1. PICK f : Doubling(f, k)
      BY <1>2
    <2> DEFINE g == [n \in 1 .. k + 1 |-> IF n = 1 THEN BaseDelay ELSE 2 * f[n - 1]]
    <2>2. ASSUME NEW n \in 1 .. k PROVE g[n] = f[n]
      BY <2>1 DEF Doubling
    <2>3. ASSUME NEW n \in 1 .. k + 1
          PROVE  g[n] = IF n = 1 THEN BaseDelay ELSE 2 * g[n - 1]
      <3>1. n # 1 => n - 1 \in 1 .. k
        OBVIOUS
      <3>2. g[n] = IF n = 1 THEN BaseDelay ELSE 2 * f[n - 1]
        OBVIOUS
      <3> HIDE DEF g
      <3>3. QED
        BY <2>2, <3>1, <3>2
    <2>4. g = [n \in 1 .. k + 1 |-> g[n]]
      OBVIOUS
    <2> HIDE DEF g
    <2>5. Doubling(g, k + 1)
      BY <2>3, <2>4, Zenon DEF Doubling
    <2>6. QED
      BY <2>5
  <1> HIDE DEF N
  <1>3. m \in N
    BY <1>1, <1>2, SetInduction
  <1>4. QED
    BY <1>3 DEF N

LEMMA DoublingGrows ==
    ASSUME NEW m \in Nat, NEW f, Doubling(f, m)
    PROVE  /\ \A n \in 1 .. m : f[n] \in Nat \ {0}
           /\ \A n \in 1 .. m : n + 1 <= m => f[n] < f[n + 1]
  <1> DEFINE N == {k \in Nat : k + 1 <= m => f[k + 1] \in Nat \ {0}}
  <1>1. \A n \in 1 .. m : f[n] = IF n = 1 THEN BaseDelay ELSE 2 * f[n - 1]
    BY DEF Doubling
  <1>2. 0 \in N
    BY <1>1, AskAssumption
  <1>3. ASSUME NEW k \in Nat, k \in N PROVE k + 1 \in N
    <2> SUFFICES ASSUME (k + 1) + 1 <= m PROVE f[(k + 1) + 1] \in Nat \ {0}
      OBVIOUS
    <2>1. (k + 1) + 1 \in 1 .. m /\ (k + 1) + 1 # 1 /\ ((k + 1) + 1) - 1 = k + 1
      OBVIOUS
    <2>2. f[(k + 1) + 1] = 2 * f[k + 1] /\ f[k + 1] \in Nat \ {0}
      BY <1>1, <1>3, <2>1
    <2>3. QED
      BY <2>2
  <1> HIDE DEF N
  <1>4. \A n \in 1 .. m : f[n] \in Nat \ {0}
    <2> SUFFICES ASSUME NEW n \in 1 .. m PROVE f[n] \in Nat \ {0}
      OBVIOUS
    <2>1. n - 1 \in Nat
      OBVIOUS
    <2>2. n - 1 \in N
      BY <1>2, <1>3, <2>1, SetInduction
    <2>3. (n - 1) + 1 = n /\ n <= m
      OBVIOUS
    <2>4. QED
      BY <2>2, <2>3 DEF N
  <1>5. ASSUME NEW n \in 1 .. m, n + 1 <= m PROVE f[n] < f[n + 1]
    <2>1. n + 1 \in 1 .. m /\ n + 1 # 1 /\ (n + 1) - 1 = n
      BY <1>5
    <2>2. f[n + 1] = 2 * f[n] /\ f[n] \in Nat \ {0}
      BY <1>1, <1>4, <2>1
    <2>3. QED
      BY <2>2
  <1>6. QED
    BY <1>4, <1>5

\* Min and Max of two.
LEMMA TwoMinMax ==
    ASSUME NEW x \in Nat, NEW y \in Nat
    PROVE  /\ Model!Min({x, y}) = (IF x <= y THEN x ELSE y)
           /\ Min({x, y}) = (IF x <= y THEN x ELSE y)
           /\ Model!Max({x, y}) = (IF x <= y THEN y ELSE x)
  <1> DEFINE S == {x, y}
  <1>1. S \subseteq 0 .. (x + y) /\ S # {} /\ 0 \in Int /\ x + y \in Int
    OBVIOUS
  <1> HIDE DEF S
  <1>2. /\ Min(S) \in S /\ \A z \in S : Min(S) <= z
        /\ Max(S) \in S /\ \A z \in S : z <= Max(S)
    BY <1>1, MinMaxIs, Zenon
  <1>3. Model!Min(S) = Min(S) /\ Model!Max(S) = Max(S)
    BY DEF Model!Min, Min, Model!Max, Max
  <1>4. QED
    BY <1>2, <1>3 DEF S

\* The calls end with the first answer that is none or not worth a retry; the
\* delays are at least the doubling ones and at least what the API said.
LEMMA RetriedIs ==
    ASSUME NEW responses, NEW m \in Nat, responses \in Seq(ToSet(responses)), m < Len(responses)
    PROVE  LET retried == Model!CompleteWithRetries(responses, m)
               Answer(n) == Model!CompleteJson(responses[n])
           IN  /\ retried.calls \in 1 .. m + 1
               /\ retried.answer = Answer(retried.calls)
               /\ \A n \in 1 .. retried.calls - 1 : Answer(n).error \in Model!Retryable
               /\ \E f : /\ Doubling(f, m)
                         /\ retried.delays = [n \in 1 .. retried.calls - 1 |->
                                IF Answer(n).after = Unknown THEN f[n]
                                ELSE Model!Max({f[n], Answer(n).after})]
  <1> DEFINE retried == Model!CompleteWithRetries(responses, m)
             Asked1(n) == Model!CompleteJson(responses[Model!Min({n, Len(responses)})])
             Answer(n) == Model!CompleteJson(responses[n])
             final == {n \in 1 .. m : Asked1(n).error \notin Model!Retryable} \union {m + 1}
             f == CHOOSE f : Doubling(f, m)
             calls == Model!Min(final)
  <1>1. \A n \in 1 .. m + 1 : Model!Min({n, Len(responses)}) = n
    <2> SUFFICES ASSUME NEW n \in 1 .. m + 1 PROVE Model!Min({n, Len(responses)}) = n
      OBVIOUS
    <2>1. n \in Nat /\ Len(responses) \in Nat /\ n <= Len(responses)
      OBVIOUS
    <2>2. QED
      BY <2>1, TwoMinMax
  <1>2. calls \in final /\ \A n \in final : calls <= n
    <2>1. final \subseteq 1 .. m + 1 /\ final # {} /\ 1 \in Int /\ m + 1 \in Int
      OBVIOUS
    <2> HIDE DEF final
    <2>2. Min(final) \in final /\ \A n \in final : Min(final) <= n
      BY <2>1, MinMaxIs, Zenon
    <2>3. QED
      BY <2>2 DEF Model!Min, Min
  <1>3. calls \in 1 .. m + 1
    BY <1>2
  <1>4. retried = [answer |-> Asked1(calls), calls |-> calls,
                   delays |-> [n \in 1 .. calls - 1 |->
                       IF Asked1(n).after = Unknown THEN f[n]
                       ELSE Model!Max({f[n], Asked1(n).after})]]
    BY DEF Model!CompleteWithRetries, Doubling
  <1>5. Doubling(f, m)
    BY DoublingStep
  <1> HIDE DEF f, calls, retried
  <1>6. \A n \in 1 .. calls - 1 : Asked1(n).error \in Model!Retryable
    <2> SUFFICES ASSUME NEW n \in 1 .. calls - 1 PROVE Asked1(n).error \in Model!Retryable
      OBVIOUS
    <2>1. n \in 1 .. m /\ n < calls
      BY <1>3
    <2>2. n \notin final
      BY <1>2, <1>3, <2>1
    <2>3. QED
      BY <2>1, <2>2
  <1>7. \A n \in 1 .. m + 1 : Asked1(n) = Answer(n)
    BY <1>1
  <1>8. 1 .. calls - 1 \subseteq 1 .. m + 1
    BY <1>3
  <1> HIDE DEF Asked1, Answer, final
  <1>9. retried.delays = [n \in 1 .. calls - 1 |->
            IF Answer(n).after = Unknown THEN f[n] ELSE Model!Max({f[n], Answer(n).after})]
    BY <1>4, <1>7, <1>8, Zenon
  <1>10. retried.calls = calls /\ retried.answer = Answer(calls)
    BY <1>3, <1>4, <1>7
  <1>11. \A n \in 1 .. calls - 1 : Answer(n).error \in Model!Retryable
    BY <1>6, <1>7, <1>8
  <1>12. QED
    BY <1>3, <1>5, <1>9, <1>10, <1>11, Zenon DEF Answer, retried

\* What a response means: an answer if it is usable, else an error.
LEMMA CompleteIs ==
    ASSUME NEW r, r.status \in {"timeout", "network", "failing", "busy", "rejected", "ok"}
    PROVE  LET answer == Model!CompleteJson(r)
           IN  /\ answer.error = "none" <=> r.status = "ok" /\ r.body # Unknown
               /\ r.status = "rejected" => answer.error = "rejected"
               /\ answer.error = "none" => answer.content = r.body
               /\ answer.after = IF r.status = "busy" THEN r.after ELSE Unknown
  BY DEF Model!CompleteJson, Model!Failed

\* What FairScores says of an answer to a.
AskFair(a, answer) ==
    LET match == answer.match
        calls == answer.retried.calls
        Usable(n) == a.responses[n].status = "ok" /\ a.responses[n].body # Unknown
        called == 1 .. Min({calls, Len(a.responses)})
    IN  /\ match.overall = a.overall /\ match.verdict \in Verdicts
        /\ ~Usable(1) => match.verdict = a.band /\ answer.remarks = a.cached
        /\ calls <= a.maxRetries + 1
        /\ \A n \in called \ {calls} : ~Usable(n) /\ a.responses[n].status # "rejected"
        /\ (\A n \in called : ~Usable(n)) => answer.analysis = Unknown
        /\ \A n \in DOMAIN answer.retried.delays :
               /\ n < Len(answer.retried.delays) =>
                      \/ answer.retried.delays[n + 1] > answer.retried.delays[n]
                      \/ a.responses[n].after # Unknown
               /\ a.responses[n].status = "busy" /\ a.responses[n].after # Unknown =>
                      answer.retried.delays[n] >= a.responses[n].after

\* The response to one call.
LEMMA RemarksAre ==
    ASSUME NEW cached, NEW r, r.status \in {"timeout", "network", "failing", "busy", "rejected", "ok"},
           ~(r.status = "ok" /\ r.body # Unknown)
    PROVE  Model!Remarks(cached, r) = cached
  <1> DEFINE one == <<r>>
  <1>1. one \in Seq(ToSet(one)) /\ 0 < Len(one) /\ 0 \in Nat /\ one[1] = r
    BY DEF ToSet
  <1> HIDE DEF one
  <1>2. LET retried == Model!CompleteWithRetries(one, 0)
        IN  retried.calls \in 1 .. 0 + 1 /\ retried.answer = Model!CompleteJson(one[retried.calls])
    BY <1>1, RetriedIs
  <1>3. Model!CompleteWithRetries(one, 0).answer = Model!CompleteJson(r)
    BY <1>1, <1>2
  <1>4. Model!CompleteJson(r).error # "none"
    BY CompleteIs
  <1>5. QED
    BY <1>3, <1>4 DEF Model!Remarks, Model!Validated, one

LEMMA MatchIs ==
    ASSUME NEW overall, NEW band \in Verdicts, NEW r, r.body = Unknown \/ "verdict" \in DOMAIN r.body,
           r.status \in {"timeout", "network", "failing", "busy", "rejected", "ok"}
    PROVE  LET match == Model!Explained(overall, band, r)
           IN  /\ match.overall = overall /\ match.verdict \in Verdicts
               /\ ~(r.status = "ok" /\ r.body # Unknown) => match.verdict = band
  <1> DEFINE content == Model!Validated(Model!CompleteJson(r))
             said == IF Model!Explain(r) = Unknown THEN Unknown ELSE Model!Explain(r).verdict
  <1>1. Model!Explained(overall, band, r).overall = overall
        /\ Model!Explained(overall, band, r).verdict = IF said = Unknown THEN band ELSE said
    BY DEF Model!Explained
  <1>2. content = Unknown \/ (content = r.body /\ r.status = "ok" /\ r.body # Unknown)
    BY CompleteIs DEF Model!Validated
  <1>3. Model!Explain(r) = IF content = Unknown THEN Unknown
                           ELSE [content EXCEPT !.verdict = Model!NormalizeRecommendation(@)]
    BY DEF Model!Explain
  <1> HIDE DEF content
  <1>4. CASE content = Unknown
    <2>1. said = Unknown
      BY <1>3, <1>4
    <2>2. QED
      BY <1>1, <2>1
  <1>5. CASE content # Unknown
    <2>1. content = r.body /\ r.status = "ok" /\ r.body # Unknown /\ "verdict" \in DOMAIN content
      BY <1>2, <1>5
    <2>2. [content EXCEPT !.verdict = Model!NormalizeRecommendation(@)].verdict
              = Model!NormalizeRecommendation(content.verdict)
      BY <2>1
    <2>3. said \in Verdicts \union {Unknown}
      BY <1>3, <1>5, <2>2 DEF Model!NormalizeRecommendation
    <2> HIDE DEF said
    <2>4. QED
      BY <1>1, <2>1, <2>3
  <1>6. QED
    BY <1>4, <1>5

LEMMA AsksAreFair ==
    ASSUME NEW a \in AskInput
    PROVE  AskFair(a, AskAnswer(a))
  <1> DEFINE responses == a.responses
             m == a.maxRetries
             retried == Model!CompleteWithRetries(responses, m)
             calls == retried.calls
             delays == retried.delays
             Answer(n) == Model!CompleteJson(responses[n])
             Usable(n) == responses[n].status = "ok" /\ responses[n].body # Unknown
             answer == AskAnswer(a)
  <1>1. /\ m \in Nat /\ a.band \in Verdicts /\ responses \in Seq(ToSet(responses)) /\ m < Len(responses)
        /\ BaseDelay \in Nat \ {0} /\ Unknown \notin Int
    BY AskAssumption
  <1>2. ASSUME NEW n \in 1 .. Len(responses)
        PROVE  /\ responses[n].status \in {"timeout", "network", "failing", "busy", "rejected", "ok"}
               /\ responses[n].after \in Nat \union {Unknown}
               /\ responses[n].body = Unknown \/ "verdict" \in DOMAIN responses[n].body
    <2>1. DOMAIN responses = 1 .. Len(responses)
      BY <1>1
    <2>2. responses[n] \in ToSet(responses)
      BY <2>1 DEF ToSet
    <2>3. QED
      BY <2>2, AskAssumption
  <1>3. /\ answer.retried = retried
        /\ answer.analysis = Model!Validated(retried.answer)
        /\ answer.match = Model!Explained(a.overall, a.band, responses[1])
        /\ answer.remarks = Model!Remarks(a.cached, responses[1])
    BY DEF AskAnswer, Model!Analyse
  <1> HIDE DEF answer, responses, m
  <1>4. /\ calls \in 1 .. m + 1 /\ retried.answer = Answer(calls)
        /\ \A n \in 1 .. calls - 1 : Answer(n).error \in Model!Retryable
        /\ \E f : /\ Doubling(f, m)
                  /\ delays = [n \in 1 .. calls - 1 |->
                         IF Answer(n).after = Unknown THEN f[n]
                         ELSE Model!Max({f[n], Answer(n).after})]
    BY <1>1, RetriedIs, Zenon
  <1> HIDE DEF retried
  <1>5. 1 \in 1 .. Len(responses) /\ calls \in 1 .. Len(responses)
        /\ 1 .. calls - 1 \subseteq 1 .. Len(responses) /\ Len(responses) \in Nat
    BY <1>1, <1>4
  <1>6. /\ answer.match.overall = a.overall /\ answer.match.verdict \in Verdicts
        /\ ~Usable(1) => answer.match.verdict = a.band
    BY <1>1, <1>2, <1>3, <1>5, MatchIs
  <1>7. ~Usable(1) => answer.remarks = a.cached
    BY <1>2, <1>3, <1>5, RemarksAre
  <1>8. \A n \in 1 .. Len(responses) :
            /\ Answer(n).error = "none" <=> Usable(n)
            /\ responses[n].status = "rejected" => Answer(n).error = "rejected"
            /\ Answer(n).after = IF responses[n].status = "busy" THEN responses[n].after ELSE Unknown
    BY <1>2, CompleteIs
  <1> HIDE DEF Answer, Usable
  <1>9. Min({calls, Len(responses)}) = calls
    <2> HIDE DEF calls
    <2>1. calls \in Nat /\ Len(responses) \in Nat /\ calls <= Len(responses)
      BY <1>5
    <2>2. QED
      BY <2>1, TwoMinMax
  <1>10. \A n \in (1 .. calls) \ {calls} : ~Usable(n) /\ responses[n].status # "rejected"
    <2> SUFFICES ASSUME NEW n \in (1 .. calls) \ {calls}
                 PROVE  ~Usable(n) /\ responses[n].status # "rejected"
      OBVIOUS
    <2>1. n \in 1 .. calls - 1 /\ n \in 1 .. Len(responses)
      BY <1>5
    <2>2. Answer(n).error \in {"unavailable", "rate limited", "response"}
      BY <1>4, <2>1, Zenon DEF Model!Retryable
    <2>3. QED
      BY <1>8, <2>1, <2>2, Zenon
  <1>11. ~Usable(calls) => answer.analysis = Unknown
    BY <1>3, <1>4, <1>5, <1>8 DEF Model!Validated
  <1>12. DOMAIN delays = 1 .. calls - 1 /\ Len(delays) = calls - 1
    BY <1>4
  <1>13. ASSUME NEW n \in 1 .. calls - 1
         PROVE  /\ n < calls - 1 => delays[n + 1] > delays[n] \/ responses[n].after # Unknown
                /\ responses[n].status = "busy" /\ responses[n].after # Unknown =>
                       delays[n] >= responses[n].after
    <2>1. PICK f : /\ Doubling(f, m)
                   /\ delays = [k \in 1 .. calls - 1 |->
                         IF Answer(k).after = Unknown THEN f[k]
                         ELSE Model!Max({f[k], Answer(k).after})]
      BY <1>4, Zenon
    <2>2. /\ \A k \in 1 .. m : f[k] \in Nat \ {0}
          /\ \A k \in 1 .. m : k + 1 <= m => f[k] < f[k + 1]
      BY <1>1, <2>1, DoublingGrows
    <2>3. ASSUME NEW k \in 1 .. calls - 1
          PROVE  /\ delays[k] \in Nat /\ delays[k] >= f[k] /\ f[k] \in Nat
                 /\ Answer(k).after = Unknown => delays[k] = f[k]
                 /\ Answer(k).after # Unknown => delays[k] >= Answer(k).after
      <3>1. Answer(k).after \in Nat \union {Unknown} /\ f[k] \in Nat
        <4>1. k \in 1 .. Len(responses)
          BY <1>5
        <4>2. responses[k].after \in Nat \union {Unknown}
          BY <1>2, <4>1
        <4>3. Answer(k).after = IF responses[k].status = "busy" THEN responses[k].after ELSE Unknown
          BY <1>8, <4>1
        <4>4. k \in 1 .. m
          <5> HIDE DEF calls
          <5>1. QED
            BY <1>1, <1>4
        <4>5. QED
          BY <2>2, <4>2, <4>3, <4>4
      <3>2. delays[k] = IF Answer(k).after = Unknown THEN f[k]
                        ELSE Model!Max({f[k], Answer(k).after})
        BY <2>1
      <3>3. CASE Answer(k).after = Unknown
        BY <3>1, <3>2, <3>3
      <3>4. CASE Answer(k).after # Unknown
        <4>1. Answer(k).after \in Nat
          BY <3>1, <3>4
        <4>2. Model!Max({f[k], Answer(k).after})
                  = IF f[k] <= Answer(k).after THEN Answer(k).after ELSE f[k]
          BY <3>1, <4>1, TwoMinMax, Zenon
        <4>3. QED
          BY <3>1, <3>2, <3>4, <4>1, <4>2
      <3>5. QED
        BY <3>3, <3>4
    <2>4. responses[n].after = Unknown => Answer(n).after = Unknown
      BY <1>5, <1>8
    <2>5. ASSUME n < calls - 1, responses[n].after = Unknown PROVE delays[n + 1] > delays[n]
      <3>1. n + 1 \in 1 .. calls - 1 /\ n \in 1 .. m /\ n + 1 <= m
        <4> HIDE DEF calls, delays
        <4>1. QED
          BY <1>1, <1>4, <2>5
      <3>2. f[n] < f[n + 1] /\ f[n] \in Nat /\ f[n + 1] \in Nat
        BY <2>2, <2>3, <3>1
      <3>3. delays[n] = f[n] /\ delays[n + 1] >= f[n + 1] /\ delays[n + 1] \in Nat
        BY <2>3, <2>4, <2>5, <3>1
      <3>4. QED
        BY <3>2, <3>3
    <2>6. ASSUME responses[n].status = "busy", responses[n].after # Unknown
          PROVE  delays[n] >= responses[n].after
      BY <1>5, <1>8, <2>3, <2>6
    <2>7. QED
      BY <2>5, <2>6
  <1> HIDE DEF delays, calls
  <1>14. calls \in 1 .. calls /\ calls <= m + 1
    BY <1>4
  <1>15. AskFair(a, answer) =
            /\ answer.match.overall = a.overall /\ answer.match.verdict \in Verdicts
            /\ ~Usable(1) => answer.match.verdict = a.band /\ answer.remarks = a.cached
            /\ calls <= m + 1
            /\ \A n \in (1 .. Min({calls, Len(responses)})) \ {calls} :
                   ~Usable(n) /\ responses[n].status # "rejected"
            /\ (\A n \in 1 .. Min({calls, Len(responses)}) : ~Usable(n)) => answer.analysis = Unknown
            /\ \A n \in DOMAIN delays :
                   /\ n < Len(delays) => delays[n + 1] > delays[n] \/ responses[n].after # Unknown
                   /\ responses[n].status = "busy" /\ responses[n].after # Unknown =>
                          delays[n] >= responses[n].after
    BY <1>3 DEF AskFair, Usable, calls, delays, responses, m
  <1>16. QED
    BY <1>6, <1>7, <1>9, <1>10, <1>11, <1>12, <1>13, <1>14, <1>15, Zenon DEF answer

-------------------------------------------------------------------------------
(* The total of a function over a finite set *)

Total(f, S) == (CHOOSE g : SumsOf(f, S, g))[S]

\* Partial sums do not depend on the set they are part of.
LEMMA SumsRestrict ==
    ASSUME NEW S, IsFiniteSet(S), NEW T \in SUBSET S, NEW f,
           NEW g, SumsOf(f, S, g), NEW h, SumsOf(f, T, h)
    PROVE  g[T] = h[T]
  <1> DEFINE Good == {s \in SUBSET T : g[s] = h[s]}
  <1>1. {} \in Good
    BY DEF SumsOf
  <1>2. ASSUME NEW s \in SUBSET T, s # {}, s \ {First(s)} \in Good PROVE s \in Good
    <2>1. /\ g[s] = f[First(s)] + g[s \ {First(s)}]
          /\ h[s] = f[First(s)] + h[s \ {First(s)}]
      BY <1>2, Zenon DEF SumsOf
    <2>2. QED
      BY <1>2, <2>1
  <1> HIDE DEF Good
  <1>3. T \in Good
    BY <1>1, <1>2, FS_Subset, SubsetInduction
  <1>4. QED
    BY <1>3 DEF Good

LEMMA TotalIs ==
    ASSUME NEW S, IsFiniteSet(S), NEW T \in SUBSET S, NEW f, NEW g, SumsOf(f, S, g)
    PROVE  Total(f, T) = g[T]
  <1> DEFINE h == CHOOSE k : SumsOf(f, T, k)
  <1>1. SumsOf(f, T, h)
    BY FS_Subset, SumStep
  <1> HIDE DEF h
  <1>2. g[T] = h[T]
    BY <1>1, SumsRestrict
  <1>3. QED
    BY <1>2 DEF Total, h

LEMMA TotalEmpty ==
    ASSUME NEW f
    PROVE  Total(f, {}) = 0
  <1>1. IsFiniteSet({})
    BY FS_EmptySet
  <1>2. PICK g : SumsOf(f, {}, g)
    BY <1>1, SumStep
  <1>3. g[{}] = 0
    BY <1>2 DEF SumsOf
  <1>4. QED
    BY <1>1, <1>2, <1>3, TotalIs

\* The sum by any of its summands.
LEMMA TotalInsert ==
    ASSUME NEW S, IsFiniteSet(S), NEW f, \A x \in S : f[x] \in Int
    PROVE  /\ Total(f, S) \in Int
           /\ \A x \in S : Total(f, S \ {x}) \in Int /\ Total(f, S) = f[x] + Total(f, S \ {x})
  <1>1. PICK g : SumsOf(f, S, g)
    BY SumStep
  <1>0. ASSUME NEW s \in SUBSET S PROVE g[s] \in Int
    <2> DEFINE Ints == {t \in SUBSET s : g[t] \in Int}
    <2>1. {} \in Ints
      BY <1>1 DEF SumsOf
    <2>2. ASSUME NEW t \in SUBSET s, t # {}, t \ {First(t)} \in Ints PROVE t \in Ints
      <3>1. First(t) \in t
        BY <2>2 DEF First
      <3>2. g[t] = f[First(t)] + g[t \ {First(t)}]
        BY <1>1, <2>2, Zenon DEF SumsOf
      <3>3. QED
        BY <2>2, <3>1, <3>2
    <2> HIDE DEF Ints
    <2>3. s \in Ints
      BY <2>1, <2>2, FS_Subset, SubsetInduction
    <2>4. QED
      BY <2>3 DEF Ints
  <1> DEFINE Good(s) == \A x \in s : g[s] = f[x] + g[s \ {x}]
             N == {n \in Nat : \A s \in SUBSET S : Cardinality(s) = n => Good(s)}
  <1>2. ASSUME NEW s \in SUBSET S
        PROVE  IsFiniteSet(s) /\ Cardinality(s) \in Nat /\ (Cardinality(s) = 0 <=> s = {})
    BY FS_Subset, FS_CardinalityType, FS_EmptySet
  <1>3. g[{}] = 0
    BY <1>1 DEF SumsOf
  <1>4. 0 \in N
    BY <1>2, <1>3
  <1>5. ASSUME NEW n \in Nat, n \in N PROVE n + 1 \in N
    <2> SUFFICES ASSUME NEW s \in SUBSET S, Cardinality(s) = n + 1 PROVE Good(s)
      OBVIOUS
    <2>1. \A x \in s : s \ {x} \in SUBSET S /\ Cardinality(s \ {x}) = n
      BY <1>2, FS_RemoveElement
    <2>2. \A x \in s : Good(s \ {x})
      BY <1>5, <2>1
    <2> DEFINE a == First(s)
    <2>3. s # {} /\ a \in s
      <3>1. s # {}
        BY <1>2
      <3>2. QED
        BY <3>1 DEF First
    <2>4. g[s] = f[a] + g[s \ {a}]
      BY <1>1, <2>3, Zenon DEF SumsOf
    <2> HIDE DEF a
    <2>6. ASSUME NEW x \in s PROVE g[s] = f[x] + g[s \ {x}]
      <3>1. CASE x = a
        BY <2>4, <3>1
      <3>2. CASE x # a
        <4>1. g[s \ {a}] = f[x] + g[(s \ {a}) \ {x}]
          BY <2>2, <2>3, <3>2, Zenon
        <4>2. g[s \ {x}] = f[a] + g[(s \ {x}) \ {a}]
          BY <2>2, <2>3, <3>2
        <4>3. (s \ {a}) \ {x} = (s \ {x}) \ {a}
          OBVIOUS
        <4>4. g[(s \ {a}) \ {x}] \in Int /\ f[x] \in Int /\ f[a] \in Int
          BY <1>0, <2>3
        <4> DEFINE rest == g[(s \ {a}) \ {x}]
        <4>5. g[s \ {x}] = f[a] + rest
          BY <4>2, <4>3
        <4>6. g[s] = f[a] + (f[x] + rest)
          BY <2>4, <4>1
        <4>7. rest \in Int /\ f[x] \in Int /\ f[a] \in Int
          BY <4>4
        <4> HIDE DEF rest
        <4>8. QED
          BY <4>5, <4>6, <4>7
      <3>3. QED
        BY <3>1, <3>2
    <2>7. QED
      BY <2>6
  <1>6. Cardinality(S) \in N
    <2> HIDE DEF N
    <2>1. QED
      BY <1>2, <1>4, <1>5, SetInduction
  <1>7. Good(S)
    BY <1>6
  <1>8. g[S] \in Int /\ \A x \in S : g[S \ {x}] \in Int
    BY <1>0
  <1>9. \A s \in SUBSET S : Total(f, s) = g[s]
    BY <1>1, TotalIs
  <1>10. QED
    BY <1>7, <1>8, <1>9, Zenon

LEMMA TotalSame ==
    ASSUME NEW S, IsFiniteSet(S), NEW f, NEW h, \A x \in S : f[x] = h[x]
    PROVE  Total(f, S) = Total(h, S)
  <1>1. PICK g : SumsOf(f, S, g)
    BY SumStep
  <1>2. \A s \in SUBSET S : s # {} => First(s) \in S
    BY DEF First
  <1>3. SumsOf(h, S, g)
    <2>1. [s \in SUBSET S |-> IF s = {} THEN 0 ELSE f[First(s)] + g[s \ {First(s)}]]
              = [s \in SUBSET S |-> IF s = {} THEN 0 ELSE h[First(s)] + g[s \ {First(s)}]]
      BY <1>2
    <2>2. QED
      BY <1>1, <2>1, Zenon DEF SumsOf
  <1>4. QED
    BY <1>1, <1>3, TotalIs

\* A total grows with its summands, and with more of them that are not negative.
LEMMA TotalGrows ==
    ASSUME NEW T, IsFiniteSet(T), NEW S \in SUBSET T, NEW f, NEW h,
           \A x \in S : f[x] \in Int /\ f[x] <= h[x],
           \A x \in T : h[x] \in Int, \A x \in T \ S : 0 <= h[x]
    PROVE  Total(f, S) \in Int /\ Total(h, T) \in Int /\ Total(f, S) <= Total(h, T)
  <1> DEFINE Good == {s \in SUBSET T : Total(f, s \intersect S) <= Total(h, s)}
  <1>1. ASSUME NEW s \in SUBSET T
        PROVE  /\ Total(f, s \intersect S) \in Int /\ Total(h, s) \in Int
               /\ \A x \in s : Total(h, s \ {x}) \in Int /\ Total(h, s) = h[x] + Total(h, s \ {x})
               /\ \A x \in s \intersect S :
                      /\ Total(f, (s \intersect S) \ {x}) \in Int
                      /\ Total(f, s \intersect S) = f[x] + Total(f, (s \intersect S) \ {x})
    <2>1. IsFiniteSet(s) /\ IsFiniteSet(s \intersect S)
      BY FS_Subset
    <2>2. (\A x \in s : h[x] \in Int) /\ (\A x \in s \intersect S : f[x] \in Int)
      OBVIOUS
    <2>3. QED
      BY <2>1, <2>2, TotalInsert, Zenon
  <1>2. {} \in Good
    <2>1. {} \intersect S = {} /\ Total(f, {}) = 0 /\ Total(h, {}) = 0
      BY TotalEmpty
    <2>2. QED
      BY <2>1
  <1>3. ASSUME NEW s \in SUBSET T, s # {}, s \ {First(s)} \in Good PROVE s \in Good
    <2> DEFINE a == First(s)
               low == Total(f, (s \ {a}) \intersect S)
               high == Total(h, s \ {a})
    <2>1. a \in s
      BY <1>3 DEF First
    <2> HIDE DEF a
    <2>2. low <= high
      BY <1>3 DEF a
    <2>3. Total(h, s) = h[a] + high /\ high \in Int /\ h[a] \in Int
      BY <1>1, <2>1, Zenon
    <2>4. low \in Int
      BY <1>1
    <2>5. CASE a \in S
      <3>1. (s \ {a}) \intersect S = (s \intersect S) \ {a}
        OBVIOUS
      <3>2. Total(f, s \intersect S) = f[a] + low
        <4>1. a \in s \intersect S
          BY <2>1, <2>5
        <4>2. Total(f, s \intersect S) = f[a] + Total(f, (s \intersect S) \ {a})
          BY <1>1, <4>1, Zenon
        <4>3. QED
          BY <3>1, <4>2, Zenon
      <3>3. f[a] \in Int /\ f[a] <= h[a]
        BY <2>5
      <3> HIDE DEF low, high
      <3>4. Total(f, s \intersect S) <= Total(h, s)
        BY <2>2, <2>3, <2>4, <3>2, <3>3
      <3>5. QED
        BY <3>4
    <2>6. CASE a \notin S
      <3>1. (s \ {a}) \intersect S = s \intersect S
        BY <2>6
      <3>2. Total(f, s \intersect S) = low /\ 0 <= h[a]
        BY <2>1, <2>6, <3>1
      <3> HIDE DEF low, high
      <3>3. Total(f, s \intersect S) <= Total(h, s)
        BY <2>2, <2>3, <2>4, <3>2
      <3>4. QED
        BY <3>3
    <2>7. QED
      BY <2>5, <2>6
  <1> HIDE DEF Good
  <1>4. T \in Good
    BY <1>2, <1>3, SubsetInduction
  <1>5. T \intersect S = S
    OBVIOUS
  <1>6. QED
    BY <1>1, <1>4, <1>5, Zenon DEF Good

-------------------------------------------------------------------------------
(* What a like adds to what was learned *)

LEMMA FeedCardinality == \A S : Feed!Cardinality(S) = Cardinality(S)
  BY DEF Feed!Cardinality, Cardinality

LEMMA FeedMin == \A S : Feed!Min(S) = Min(S)
  BY DEF Feed!Min, Min

Learnable(s) ==
    /\ s \in Seq(ToSet(s))
    /\ \A n \in DOMAIN s : s[n].weight \in Int /\ IsFiniteSet(s[n].job.skills)

Like(job) == [kind |-> "LIKE", weight |-> 10, job |-> job]

\* The key is one of the job's.
Own(job, field, key) == IF field = "skills" THEN key \in job.skills ELSE job[field] = key

LEMMA HavingIs ==
    ASSUME NEW s, Learnable(s), NEW field, NEW key
    PROVE  /\ Feed!Having(s, field, key) \in SUBSET (1 .. Len(s))
           /\ IsFiniteSet(Feed!Having(s, field, key))
  <1>1. DOMAIN s = 1 .. Len(s) /\ Len(s) \in Nat
    BY DEF Learnable
  <1>2. Feed!Having(s, field, key) \in SUBSET (1 .. Len(s))
    BY <1>1 DEF Feed!Having, Feed!Taught
  <1>3. IsFiniteSet(1 .. Len(s))
    BY <1>1, FS_Interval
  <1>4. QED
    BY <1>2, <1>3, FS_Subset

Weights(s, field, key) == [n \in Feed!Having(s, field, key) |-> s[n].weight]

LEMMA WeightIs ==
    ASSUME NEW s, Learnable(s), NEW field, NEW key
    PROVE  /\ Feed!WeightOf(s, field, key)
                  = Total(Weights(s, field, key), Feed!Having(s, field, key))
           /\ Feed!WeightOf(s, field, key) \in Int
  <1> DEFINE S == Feed!Having(s, field, key)
             f == Weights(s, field, key)
             Is(iter) == iter = [t \in SUBSET S |-> IF t = {} THEN 0
                                    ELSE s[First(t)].weight + iter[t \ {First(t)}]]
             g == CHOOSE iter : Is(iter)
  <1>1. Feed!WeightOf(s, field, key) = g[S]
    BY DEF Feed!WeightOf, Feed!MapThenSumSet, Feed!MapThenFoldSet, First
  <1>2. ASSUME NEW iter PROVE Is(iter) <=> SumsOf(f, S, iter)
    <2>1. \A t \in SUBSET S : t # {} => First(t) \in S
      BY DEF First
    <2>2. [t \in SUBSET S |-> IF t = {} THEN 0 ELSE s[First(t)].weight + iter[t \ {First(t)}]]
              = [t \in SUBSET S |-> IF t = {} THEN 0 ELSE f[First(t)] + iter[t \ {First(t)}]]
      BY <2>1 DEF Weights
    <2>3. QED
      BY <2>2 DEF SumsOf
  <1>3. IsFiniteSet(S)
    BY HavingIs
  <1>4. \A x \in S : f[x] \in Int
    BY HavingIs DEF Weights, Learnable
  <1> HIDE DEF Is, S, f
  <1>5. \E iter : Is(iter)
    BY <1>2, <1>3, SumStep
  <1>6. Is(g)
    BY <1>5
  <1> HIDE DEF g
  <1>7. g[S] = Total(f, S)
    BY <1>2, <1>3, <1>6, TotalIs
  <1>8. Total(f, S) \in Int
    BY <1>3, <1>4, TotalInsert
  <1>9. QED
    BY <1>1, <1>7, <1>8 DEF S, f

LEMMA LikedIs ==
    ASSUME NEW s, Learnable(s), NEW job, IsFiniteSet(job.skills)
    PROVE  LET t == Append(s, Like(job))
           IN  /\ Learnable(t) /\ Len(t) = Len(s) + 1 /\ Len(s) \in Nat
               /\ \A n \in 1 .. Len(s) : t[n] = s[n]
               /\ t[Len(s) + 1] = Like(job)
               /\ Feed!Taught(t) = Feed!Taught(s) \union {Len(s) + 1}
               /\ Feed!Taught(s) \in SUBSET (1 .. Len(s))
  <1> DEFINE t == Append(s, Like(job))
             T == ToSet(s) \union {Like(job)}
  <1>1. s \in Seq(T) /\ Len(s) \in Nat /\ DOMAIN s = 1 .. Len(s)
    <2>1. s \in Seq(ToSet(s)) /\ ToSet(s) \in SUBSET T
      BY DEF Learnable
    <2> HIDE DEF T
    <2>2. QED
      BY <2>1
  <1>2. Like(job) \in T
    OBVIOUS
  <1> HIDE DEF T
  <1>3. /\ t \in Seq(T) /\ Len(t) = Len(s) + 1 /\ DOMAIN t = 1 .. Len(s) + 1
        /\ \A n \in 1 .. Len(s) : t[n] = s[n]
        /\ t[Len(s) + 1] = Like(job)
    BY <1>1, <1>2
  <1> HIDE DEF t
  <1>4. t \in Seq(ToSet(t))
    BY <1>3 DEF ToSet
  <1>5. \A n \in DOMAIN t : t[n].weight \in Int /\ IsFiniteSet(t[n].job.skills)
    <2> SUFFICES ASSUME NEW n \in 1 .. Len(s) + 1
                 PROVE  t[n].weight \in Int /\ IsFiniteSet(t[n].job.skills)
      BY <1>3
    <2>1. CASE n \in 1 .. Len(s)
      BY <1>1, <1>3, <2>1 DEF Learnable
    <2>2. CASE n = Len(s) + 1
      BY <1>3, <2>2 DEF Like
    <2>3. QED
      BY <1>1, <2>1, <2>2
  <1>6. Feed!Taught(t) = Feed!Taught(s) \union {Len(s) + 1} /\ Feed!Taught(s) \in SUBSET (1 .. Len(s))
    BY <1>1, <1>3 DEF Feed!Taught, Like
  <1>7. QED
    BY <1>1, <1>3, <1>4, <1>5, <1>6 DEF Learnable, t

LEMMA HavingLiked ==
    ASSUME NEW s, Learnable(s), NEW job, IsFiniteSet(job.skills), NEW field, NEW key
    PROVE  Feed!Having(Append(s, Like(job)), field, key)
               = Feed!Having(s, field, key) \union (IF Own(job, field, key) THEN {Len(s) + 1} ELSE {})
  <1> DEFINE t == Append(s, Like(job))
  <1>1. /\ Len(s) \in Nat /\ \A n \in 1 .. Len(s) : t[n] = s[n]
        /\ t[Len(s) + 1].job = job
        /\ Feed!Taught(t) = Feed!Taught(s) \union {Len(s) + 1}
        /\ Feed!Taught(s) \in SUBSET (1 .. Len(s))
    BY LikedIs DEF Like
  <1> HIDE DEF t
  <1>2. Feed!Having(t, field, key)
            = Feed!Having(s, field, key) \union (IF Own(job, field, key) THEN {Len(s) + 1} ELSE {})
    BY <1>1 DEF Feed!Having, Own
  <1>3. QED
    BY <1>2 DEF t

LEMMA KeysLiked ==
    ASSUME NEW s, Learnable(s), NEW job, IsFiniteSet(job.skills), NEW field
    PROVE  Feed!Keys(Append(s, Like(job)), field)
               = Feed!Keys(s, field) \union
                     (IF field = "skills" THEN job.skills ELSE {job[field]} \ {{}})
  <1> DEFINE t == Append(s, Like(job))
  <1>1. /\ Len(s) \in Nat /\ \A n \in 1 .. Len(s) : t[n] = s[n]
        /\ t[Len(s) + 1].job = job
        /\ Feed!Taught(t) = Feed!Taught(s) \union {Len(s) + 1}
        /\ Feed!Taught(s) \in SUBSET (1 .. Len(s))
    BY LikedIs DEF Like
  <1> HIDE DEF t
  <1>2. CASE field = "skills"
    <2> DEFINE A == UNION {t[n].job.skills : n \in Feed!Taught(t)}
               B == UNION {s[n].job.skills : n \in Feed!Taught(s)}
    <2>1. \A n \in Feed!Taught(s) : t[n].job.skills = s[n].job.skills /\ n \in Feed!Taught(t)
      BY <1>1
    <2>2. \A n \in Feed!Taught(t) : n \in Feed!Taught(s) \/ t[n].job.skills = job.skills
      BY <1>1
    <2>3. \E n \in Feed!Taught(t) : t[n].job.skills = job.skills
      BY <1>1
    <2>4. ASSUME NEW x \in A PROVE x \in B \union job.skills
      <3>1. PICK n \in Feed!Taught(t) : x \in t[n].job.skills
        OBVIOUS
      <3>2. QED
        BY <2>1, <2>2, <3>1
    <2>5. ASSUME NEW x \in B PROVE x \in A
      <3>1. PICK n \in Feed!Taught(s) : x \in s[n].job.skills
        OBVIOUS
      <3>2. QED
        BY <2>1, <3>1
    <2>6. ASSUME NEW x \in job.skills PROVE x \in A
      BY <2>3
    <2>7. Feed!Keys(t, field) = A /\ Feed!Keys(s, field) = B
      BY <1>2 DEF Feed!Keys
    <2> HIDE DEF A, B
    <2>8. Feed!Keys(t, field) = Feed!Keys(s, field) \union job.skills
      BY <2>4, <2>5, <2>6, <2>7
    <2>9. QED
      BY <1>2, <2>8 DEF t
  <1>3. CASE field # "skills"
    <2>1. {t[n].job[field] : n \in Feed!Taught(t)}
              = {s[n].job[field] : n \in Feed!Taught(s)} \union {job[field]}
      BY <1>1
    <2>2. QED
      BY <1>3, <2>1, Zenon DEF Feed!Keys, t
  <1>4. QED
    BY <1>2, <1>3

\* A like adds its weight to the job's own keys and to no other.
LEMMA WeightLiked ==
    ASSUME NEW s, Learnable(s), NEW job, IsFiniteSet(job.skills), NEW field, NEW key
    PROVE  Feed!WeightOf(Append(s, Like(job)), field, key)
               = Feed!WeightOf(s, field, key) + (IF Own(job, field, key) THEN 10 ELSE 0)
  <1> DEFINE t == Append(s, Like(job))
             S == Feed!Having(s, field, key)
             T == Feed!Having(t, field, key)
             f == Weights(s, field, key)
             h == Weights(t, field, key)
             end == Len(s) + 1
  <1>1. /\ Learnable(t) /\ Len(s) \in Nat /\ \A n \in 1 .. Len(s) : t[n] = s[n]
        /\ t[end].weight = 10
    BY LikedIs DEF Like
  <1>2. T = S \union (IF Own(job, field, key) THEN {end} ELSE {})
    BY HavingLiked
  <1>3. S \in SUBSET (1 .. Len(s)) /\ IsFiniteSet(S) /\ IsFiniteSet(T)
    BY <1>1, HavingIs
  <1> HIDE DEF t
  <1>4. \A n \in S : n \in 1 .. Len(s)
    BY <1>3
  <1>5. end \notin S
    BY <1>1, <1>4
  <1>6. \A x \in S : f[x] = h[x]
    <2>1. \A x \in S : x \in T
      BY <1>2
    <2>2. \A x \in S : f[x] = s[x].weight /\ h[x] = t[x].weight
      BY <2>1 DEF Weights
    <2>3. QED
      BY <1>1, <1>4, <2>2
  <1>7. \A x \in T : h[x] \in Int
    <2>1. T \in SUBSET (1 .. Len(t)) /\ DOMAIN t = 1 .. Len(t)
      BY <1>1, HavingIs DEF Learnable
    <2>2. \A x \in T : h[x] = t[x].weight
      BY DEF Weights
    <2>3. QED
      BY <1>1, <2>1, <2>2 DEF Learnable
  <1>8. Feed!WeightOf(s, field, key) = Total(f, S) /\ Feed!WeightOf(s, field, key) \in Int
    BY WeightIs
  <1>9. Feed!WeightOf(t, field, key) = Total(h, T)
    BY <1>1, WeightIs
  <1>10. h[end] = 10 \/ ~Own(job, field, key)
    BY <1>1, <1>2 DEF Weights
  <1> HIDE DEF S, T, f, h, end
  <1>11. Total(f, S) = Total(h, S)
    BY <1>3, <1>6, TotalSame, Zenon
  <1>12. CASE Own(job, field, key)
    <2>1. end \in T /\ T \ {end} = S
      BY <1>2, <1>5, <1>12
    <2>2. Total(h, T) = h[end] + Total(h, T \ {end})
      BY <1>3, <1>7, <2>1, TotalInsert
    <2>3. Feed!WeightOf(t, field, key) = 10 + Feed!WeightOf(s, field, key)
      BY <1>8, <1>9, <1>10, <1>11, <1>12, <2>1, <2>2
    <2>4. QED
      BY <1>8, <1>12, <2>3 DEF t
  <1>13. CASE ~Own(job, field, key)
    BY <1>2, <1>8, <1>9, <1>11, <1>13 DEF t
  <1>14. QED
    BY <1>12, <1>13

\* What was not learned has no weight.
LEMMA WeightOfUnknown ==
    ASSUME NEW s, Learnable(s), NEW field, NEW key,
           key \notin Feed!Keys(s, field), field = "skills" \/ key # {}
    PROVE  Feed!WeightOf(s, field, key) = 0
  <1>1. Feed!Having(s, field, key) = {}
    BY DEF Feed!Having, Feed!Keys
  <1>2. QED
    BY <1>1, WeightIs, TotalEmpty

\* A sum of parts, part by part.
Deltas(parts) == [n \in DOMAIN parts |-> parts[n].delta]
Summand(p) == p.delta \in Int

LEMMA SumOfIs ==
    ASSUME NEW parts, parts \in Seq(ToSet(parts))
    PROVE  Feed!SumOf(parts) = Total(Deltas(parts), 1 .. Len(parts))
  <1> DEFINE S == DOMAIN parts
             f == Deltas(parts)
             Is(iter) == iter = [t \in SUBSET S |-> IF t = {} THEN 0
                                    ELSE parts[First(t)].delta + iter[t \ {First(t)}]]
             g == CHOOSE iter : Is(iter)
  <1>1. Feed!SumOf(parts) = g[S]
    BY DEF Feed!SumOf, Feed!FoldSeq, Feed!FoldFunction, Feed!FoldFunctionOnSet,
           Feed!MapThenFoldSet, First
  <1>2. ASSUME NEW iter PROVE Is(iter) <=> SumsOf(f, S, iter)
    <2>1. \A t \in SUBSET S : t # {} => First(t) \in S
      BY DEF First
    <2>2. [t \in SUBSET S |-> IF t = {} THEN 0 ELSE parts[First(t)].delta + iter[t \ {First(t)}]]
              = [t \in SUBSET S |-> IF t = {} THEN 0 ELSE f[First(t)] + iter[t \ {First(t)}]]
      BY <2>1 DEF Deltas
    <2>3. QED
      BY <2>2, Zenon DEF SumsOf
  <1>3. S = 1 .. Len(parts) /\ IsFiniteSet(1 .. Len(parts))
    BY FS_Interval
  <1> HIDE DEF Is, S, f
  <1>4. Is(g)
    BY <1>2, <1>3, SumStep
  <1> HIDE DEF g
  <1>5. g[S] = Total(f, S)
    BY <1>2, <1>3, <1>4, TotalIs, Zenon
  <1>6. QED
    BY <1>1, <1>3, <1>5 DEF f

\* A sequence of parts, each an integer.
Parted(parts) == parts \in Seq(ToSet(parts)) /\ \A n \in 1 .. Len(parts) : Summand(parts[n])

LEMMA PartedTotal ==
    ASSUME NEW parts, Parted(parts)
    PROVE  Feed!SumOf(parts) \in Int
  <1>1. Feed!SumOf(parts) = Total(Deltas(parts), 1 .. Len(parts))
    BY SumOfIs DEF Parted
  <1>2. IsFiniteSet(1 .. Len(parts)) /\ DOMAIN parts = 1 .. Len(parts)
    BY FS_Interval DEF Parted
  <1>3. \A n \in 1 .. Len(parts) : Deltas(parts)[n] \in Int
    BY <1>2 DEF Deltas, Parted, Summand
  <1>4. QED
    BY <1>1, <1>2, <1>3, TotalInsert

LEMMA NoParts == Parted(<< >>) /\ Feed!SumOf(<< >>) = 0
  <1>1. << >> \in Seq(ToSet(<< >>)) /\ Len(<< >>) = 0
    OBVIOUS
  <1>2. Feed!SumOf(<< >>) = Total(Deltas(<< >>), 1 .. Len(<< >>))
    BY <1>1, SumOfIs, Zenon
  <1>3. 1 .. Len(<< >>) = {}
    BY <1>1
  <1>4. QED
    BY <1>1, <1>2, <1>3, TotalEmpty DEF Parted

LEMMA OneMorePart ==
    ASSUME NEW parts, Parted(parts), NEW p, Summand(p)
    PROVE  Parted(Append(parts, p)) /\ Feed!SumOf(Append(parts, p)) = Feed!SumOf(parts) + p.delta
  <1> DEFINE more == Append(parts, p)
             T == ToSet(parts) \union {p}
             end == Len(parts) + 1
  <1>1. parts \in Seq(T) /\ Len(parts) \in Nat
    <2>1. parts \in Seq(ToSet(parts)) /\ ToSet(parts) \in SUBSET T
      BY DEF Parted
    <2> HIDE DEF T
    <2>2. QED
      BY <2>1
  <1>2. p \in T
    OBVIOUS
  <1> HIDE DEF T
  <1>3. /\ more \in Seq(T) /\ Len(more) = end /\ DOMAIN more = 1 .. end
        /\ \A n \in 1 .. Len(parts) : more[n] = parts[n]
        /\ more[end] = p
    BY <1>1, <1>2
  <1> HIDE DEF more
  <1>4. \A n \in 1 .. end : n = end \/ n \in 1 .. Len(parts)
    BY <1>1
  <1>5. Parted(more)
    BY <1>3, <1>4 DEF Parted, ToSet
  <1>6. /\ Feed!SumOf(more) = Total(Deltas(more), 1 .. end)
        /\ Feed!SumOf(parts) = Total(Deltas(parts), 1 .. Len(parts))
    BY <1>3, <1>5, SumOfIs DEF Parted
  <1>7. /\ IsFiniteSet(1 .. end) /\ IsFiniteSet(1 .. Len(parts))
        /\ end \in 1 .. end /\ (1 .. end) \ {end} = 1 .. Len(parts)
    <2>1. end \in Int /\ Len(parts) \in Int /\ 1 \in Int
      BY <1>1
    <2>2. IsFiniteSet(1 .. end) /\ IsFiniteSet(1 .. Len(parts))
      BY <2>1, FS_Interval
    <2>3. end \in 1 .. end /\ (1 .. end) \ {end} = 1 .. Len(parts)
      BY <1>1
    <2>4. QED
      BY <2>2, <2>3
  <1>8. \A n \in 1 .. end : Deltas(more)[n] \in Int
    BY <1>3, <1>5 DEF Deltas, Parted, Summand
  <1>9. Total(Deltas(more), 1 .. end) = Deltas(more)[end] + Total(Deltas(more), 1 .. Len(parts))
    <2> DEFINE S == 1 .. end
    <2> HIDE DEF S
    <2>1. IsFiniteSet(S) /\ end \in S /\ \A n \in S : Deltas(more)[n] \in Int
      BY <1>7, <1>8 DEF S
    <2>2. Total(Deltas(more), S) = Deltas(more)[end] + Total(Deltas(more), S \ {end})
      BY <2>1, TotalInsert
    <2>3. QED
      BY <1>7, <2>2, Zenon DEF S
  <1>10. Total(Deltas(more), 1 .. Len(parts)) = Total(Deltas(parts), 1 .. Len(parts))
    <2>1. DOMAIN parts = 1 .. Len(parts) /\ \A n \in 1 .. Len(parts) : n \in 1 .. end
      BY <1>1, <1>7
    <2>2. \A n \in 1 .. Len(parts) : Deltas(more)[n] = Deltas(parts)[n]
      BY <1>3, <2>1 DEF Deltas
    <2>3. QED
      BY <1>7, <2>2, TotalSame
  <1>11. Deltas(more)[end] = p.delta
    BY <1>3, <1>7 DEF Deltas
  <1>12. Feed!SumOf(more) = p.delta + Feed!SumOf(parts)
    BY <1>6, <1>9, <1>10, <1>11
  <1>13. p.delta \in Int /\ Feed!SumOf(parts) \in Int
    BY PartedTotal DEF Summand
  <1>14. QED
    BY <1>5, <1>12, <1>13 DEF more

\* An optional part counts when it is there.
LEMMA OptionalPart ==
    ASSUME NEW parts, Parted(parts), NEW c, NEW p, c => Summand(p)
    PROVE  /\ Parted(parts \o Feed!Optional(c, p))
           /\ Feed!SumOf(parts \o Feed!Optional(c, p))
                  = Feed!SumOf(parts) + (IF c THEN p.delta ELSE 0)
           /\ Parted(Feed!Optional(c, p))
           /\ Feed!SumOf(Feed!Optional(c, p)) = (IF c THEN p.delta ELSE 0)
  <1>1. parts \in Seq(ToSet(parts)) /\ Feed!SumOf(parts) \in Int
    BY PartedTotal DEF Parted
  <1>2. CASE c
    <2>1. parts \o <<p>> = Append(parts, p) /\ <<p>> = Append(<< >>, p)
      BY <1>1
    <2>2. Parted(Append(parts, p)) /\ Feed!SumOf(Append(parts, p)) = Feed!SumOf(parts) + p.delta
      BY <1>2, OneMorePart
    <2>3. Parted(Append(<< >>, p)) /\ Feed!SumOf(Append(<< >>, p)) = 0 + p.delta
      BY <1>2, NoParts, OneMorePart, Zenon
    <2>4. p.delta \in Int
      BY <1>2 DEF Summand
    <2>5. Feed!Optional(c, p) = <<p>> /\ 0 + p.delta = p.delta
      BY <1>2, <2>4 DEF Feed!Optional
    <2>6. QED
      BY <1>2, <2>1, <2>2, <2>3, <2>5, Zenon
  <1>3. CASE ~c
    <2>1. parts \o << >> = parts
      BY <1>1
    <2>2. QED
      BY <1>1, <1>3, <2>1, NoParts DEF Feed!Optional
  <1>4. QED
    BY <1>2, <1>3

-------------------------------------------------------------------------------
(* Clamped weights *)

LEMMA ClampIs ==
    ASSUME NEW low \in Int, NEW high \in Int, low <= high, NEW x \in Int, NEW y \in Int
    PROVE  /\ Feed!Clamp(x, low, high) \in Int
           /\ low <= Feed!Clamp(x, low, high) /\ Feed!Clamp(x, low, high) <= high
           /\ x <= y => Feed!Clamp(x, low, high) <= Feed!Clamp(y, low, high)
  BY DEF Feed!Clamp

LEMMA StrengthIs ==
    ASSUME NEW x \in Int, NEW y \in Int
    PROVE  /\ Feed!Strength(x) \in Int /\ -30 <= Feed!Strength(x) /\ Feed!Strength(x) <= 30
           /\ x <= y => Feed!Strength(x) <= Feed!Strength(y)
           /\ 0 <= x => 0 <= Feed!Strength(x)
           /\ x <= 0 => Feed!Strength(x) <= 0
  BY DEF Feed!Strength, Feed!Clamp

-------------------------------------------------------------------------------
(* The greatest of finitely many, the first of equals *)

LEMMA LeaderExists ==
    ASSUME NEW S, IsFiniteSet(S), S # {}, NEW f, NEW g,
           \A k \in S : f[k] \in Int /\ g[k] \in Int, \A k, l \in S : g[k] = g[l] => k = l
    PROVE  \E k \in S : \A l \in S \ {k} : f[k] > f[l] \/ (f[k] = f[l] /\ g[k] < g[l])
  <1> DEFINE Ahead(k, l) == f[k] > f[l] \/ (f[k] = f[l] /\ g[k] < g[l])
             Good == {s \in SUBSET S : s = {} \/ \E k \in s : \A l \in s \ {k} : Ahead(k, l)}
  <1>1. \A k, l \in S : k = l \/ Ahead(k, l) \/ Ahead(l, k)
    OBVIOUS
  <1>2. \A k, l, m \in S : Ahead(k, l) /\ Ahead(l, m) => Ahead(k, m)
    OBVIOUS
  <1> HIDE DEF Ahead
  <1>3. {} \in Good
    OBVIOUS
  <1>4. ASSUME NEW s \in SUBSET S, s # {}, s \ {First(s)} \in Good PROVE s \in Good
    <2> DEFINE a == First(s)
    <2>1. a \in s /\ a \in S
      BY <1>4 DEF First
    <2>2. s \ {a} = {} \/ \E k \in s \ {a} : \A l \in (s \ {a}) \ {k} : Ahead(k, l)
      BY <1>4
    <2> HIDE DEF a
    <2>3. CASE s \ {a} = {}
      BY <2>1, <2>3
    <2>4. CASE \E k \in s \ {a} : \A l \in (s \ {a}) \ {k} : Ahead(k, l)
      <3>1. PICK k \in s \ {a} : \A l \in (s \ {a}) \ {k} : Ahead(k, l)
        BY <2>4
      <3>2. CASE Ahead(k, a)
        <4>1. \A l \in s \ {k} : Ahead(k, l)
          BY <3>1, <3>2
        <4>2. QED
          BY <4>1
      <3>3. CASE Ahead(a, k)
        <4>1. \A l \in s \ {a} : Ahead(a, l)
          BY <1>2, <2>1, <3>1, <3>3
        <4>2. QED
          BY <2>1, <4>1
      <3>4. QED
        BY <1>1, <2>1, <3>2, <3>3
    <2>5. QED
      BY <2>2, <2>3, <2>4
  <1> HIDE DEF Good
  <1>5. S \in Good
    BY <1>3, <1>4, SubsetInduction
  <1>6. QED
    BY <1>5 DEF Good, Ahead

-------------------------------------------------------------------------------
(* What each kind of key adds to a score *)

LEMMA ProductDiv ==
    ASSUME NEW x \in Int, NEW n \in Nat \ {0}
    PROVE  (x * n) \div n = x
  <1> DEFINE q == (x * n) \div n
             r == (x * n) % n
             a == x * n
  <1>1. a \in Int
    OBVIOUS
  <1> HIDE DEF a
  <1>2. a \div n \in Int /\ a % n \in 0 .. (n - 1) /\ a = n * (a \div n) + (a % n)
    BY <1>1
  <1> DEFINE u == a \div n
             v == a % n
  <1>3. u \in Int /\ v \in Int /\ 0 <= v /\ v < n /\ a = n * u + v
    BY <1>2
  <1>4. a \div n = u
    OBVIOUS
  <1> HIDE DEF u, v
  <1>5. n * (x - u) = v
    BY <1>3 DEF a
  <1> DEFINE d == x - u
  <1>6. d \in Int /\ n * d = v
    BY <1>3, <1>5
  <1>7. d = 0
    <2>1. x - u = d
      OBVIOUS
    <2> HIDE DEF d
    <2>2. CASE d >= 1
      <3>1. n * d >= n
        BY <1>6, <2>2
      <3>2. QED
        BY <1>3, <1>6, <3>1
    <2>3. CASE d <= -1
      <3>1. n * d <= -n
        BY <1>6, <2>3
      <3>2. QED
        BY <1>3, <1>6, <3>1
    <2>4. QED
      BY <1>6, <2>2, <2>3
  <1>8. u = x
    BY <1>3, <1>7
  <1>9. QED
    BY <1>4, <1>8 DEF a

RoleGain(m, s) ==
    IF m.job.role # {} /\ m.job.role \in Feed!Roles(s)
    THEN 12 * Feed!Strength(Feed!WeightOf(s, "role", m.job.role)) ELSE 0

StandsIn(m, s) == m.job.role \notin Feed!Roles(s) /\ Feed!RoleFor(s, m.job.role) # {}

\* Of an optional part, whether it is there and what it adds.
PartIs(piece, c, p, gain) ==
    /\ piece = Feed!Optional(c, p) /\ (c => Summand(p))
    /\ gain \in Int /\ gain = (IF c THEN p.delta ELSE 0)

LEMMA RolePartIs ==
    ASSUME NEW s, Learnable(s), NEW m, IsFiniteSet(m.job.role), ~StandsIn(m, s)
    PROVE  \E c, p : PartIs(Feed!RolePart(m, s), c, p, RoleGain(m, s))
  <1> DEFINE role == m.job.role
             k == CHOOSE key \in Feed!RoleFor(s, role) : TRUE
             w == Feed!WeightOf(s, "role", k)
             c == role # {} /\ Feed!RoleFor(s, role) # {}
             p == [delta |-> (12 * Feed!Strength(w) * Feed!Cardinality(k \intersect role))
                                 \div Feed!Cardinality(k \union role), says |-> Feed!Says(w)]
  <1>1. Feed!RolePart(m, s) = Feed!Optional(c, p)
    BY DEF Feed!RolePart
  <1>2. CASE role \in Feed!Roles(s) /\ role # {}
    <2>1. Feed!RoleFor(s, role) = {role}
      BY <1>2 DEF Feed!RoleFor
    <2>2. k = role
      BY <2>1
    <2>3. p.delta = (12 * Feed!Strength(w) * Feed!Cardinality(k \intersect role))
                        \div Feed!Cardinality(k \union role)
      OBVIOUS
    <2>4. k \intersect role = role /\ k \union role = role
      BY <2>2, Zenon
    <2> DEFINE x == 12 * Feed!Strength(w)
               n == Cardinality(role)
    <2>5. w = Feed!WeightOf(s, "role", role)
      BY <2>2, Zenon
    <2>6. w \in Int
      BY <2>5, WeightIs
    <2>7. x \in Int /\ x = 12 * Feed!Strength(Feed!WeightOf(s, "role", role))
      BY <2>5, <2>6, StrengthIs
    <2>8. n \in Nat \ {0}
      BY <1>2, FS_CardinalityType, FS_EmptySet
    <2>9. p.delta = (x * n) \div n
      BY <2>3, <2>4, FeedCardinality, Zenon
    <2> HIDE DEF x, n, p, k
    <2>10. p.delta = x
      BY <2>7, <2>8, <2>9, ProductDiv
    <2>11. c = TRUE
      BY <1>2, <2>1
    <2>12. RoleGain(m, s) = x
      BY <1>2, <2>7 DEF RoleGain
    <2> HIDE DEF c, role
    <2>13. PartIs(Feed!RolePart(m, s), c, p, RoleGain(m, s))
      BY <1>1, <2>7, <2>10, <2>11, <2>12 DEF PartIs, Summand
    <2>14. QED
      BY <2>13
  <1>3. CASE ~(role \in Feed!Roles(s) /\ role # {})
    <2>1. c = FALSE
      BY <1>3 DEF StandsIn
    <2>2. RoleGain(m, s) = 0
      BY <1>3 DEF RoleGain
    <2> HIDE DEF c, p, role
    <2>3. PartIs(Feed!RolePart(m, s), c, p, RoleGain(m, s))
      BY <1>1, <2>1, <2>2 DEF PartIs
    <2>4. QED
      BY <2>3
  <1>4. QED
    BY <1>2, <1>3

Hits(m, s) == m.job.skills \intersect Feed!Keys(s, "skills")
SkillStrength(s, S) == [k \in S |-> Feed!Strength(Feed!WeightOf(s, "skills", k))]
SkillGain(m, s) ==
    IF Hits(m, s) = {} THEN 0
    ELSE 10 * Feed!Clamp(Total(SkillStrength(s, Hits(m, s)), Hits(m, s)), -30, 30)

LEMMA StrengthsAre ==
    ASSUME NEW s, Learnable(s), NEW S, IsFiniteSet(S)
    PROVE  /\ \A k \in S : SkillStrength(s, S)[k] \in Int
           /\ Total(SkillStrength(s, S), S) \in Int
  <1>1. \A k \in S : SkillStrength(s, S)[k] \in Int
    <2>1. \A k \in S : Feed!WeightOf(s, "skills", k) \in Int
      BY WeightIs
    <2>2. \A k \in S : Feed!Strength(Feed!WeightOf(s, "skills", k)) \in Int
      BY <2>1, StrengthIs
    <2>3. QED
      BY <2>2 DEF SkillStrength
  <1>2. QED
    BY <1>1, TotalInsert

LEMMA SkillPartIs ==
    ASSUME NEW s, Learnable(s), NEW m, IsFiniteSet(m.job.skills)
    PROVE  \E c, p : PartIs(Feed!SkillPart(m, s), c, p, SkillGain(m, s))
  <1> DEFINE S == Hits(m, s)
             f == SkillStrength(s, S)
             Is(iter) == iter = [t \in SUBSET S |-> IF t = {} THEN 0
                            ELSE Feed!Strength(Feed!WeightOf(s, "skills", First(t))) + iter[t \ {First(t)}]]
             g == CHOOSE iter : Is(iter)
             total == Feed!MapThenSumSet(LAMBDA k : Feed!Strength(Feed!WeightOf(s, "skills", k)), S)
             top == CHOOSE k \in S : \A l \in S :
                        Feed!Abs(Feed!WeightOf(s, "skills", k)) >= Feed!Abs(Feed!WeightOf(s, "skills", l))
             c == S # {}
             p == [delta |-> 10 * Feed!Clamp(total, -30, 30), says |-> Feed!Says(Feed!WeightOf(s, "skills", top))]
  <1>1. Feed!SkillPart(m, s) = Feed!Optional(c, p)
    BY DEF Feed!SkillPart, Hits
  <1>2. total = g[S]
    BY DEF Feed!MapThenSumSet, Feed!MapThenFoldSet, First
  <1>3. ASSUME NEW iter PROVE Is(iter) <=> SumsOf(f, S, iter)
    <2>1. \A t \in SUBSET S : t # {} => First(t) \in S
      BY DEF First
    <2>2. [t \in SUBSET S |-> IF t = {} THEN 0
                ELSE Feed!Strength(Feed!WeightOf(s, "skills", First(t))) + iter[t \ {First(t)}]]
              = [t \in SUBSET S |-> IF t = {} THEN 0 ELSE f[First(t)] + iter[t \ {First(t)}]]
      BY <2>1 DEF SkillStrength
    <2>3. QED
      BY <2>2 DEF SumsOf
  <1>4. IsFiniteSet(S)
    BY FS_Subset DEF Hits
  <1>5. p.delta = 10 * Feed!Clamp(total, -30, 30)
    OBVIOUS
  <1> HIDE DEF Is, S, f, p, total
  <1>6. Is(g)
    BY <1>3, <1>4, SumStep
  <1> HIDE DEF g
  <1>7. total = Total(f, S)
    BY <1>2, <1>3, <1>4, <1>6, TotalIs
  <1>8. total \in Int
    BY <1>4, <1>7, StrengthsAre DEF f
  <1>9. p.delta \in Int
    BY <1>5, <1>8, ClampIs
  <1>10. SkillGain(m, s) = IF c THEN p.delta ELSE 0
    BY <1>5, <1>7 DEF SkillGain, S, f
  <1> HIDE DEF c
  <1>11. PartIs(Feed!SkillPart(m, s), c, p, SkillGain(m, s))
    BY <1>1, <1>9, <1>10 DEF PartIs, Summand
  <1>12. QED
    BY <1>11

\* What a key of the set found adds.
KeyGain(s, field, found, cap) ==
    IF found = {} THEN 0
    ELSE 2 * cap * Feed!Strength(Feed!WeightOf(s, field, CHOOSE key \in found : TRUE))

LEMMA KeyPartIs ==
    ASSUME NEW s, Learnable(s), NEW field, NEW found, NEW cap \in Nat
    PROVE  \E c, p : PartIs(Feed!KeyPart(s, field, found, cap), c, p, KeyGain(s, field, found, cap))
  <1> DEFINE k == CHOOSE key \in found : TRUE
             w == Feed!WeightOf(s, field, k)
             c == found # {}
             p == [delta |-> 2 * cap * Feed!Strength(w), says |-> Feed!Says(w)]
  <1>1. Feed!KeyPart(s, field, found, cap) = Feed!Optional(c, p)
    BY DEF Feed!KeyPart
  <1>2. p.delta = 2 * cap * Feed!Strength(w)
    OBVIOUS
  <1>3. Feed!Strength(w) \in Int
    BY WeightIs, StrengthIs
  <1>4. KeyGain(s, field, found, cap) = IF c THEN p.delta ELSE 0
    BY <1>2 DEF KeyGain
  <1> HIDE DEF p
  <1>5. p.delta \in Int
    BY <1>2, <1>3
  <1> HIDE DEF c
  <1>6. PartIs(Feed!KeyPart(s, field, found, cap), c, p, KeyGain(s, field, found, cap))
    BY <1>1, <1>4, <1>5 DEF PartIs, Summand
  <1>7. QED
    BY <1>6

CompanyGain(m, s) == KeyGain(s, "company", {m.job.company} \intersect Feed!Keys(s, "company"), 4)
PlaceGain(m, s) == KeyGain(s, "location", Feed!PlaceFor(s, m.job.location), 3)
ModeGain(m, s) == KeyGain(s, "mode", {m.job.mode} \intersect Feed!Keys(s, "mode"), 3)

LEMMA PartAdds ==
    ASSUME NEW parts, Parted(parts), NEW one, NEW gain, \E c, p : PartIs(one, c, p, gain)
    PROVE  /\ gain \in Int /\ Parted(one) /\ Feed!SumOf(one) = gain
           /\ Parted(parts \o one) /\ Feed!SumOf(parts \o one) = Feed!SumOf(parts) + gain
  <1>1. PICK c, p : PartIs(one, c, p, gain)
    OBVIOUS
  <1>2. one = Feed!Optional(c, p) /\ (c => Summand(p)) /\ gain \in Int /\ gain = (IF c THEN p.delta ELSE 0)
    BY <1>1 DEF PartIs
  <1>3. QED
    BY <1>2, OptionalPart

LEMMA LearnedIs ==
    ASSUME NEW s, Learnable(s), NEW m, IsFiniteSet(m.job.role), IsFiniteSet(m.job.skills), ~StandsIn(m, s)
    PROVE  /\ RoleGain(m, s) \in Int /\ SkillGain(m, s) \in Int /\ CompanyGain(m, s) \in Int
           /\ PlaceGain(m, s) \in Int /\ ModeGain(m, s) \in Int
           /\ Feed!SumOf(Feed!LearnedParts(m, s)) =
                  RoleGain(m, s) + SkillGain(m, s) + CompanyGain(m, s) + PlaceGain(m, s) + ModeGain(m, s)
  <1> DEFINE role == Feed!RolePart(m, s)
             skill == Feed!SkillPart(m, s)
             company == Feed!KeyPart(s, "company", {m.job.company} \intersect Feed!Keys(s, "company"), 4)
             place == Feed!KeyPart(s, "location", Feed!PlaceFor(s, m.job.location), 3)
             mode == Feed!KeyPart(s, "mode", {m.job.mode} \intersect Feed!Keys(s, "mode"), 3)
  <1>1. Feed!LearnedParts(m, s) = role \o skill \o company \o place \o mode
    BY DEF Feed!LearnedParts
  <1>2. /\ \E c, p : PartIs(role, c, p, RoleGain(m, s))
        /\ \E c, p : PartIs(skill, c, p, SkillGain(m, s))
    BY RolePartIs, SkillPartIs
  <1>3. /\ \E c, p : PartIs(company, c, p, CompanyGain(m, s))
        /\ \E c, p : PartIs(place, c, p, PlaceGain(m, s))
        /\ \E c, p : PartIs(mode, c, p, ModeGain(m, s))
    BY KeyPartIs DEF CompanyGain, PlaceGain, ModeGain
  <1> HIDE DEF role, skill, company, place, mode
  <1>4. Parted(role) /\ Feed!SumOf(role) = RoleGain(m, s) /\ RoleGain(m, s) \in Int
    BY <1>2, NoParts, PartAdds, Zenon
  <1>5. /\ Parted(role \o skill) /\ SkillGain(m, s) \in Int
        /\ Feed!SumOf(role \o skill) = RoleGain(m, s) + SkillGain(m, s)
    BY <1>2, <1>4, PartAdds
  <1>6. /\ Parted(role \o skill \o company) /\ CompanyGain(m, s) \in Int
        /\ Feed!SumOf(role \o skill \o company) = RoleGain(m, s) + SkillGain(m, s) + CompanyGain(m, s)
    BY <1>3, <1>5, PartAdds
  <1> DEFINE three == role \o skill \o company
  <1> HIDE DEF three
  <1>7. /\ Parted(three \o place) /\ PlaceGain(m, s) \in Int
        /\ Feed!SumOf(three \o place) = Feed!SumOf(three) + PlaceGain(m, s)
    BY <1>3, <1>6, PartAdds, Zenon DEF three
  <1> DEFINE four == three \o place
  <1> HIDE DEF four
  <1>8. /\ ModeGain(m, s) \in Int
        /\ Feed!SumOf(four \o mode) = Feed!SumOf(four) + ModeGain(m, s)
    BY <1>3, <1>7, PartAdds, Zenon DEF four
  <1>9. QED
    BY <1>1, <1>4, <1>5, <1>6, <1>7, <1>8 DEF three, four

-------------------------------------------------------------------------------
(* Each of them grows *)

LEMMA LearnedKeys ==
    ASSUME NEW s, Learnable(s), NEW field, field # "skills", NEW key \in Feed!Keys(s, field)
    PROVE  /\ key # {}
           /\ Feed!Having(s, field, key) # {}
           /\ Min(Feed!Having(s, field, key)) \in Feed!Having(s, field, key)
           /\ Min(Feed!Having(s, field, key)) \in Int
           /\ \A n \in Feed!Having(s, field, key) : Min(Feed!Having(s, field, key)) <= n /\ n \in Int
           /\ \A n \in Feed!Having(s, field, key) : s[n].job[field] = key
  <1> DEFINE S == Feed!Having(s, field, key)
  <1>1. key # {} /\ S # {} /\ \A n \in S : s[n].job[field] = key
    BY DEF Feed!Keys, Feed!Having
  <1>2. S \in SUBSET (1 .. Len(s)) /\ Len(s) \in Nat
    BY HavingIs DEF Learnable
  <1> HIDE DEF S
  <1>3. 1 \in Int /\ Len(s) \in Int /\ S \subseteq 1 .. Len(s)
    BY <1>2
  <1>4. Min(S) \in S /\ \A x \in S : Min(S) <= x
    BY <1>1, <1>3, MinMaxIs, Zenon
  <1>5. QED
    BY <1>1, <1>3, <1>4 DEF S

LEMMA KeysFinite ==
    ASSUME NEW s, Learnable(s), NEW field, field # "skills"
    PROVE  IsFiniteSet(Feed!Keys(s, field))
  <1> DEFINE all == {s[n].job[field] : n \in Feed!Taught(s)}
  <1>1. IsFiniteSet(Feed!Taught(s))
    <2>1. IsFiniteSet(1 .. Len(s)) /\ DOMAIN s = 1 .. Len(s)
      BY FS_Interval DEF Learnable
    <2>2. QED
      BY <2>1, FS_Subset DEF Feed!Taught
  <1>2. IsFiniteSet(all)
    <2> DEFINE f == [n \in Feed!Taught(s) |-> s[n].job[field]]
    <2>1. f \in Surjection(Feed!Taught(s), all)
      <3>1. f \in [Feed!Taught(s) -> all]
        OBVIOUS
      <3>2. \A k \in all : \E n \in Feed!Taught(s) : f[n] = k
        OBVIOUS
      <3>3. QED
        BY <3>1, <3>2 DEF Surjection
    <2>2. QED
      BY <1>1, <2>1, FS_Surjection
  <1>3. Feed!Keys(s, field) \in SUBSET all
    BY DEF Feed!Keys
  <1>4. QED
    BY <1>2, <1>3, FS_Subset

\* The order of keys, in terms of their weights and first mentions.
LEMMA StrongerIs ==
    ASSUME NEW s, Learnable(s), NEW field, NEW a, NEW b
    PROVE  /\ Feed!Abs(Feed!WeightOf(s, field, a)) \in Nat
           /\ Feed!Stronger(s, field, a, b) <=>
                  \/ Feed!Abs(Feed!WeightOf(s, field, a)) > Feed!Abs(Feed!WeightOf(s, field, b))
                  \/ /\ Feed!Abs(Feed!WeightOf(s, field, a)) = Feed!Abs(Feed!WeightOf(s, field, b))
                     /\ Min(Feed!Having(s, field, a)) < Min(Feed!Having(s, field, b))
  <1>1. Feed!WeightOf(s, field, a) \in Int
    BY WeightIs
  <1>2. Feed!Abs(Feed!WeightOf(s, field, a)) \in Nat
    BY <1>1 DEF Feed!Abs
  <1>3. QED
    BY <1>2, FeedMin DEF Feed!Stronger

LEMMA RoleGrows ==
    ASSUME NEW s, Learnable(s), NEW m, IsFiniteSet(m.job.skills)
    PROVE  RoleGain(m, s) <= RoleGain(m, Append(s, Like(m.job)))
  <1> DEFINE t == Append(s, Like(m.job))
             role == m.job.role
             w == Feed!WeightOf(s, "role", role)
             B == {l \in Feed!Keys(s, "role") : Feed!Stronger(s, "role", l, role)}
             C == {l \in Feed!Keys(t, "role") : Feed!Stronger(t, "role", l, role)}
  <1>1. CASE role = {}
    BY <1>1 DEF RoleGain
  <1>2. CASE role # {}
    <2>1. Learnable(t)
      BY LikedIs
    <2>2. \A key : Feed!WeightOf(t, "role", key)
                       = Feed!WeightOf(s, "role", key) + (IF role = key THEN 10 ELSE 0)
      BY WeightLiked DEF Own
    <2>3. Feed!Keys(t, "role") = Feed!Keys(s, "role") \union {role}
      BY <1>2, KeysLiked
    <2>4. IsFiniteSet(Feed!Keys(s, "role")) /\ IsFiniteSet(Feed!Keys(t, "role"))
      BY <2>1, KeysFinite
    <2> HIDE DEF t
    <2>5. w \in Int /\ Feed!WeightOf(t, "role", role) = w + 10
      BY <2>2, WeightIs
    <2>6. role \notin Feed!Keys(s, "role") => w = 0
      BY <1>2, WeightOfUnknown
    <2>7. /\ role \in Feed!Roles(s) <=> role \in Feed!Keys(s, "role") /\ Cardinality(B) < MaxRoleKeys
          /\ role \in Feed!Roles(t) <=> role \in Feed!Keys(t, "role") /\ Cardinality(C) < MaxRoleKeys
      BY FeedCardinality, Zenon DEF Feed!Roles
    <2>8. \A l \in Feed!Keys(s, "role") : l # role =>
              /\ Feed!Abs(Feed!WeightOf(s, "role", l)) \in Nat
              /\ Feed!Stronger(s, "role", l, role) =>
                     Feed!Abs(Feed!WeightOf(s, "role", l)) >= Feed!Abs(w)
              /\ Feed!Abs(Feed!WeightOf(s, "role", l)) > Feed!Abs(w) =>
                     Feed!Stronger(s, "role", l, role)
              /\ Feed!Stronger(t, "role", l, role) =>
                     Feed!Abs(Feed!WeightOf(s, "role", l)) >= Feed!Abs(w + 10)
              /\ Feed!Abs(Feed!WeightOf(s, "role", l)) > Feed!Abs(w + 10) =>
                     Feed!Stronger(t, "role", l, role)
      <3> SUFFICES ASSUME NEW l \in Feed!Keys(s, "role"), l # role
                   PROVE  /\ Feed!Abs(Feed!WeightOf(s, "role", l)) \in Nat
                          /\ Feed!Stronger(s, "role", l, role) =>
                                 Feed!Abs(Feed!WeightOf(s, "role", l)) >= Feed!Abs(w)
                          /\ Feed!Abs(Feed!WeightOf(s, "role", l)) > Feed!Abs(w) =>
                                 Feed!Stronger(s, "role", l, role)
                          /\ Feed!Stronger(t, "role", l, role) =>
                                 Feed!Abs(Feed!WeightOf(s, "role", l)) >= Feed!Abs(w + 10)
                          /\ Feed!Abs(Feed!WeightOf(s, "role", l)) > Feed!Abs(w + 10) =>
                                 Feed!Stronger(t, "role", l, role)
        OBVIOUS
      <3>1. Feed!WeightOf(s, "role", l) \in Int
        BY WeightIs
      <3>2. Feed!WeightOf(t, "role", l) = Feed!WeightOf(s, "role", l)
        BY <2>2, <3>1
      <3>3. /\ Feed!Abs(Feed!WeightOf(s, "role", l)) \in Nat /\ Feed!Abs(w) \in Nat
            /\ Feed!Abs(w + 10) \in Nat
        BY <2>5, <3>1 DEF Feed!Abs
      <3>4. Feed!Stronger(s, "role", l, role) <=>
                \/ Feed!Abs(Feed!WeightOf(s, "role", l)) > Feed!Abs(w)
                \/ /\ Feed!Abs(Feed!WeightOf(s, "role", l)) = Feed!Abs(w)
                   /\ Min(Feed!Having(s, "role", l)) < Min(Feed!Having(s, "role", role))
        BY StrongerIs
      <3>5. Feed!Stronger(t, "role", l, role) <=>
                \/ Feed!Abs(Feed!WeightOf(s, "role", l)) > Feed!Abs(w + 10)
                \/ /\ Feed!Abs(Feed!WeightOf(s, "role", l)) = Feed!Abs(w + 10)
                   /\ Min(Feed!Having(t, "role", l)) < Min(Feed!Having(t, "role", role))
        BY <2>1, <2>5, <3>2, StrongerIs
      <3> HIDE DEF w
      <3>6. QED
        BY <3>3, <3>4, <3>5
    <2>9. role \in Feed!Keys(s, "role") => role \notin B /\ role \notin C
      <3> SUFFICES ASSUME role \in Feed!Keys(s, "role") PROVE role \notin B /\ role \notin C
        OBVIOUS
      <3>1. role \in Feed!Keys(t, "role")
        BY <2>3
      <3>2. Min(Feed!Having(s, "role", role)) \in Int /\ Min(Feed!Having(t, "role", role)) \in Int
        BY <2>1, <3>1, LearnedKeys
      <3>3. ~Feed!Stronger(s, "role", role, role) /\ ~Feed!Stronger(t, "role", role, role)
        BY <2>1, <3>2, StrongerIs
      <3>4. QED
        BY <3>3
    <2>10. B \in SUBSET Feed!Keys(s, "role") /\ C \in SUBSET Feed!Keys(t, "role")
      OBVIOUS
    <2>11. /\ IsFiniteSet(B) /\ IsFiniteSet(C) /\ Cardinality(B) \in Nat /\ Cardinality(C) \in Nat
           /\ B \in SUBSET C => Cardinality(B) <= Cardinality(C)
           /\ C \in SUBSET B => Cardinality(C) <= Cardinality(B)
      <3>1. IsFiniteSet(B) /\ IsFiniteSet(C)
        BY <2>4, <2>10, FS_Subset
      <3>2. QED
        BY <3>1, FS_Subset, FS_CardinalityType
    <2>12. MaxRoleKeys \in Nat
      BY FeedAssumption
    <2>13. /\ Feed!Strength(w) \in Int /\ Feed!Strength(w + 10) \in Int
           /\ Feed!Strength(w) <= Feed!Strength(w + 10)
           /\ 0 <= w + 10 => 0 <= Feed!Strength(w + 10)
           /\ w <= 0 => Feed!Strength(w) <= 0
      BY <2>5, StrengthIs
    <2>14. CASE role \in Feed!Roles(s) /\ role \notin Feed!Roles(t)
      <3>1. w <= 0
        <4> SUFFICES ASSUME w > 0 PROVE FALSE
          BY <2>5
        <4>1. Feed!Abs(w + 10) > Feed!Abs(w) /\ Feed!Abs(w) \in Nat /\ Feed!Abs(w + 10) \in Nat
          BY <2>5 DEF Feed!Abs
        <4>2. role \in Feed!Keys(s, "role") /\ Feed!Keys(t, "role") = Feed!Keys(s, "role")
          BY <2>3, <2>7, <2>14
        <4>3. ASSUME NEW l \in C PROVE l \in B
          <5>1. l \in Feed!Keys(s, "role") /\ l # role /\ Feed!Stronger(t, "role", l, role)
            BY <2>9, <4>2
          <5> HIDE DEF w, B, C
          <5>2. Feed!Stronger(s, "role", l, role)
            BY <2>8, <4>1, <5>1
          <5>3. QED
            BY <5>1, <5>2 DEF B
        <4> HIDE DEF B, C
        <4>4. QED
          BY <2>7, <2>11, <2>12, <2>14, <4>2, <4>3
      <3>2. QED
        BY <1>2, <2>13, <2>14, <3>1 DEF RoleGain, t
    <2>15. CASE role \notin Feed!Roles(s) /\ role \in Feed!Roles(t)
      <3>1. w + 10 >= 0
        <4> SUFFICES ASSUME w + 10 < 0 PROVE FALSE
          BY <2>5
        <4>1. Feed!Abs(w + 10) < Feed!Abs(w) /\ Feed!Abs(w) \in Nat /\ Feed!Abs(w + 10) \in Nat
          BY <2>5 DEF Feed!Abs
        <4>2. role \in Feed!Keys(s, "role") /\ Feed!Keys(t, "role") = Feed!Keys(s, "role")
          BY <2>3, <2>5, <2>6
        <4>3. ASSUME NEW l \in B PROVE l \in C
          <5>1. l \in Feed!Keys(s, "role") /\ l # role /\ Feed!Stronger(s, "role", l, role)
            BY <2>9, <4>2
          <5> HIDE DEF w, B, C
          <5>2. Feed!Stronger(t, "role", l, role)
            BY <2>8, <4>1, <5>1
          <5>3. QED
            BY <4>2, <5>1, <5>2 DEF C
        <4> HIDE DEF B, C
        <4>4. QED
          BY <2>7, <2>11, <2>12, <2>15, <4>2, <4>3
      <3>2. RoleGain(m, t) = 12 * Feed!Strength(w + 10) /\ RoleGain(m, s) = 0
        BY <1>2, <2>5, <2>15 DEF RoleGain
      <3> HIDE DEF w
      <3>3. QED
        BY <2>13, <3>1, <3>2 DEF t
    <2>16. CASE role \in Feed!Roles(s) /\ role \in Feed!Roles(t)
      <3>1. /\ RoleGain(m, t) = 12 * Feed!Strength(w + 10)
            /\ RoleGain(m, s) = 12 * Feed!Strength(w)
        BY <1>2, <2>5, <2>16 DEF RoleGain
      <3> HIDE DEF w
      <3>2. QED
        BY <2>13, <3>1 DEF t
    <2>17. CASE role \notin Feed!Roles(s) /\ role \notin Feed!Roles(t)
      BY <2>17 DEF RoleGain, t
    <2>18. QED
      BY <2>14, <2>15, <2>16, <2>17
  <1>3. QED
    BY <1>1, <1>2

LEMMA SkillGrowsLiked ==
    ASSUME NEW s, Learnable(s), NEW m, IsFiniteSet(m.job.skills)
    PROVE  SkillGain(m, s) <= SkillGain(m, Append(s, Like(m.job)))
  <1> DEFINE t == Append(s, Like(m.job))
             S == Hits(m, s)
             T == Hits(m, t)
             f == SkillStrength(s, S)
             h == SkillStrength(t, T)
  <1>1. Learnable(t)
    BY LikedIs
  <1>2. \A key : Feed!WeightOf(t, "skills", key)
                     = Feed!WeightOf(s, "skills", key) + (IF key \in m.job.skills THEN 10 ELSE 0)
    BY WeightLiked DEF Own
  <1>3. Feed!Keys(t, "skills") = Feed!Keys(s, "skills") \union m.job.skills
    BY KeysLiked
  <1> HIDE DEF t
  <1>4. T = m.job.skills /\ S \in SUBSET T /\ IsFiniteSet(T) /\ IsFiniteSet(S)
    <2>1. T = m.job.skills /\ S \in SUBSET T
      BY <1>3 DEF Hits
    <2>2. QED
      BY <2>1, FS_Subset
  <1>5. ASSUME NEW k \in T
        PROVE  /\ Feed!WeightOf(s, "skills", k) \in Int
               /\ h[k] = Feed!Strength(Feed!WeightOf(s, "skills", k) + 10)
               /\ k \in S => f[k] = Feed!Strength(Feed!WeightOf(s, "skills", k))
               /\ k \notin S => Feed!WeightOf(s, "skills", k) = 0
    <2>1. k \in m.job.skills
      BY <1>4
    <2>2. h[k] = Feed!Strength(Feed!WeightOf(s, "skills", k) + 10)
      BY <1>2, <2>1 DEF SkillStrength
    <2>3. k \in S => f[k] = Feed!Strength(Feed!WeightOf(s, "skills", k))
      BY DEF SkillStrength
    <2>4. k \notin S => Feed!WeightOf(s, "skills", k) = 0
      BY <2>1, WeightOfUnknown DEF Hits
    <2>5. QED
      BY <2>2, <2>3, <2>4, WeightIs
  <1> HIDE DEF S, T, f, h
  <1>6. \A k \in T : /\ h[k] \in Int
                     /\ k \in S => f[k] \in Int /\ f[k] <= h[k]
                     /\ k \notin S => 0 <= h[k]
    <2> SUFFICES ASSUME NEW k \in T
                 PROVE  /\ h[k] \in Int
                        /\ k \in S => f[k] \in Int /\ f[k] <= h[k]
                        /\ k \notin S => 0 <= h[k]
      OBVIOUS
    <2> DEFINE w == Feed!WeightOf(s, "skills", k)
    <2>1. w \in Int /\ w + 10 \in Int /\ w <= w + 10
      BY <1>5
    <2>2. /\ h[k] = Feed!Strength(w + 10) /\ k \in S => f[k] = Feed!Strength(w)
          /\ k \notin S => w = 0
      BY <1>5
    <2> HIDE DEF w
    <2>3. /\ Feed!Strength(w) \in Int /\ Feed!Strength(w + 10) \in Int
          /\ Feed!Strength(w) <= Feed!Strength(w + 10)
          /\ 0 <= w + 10 => 0 <= Feed!Strength(w + 10)
      BY <2>1, StrengthIs
    <2>4. QED
      BY <1>5, <2>1, <2>2, <2>3 DEF w
  <1>7. Total(f, S) \in Int /\ Total(h, T) \in Int /\ Total(f, S) <= Total(h, T)
    <2>1. \A x \in S : f[x] \in Int /\ f[x] <= h[x]
      BY <1>4, <1>6
    <2>2. (\A x \in T : h[x] \in Int) /\ \A x \in T \ S : 0 <= h[x]
      BY <1>6
    <2>3. QED
      BY <1>4, <2>1, <2>2, TotalGrows
  <1>8. CASE S # {}
    <2>1. T # {}
      BY <1>4, <1>8
    <2>2. /\ SkillGain(m, s) = 10 * Feed!Clamp(Total(f, S), -30, 30)
          /\ SkillGain(m, t) = 10 * Feed!Clamp(Total(h, T), -30, 30)
      BY <1>8, <2>1 DEF SkillGain, S, T, f, h
    <2>3. /\ Feed!Clamp(Total(f, S), -30, 30) \in Int /\ Feed!Clamp(Total(h, T), -30, 30) \in Int
          /\ Feed!Clamp(Total(f, S), -30, 30) <= Feed!Clamp(Total(h, T), -30, 30)
      BY <1>7 DEF Feed!Clamp
    <2>4. QED
      BY <2>2, <2>3 DEF t
  <1>9. CASE S = {}
    <2>1. SkillGain(m, s) = 0
      BY <1>9 DEF SkillGain, S
    <2>2. 0 <= Total(h, T)
      BY <1>7, <1>9, TotalEmpty
    <2>3. SkillGain(m, t) = 0 \/ SkillGain(m, t) = 10 * Feed!Clamp(Total(h, T), -30, 30)
      BY DEF SkillGain, T, h
    <2>4. Feed!Clamp(Total(h, T), -30, 30) \in Int /\ 0 <= Feed!Clamp(Total(h, T), -30, 30)
      BY <1>7, <2>2 DEF Feed!Clamp
    <2>5. QED
      BY <2>1, <2>3, <2>4 DEF t
  <1>10. QED
    BY <1>8, <1>9

\* The one key of a company or a mode.
LEMMA OneKeyGrows ==
    ASSUME NEW s, Learnable(s), NEW job, IsFiniteSet(job.skills), NEW field, field # "skills",
           NEW cap \in Nat
    PROVE  KeyGain(s, field, {job[field]} \intersect Feed!Keys(s, field), cap)
               <= KeyGain(Append(s, Like(job)), field,
                          {job[field]} \intersect Feed!Keys(Append(s, Like(job)), field), cap)
  <1> DEFINE t == Append(s, Like(job))
             k == job[field]
             w == Feed!WeightOf(s, field, k)
             low == KeyGain(s, field, {k} \intersect Feed!Keys(s, field), cap)
             high == KeyGain(t, field, {k} \intersect Feed!Keys(t, field), cap)
  <1>1. Feed!WeightOf(t, field, k) = w + 10 /\ w \in Int
    BY WeightLiked, WeightIs DEF Own
  <1>2. Feed!Keys(t, field) = Feed!Keys(s, field) \union ({k} \ {{}})
    BY KeysLiked
  <1> HIDE DEF t
  <1>3. \A found : (CHOOSE key \in {k} : TRUE) = k
    OBVIOUS
  <1>4. /\ k \in Feed!Keys(s, field) => low = 2 * cap * Feed!Strength(w)
        /\ k \notin Feed!Keys(s, field) => low = 0
    <2>1. k \in Feed!Keys(s, field) => {k} \intersect Feed!Keys(s, field) = {k}
      OBVIOUS
    <2>2. k \notin Feed!Keys(s, field) => {k} \intersect Feed!Keys(s, field) = {}
      OBVIOUS
    <2>3. QED
      BY <2>1, <2>2 DEF KeyGain
  <1>5. /\ k \in Feed!Keys(t, field) => high = 2 * cap * Feed!Strength(w + 10)
        /\ k \notin Feed!Keys(t, field) => high = 0
    <2>1. k \in Feed!Keys(t, field) => {k} \intersect Feed!Keys(t, field) = {k}
      OBVIOUS
    <2>2. k \notin Feed!Keys(t, field) => {k} \intersect Feed!Keys(t, field) = {}
      OBVIOUS
    <2>3. QED
      BY <1>1, <2>1, <2>2 DEF KeyGain
  <1>6. k # {} /\ k \notin Feed!Keys(s, field) => w = 0
    BY WeightOfUnknown
  <1>7. k \in Feed!Keys(s, field) => k \in Feed!Keys(t, field)
    BY <1>2
  <1>8. k \in Feed!Keys(t, field) => k \in Feed!Keys(s, field) \/ k # {}
    BY <1>2
  <1> HIDE DEF w, low, high, k
  <1>9. /\ Feed!Strength(w) \in Int /\ Feed!Strength(w + 10) \in Int
        /\ Feed!Strength(w) <= Feed!Strength(w + 10)
        /\ w = 0 => 0 <= Feed!Strength(w + 10)
    BY <1>1, StrengthIs
  <1> DEFINE x == Feed!Strength(w)
             y == Feed!Strength(w + 10)
  <1> HIDE DEF x, y
  <1>10. x \in Int /\ y \in Int /\ x <= y /\ 2 * cap * x <= 2 * cap * y /\ (0 <= y => 0 <= 2 * cap * y)
    <2>1. x \in Int /\ y \in Int /\ x <= y
      BY <1>9 DEF x, y
    <2> DEFINE d == y - x
    <2>2. d \in Nat /\ y = x + d
      BY <2>1
    <2> HIDE DEF d
    <2>3. cap * d \in Nat /\ cap * y = cap * x + cap * d
      BY <2>1, <2>2
    <2>4. cap * x \in Int /\ cap * y \in Int /\ (0 <= y => 0 <= cap * y)
      BY <2>1
    <2>5. QED
      BY <2>1, <2>3, <2>4
  <1>11. low <= high
    BY <1>4, <1>5, <1>6, <1>7, <1>8, <1>9, <1>10 DEF x, y
  <1>12. QED
    BY <1>11 DEF low, high, k, t

\* The places that a place contains or is contained in.
Near(s, place) ==
    {k \in Feed!Keys(s, "location") : place # {} /\ (k \subseteq place \/ place \subseteq k)}

LEMMA PlaceForIs ==
    ASSUME NEW s, Learnable(s), NEW place
    PROVE  /\ Feed!PlaceFor(s, place)
                  = {k \in Near(s, place) : \A l \in Near(s, place) \ {k} : Feed!Stronger(s, "location", k, l)}
           /\ Near(s, place) # {} => Feed!PlaceFor(s, place) # {}
  <1> DEFINE S == Near(s, place)
             f == [k \in S |-> Feed!Abs(Feed!WeightOf(s, "location", k))]
             g == [k \in S |-> Min(Feed!Having(s, "location", k))]
  <1>1. Feed!PlaceFor(s, place)
            = {k \in S : \A l \in S \ {k} : Feed!Stronger(s, "location", k, l)}
    BY DEF Feed!PlaceFor, Near
  <1>2. \A k \in S : k \in Feed!Keys(s, "location")
    BY DEF Near
  <1>3. IsFiniteSet(S)
    <2>1. IsFiniteSet(Feed!Keys(s, "location")) /\ S \in SUBSET Feed!Keys(s, "location")
      BY <1>2, KeysFinite
    <2>2. QED
      BY <2>1, FS_Subset
  <1> HIDE DEF S
  <1>4. \A k \in S : f[k] \in Int /\ g[k] \in Int
    <2> SUFFICES ASSUME NEW k \in S PROVE f[k] \in Int /\ g[k] \in Int
      OBVIOUS
    <2>1. Feed!Abs(Feed!WeightOf(s, "location", k)) \in Nat
      BY StrongerIs
    <2>2. Min(Feed!Having(s, "location", k)) \in Int
      BY <1>2, LearnedKeys
    <2>3. QED
      BY <2>1, <2>2
  <1>5. ASSUME NEW k \in S, NEW l \in S, g[k] = g[l] PROVE k = l
    <2> DEFINE n == Min(Feed!Having(s, "location", k))
    <2>1. n = Min(Feed!Having(s, "location", l))
      BY <1>5
    <2>2. n \in Feed!Having(s, "location", k)
      BY <1>2, LearnedKeys
    <2>3. n \in Feed!Having(s, "location", l)
      BY <1>2, <2>1, LearnedKeys
    <2> HIDE DEF n
    <2>4. s[n].job["location"] = k /\ s[n].job["location"] = l
      BY <1>2, <2>2, <2>3, LearnedKeys
    <2>5. QED
      BY <2>4
  <1>6. S # {} => \E k \in S : \A l \in S \ {k} : Feed!Stronger(s, "location", k, l)
    <2> SUFFICES ASSUME S # {}
                 PROVE  \E k \in S : \A l \in S \ {k} : Feed!Stronger(s, "location", k, l)
      OBVIOUS
    <2> HIDE DEF f, g
    <2>1. PICK k \in S : \A l \in S \ {k} : f[k] > f[l] \/ (f[k] = f[l] /\ g[k] < g[l])
      BY <1>3, <1>4, <1>5, LeaderExists
    <2>2. \A l \in S \ {k} : Feed!Stronger(s, "location", k, l)
      BY <2>1, StrongerIs DEF f, g
    <2>3. QED
      BY <2>2
  <1>7. QED
    BY <1>1, <1>6 DEF S

LEMMA PlaceGrows ==
    ASSUME NEW s, Learnable(s), NEW m, IsFiniteSet(m.job.skills)
    PROVE  PlaceGain(m, s) <= PlaceGain(m, Append(s, Like(m.job)))
  <1> DEFINE t == Append(s, Like(m.job))
             place == m.job.location
             V(k) == Feed!WeightOf(s, "location", k)
             W(k) == Feed!WeightOf(t, "location", k)
  <1>1. Learnable(t)
    BY LikedIs
  <1>2. \A k : V(k) \in Int /\ W(k) = V(k) + (IF place = k THEN 10 ELSE 0)
    BY WeightLiked, WeightIs DEF Own
  <1>3. Feed!Keys(t, "location") = Feed!Keys(s, "location") \union ({place} \ {{}})
    BY KeysLiked
  <1>4. \A k : k # place => Feed!Having(t, "location", k) = Feed!Having(s, "location", k)
    <2> SUFFICES ASSUME NEW k, k # place
                 PROVE  Feed!Having(t, "location", k) = Feed!Having(s, "location", k)
      OBVIOUS
    <2>1. ~Own(m.job, "location", k)
      BY DEF Own
    <2>2. Feed!Having(t, "location", k) = Feed!Having(s, "location", k)
              \union (IF Own(m.job, "location", k) THEN {Len(s) + 1} ELSE {})
      BY HavingLiked
    <2>3. QED
      BY <2>1, <2>2, Zenon
  <1> HIDE DEF t, V, W
  <1>5. place # {} => Near(t, place) = Near(s, place) \union {place}
    BY <1>3 DEF Near
  <1>6. place = {} => Near(t, place) = {} /\ Near(s, place) = {}
    BY DEF Near
  <1>7. /\ Near(s, place) = {} => PlaceGain(m, s) = 0
        /\ Near(t, place) = {} => PlaceGain(m, t) = 0
    BY <1>1, PlaceForIs DEF PlaceGain, KeyGain
  <1>8. ASSUME Near(s, place) # {}
        PROVE  \E k \in Near(s, place) :
                   /\ PlaceGain(m, s) = 6 * Feed!Strength(V(k))
                   /\ \A l \in Near(s, place) \ {k} : Feed!Stronger(s, "location", k, l)
    <2> DEFINE k == CHOOSE key \in Feed!PlaceFor(s, place) : TRUE
    <2>1. k \in Feed!PlaceFor(s, place) /\ Feed!PlaceFor(s, place) # {}
      BY <1>8, PlaceForIs
    <2>2. PlaceGain(m, s) = 2 * 3 * Feed!Strength(V(k))
      BY <2>1 DEF PlaceGain, KeyGain, V
    <2>3. Feed!Strength(V(k)) \in Int
      BY <1>2, StrengthIs
    <2> HIDE DEF k
    <2>4. QED
      BY <2>1, <2>2, <2>3, PlaceForIs
  <1>9. ASSUME Near(t, place) # {}
        PROVE  \E k \in Near(t, place) :
                   /\ PlaceGain(m, t) = 6 * Feed!Strength(W(k))
                   /\ \A l \in Near(t, place) \ {k} : Feed!Stronger(t, "location", k, l)
    <2> DEFINE k == CHOOSE key \in Feed!PlaceFor(t, place) : TRUE
    <2>1. k \in Feed!PlaceFor(t, place) /\ Feed!PlaceFor(t, place) # {}
      BY <1>1, <1>9, PlaceForIs
    <2>2. PlaceGain(m, t) = 2 * 3 * Feed!Strength(W(k))
      BY <2>1 DEF PlaceGain, KeyGain, W
    <2>3. Feed!Strength(W(k)) \in Int
      BY <1>2, StrengthIs
    <2> HIDE DEF k
    <2>4. QED
      BY <1>1, <2>1, <2>2, <2>3, PlaceForIs
  <1>10. CASE place = {}
    BY <1>6, <1>7, <1>10 DEF t
  <1>11. CASE place # {} /\ Near(s, place) = {}
    <2>1. PICK k \in Near(t, place) : PlaceGain(m, t) = 6 * Feed!Strength(W(k))
      BY <1>5, <1>9, <1>11
    <2>2. k = place /\ k \notin Feed!Keys(s, "location")
      <3>1. k = place
        BY <1>5, <1>11, <2>1
      <3>2. QED
        BY <1>11, <3>1 DEF Near
    <2>3. V(k) = 0
      BY <1>11, <2>2, WeightOfUnknown DEF V
    <2>4. W(k) = 10
      BY <1>2, <2>2, <2>3
    <2>5. Feed!Strength(W(k)) \in Int /\ 0 <= Feed!Strength(W(k))
      BY <2>4, StrengthIs
    <2>6. QED
      BY <1>7, <1>11, <2>1, <2>5 DEF t
  <1>12. CASE place # {} /\ Near(s, place) # {}
    <2>1. PICK k \in Near(s, place) :
                   /\ PlaceGain(m, s) = 6 * Feed!Strength(V(k))
                   /\ \A l \in Near(s, place) \ {k} : Feed!Stronger(s, "location", k, l)
      BY <1>8, <1>12
    <2>2. PICK q \in Near(t, place) :
                   /\ PlaceGain(m, t) = 6 * Feed!Strength(W(q))
                   /\ \A l \in Near(t, place) \ {q} : Feed!Stronger(t, "location", q, l)
      BY <1>5, <1>9, <1>12
    <2>3. /\ k \in Near(t, place) /\ k \in Feed!Keys(s, "location")
          /\ q \in Near(s, place) \/ (q = place /\ V(q) = 0)
      <3>1. k \in Near(t, place) /\ k \in Feed!Keys(s, "location")
        BY <1>5, <1>12 DEF Near
      <3>2. q \notin Near(s, place) => q = place /\ q \notin Feed!Keys(s, "location")
        BY <1>5, <1>12 DEF Near
      <3>3. q \notin Near(s, place) => V(q) = 0
        BY <1>12, <3>2, WeightOfUnknown DEF V
      <3>4. QED
        BY <3>1, <3>2, <3>3
    <2>4. q # k /\ q \in Near(s, place) =>
              \/ Feed!Abs(V(k)) > Feed!Abs(V(q))
              \/ /\ Feed!Abs(V(k)) = Feed!Abs(V(q))
                 /\ Min(Feed!Having(s, "location", k)) < Min(Feed!Having(s, "location", q))
      BY <2>1, StrongerIs DEF V
    <2>5. q # k =>
              \/ Feed!Abs(W(q)) > Feed!Abs(W(k))
              \/ /\ Feed!Abs(W(q)) = Feed!Abs(W(k))
                 /\ Min(Feed!Having(t, "location", q)) < Min(Feed!Having(t, "location", k))
      BY <1>1, <2>2, <2>3, StrongerIs DEF W
    <2>6. /\ Min(Feed!Having(s, "location", k)) \in Int
          /\ q \in Near(s, place) => Min(Feed!Having(s, "location", q)) \in Int
      BY <2>3, LearnedKeys DEF Near
    <2>7. /\ V(k) \in Int /\ V(q) \in Int
          /\ W(k) = V(k) + (IF place = k THEN 10 ELSE 0)
          /\ W(q) = V(q) + (IF place = q THEN 10 ELSE 0)
      BY <1>2
    <2>8. /\ k # place => Feed!Having(t, "location", k) = Feed!Having(s, "location", k)
          /\ q # place => Feed!Having(t, "location", q) = Feed!Having(s, "location", q)
      BY <1>4
    <2> DEFINE vk == V(k)
               vq == V(q)
               wk == W(k)
               wq == W(q)
    <2> HIDE DEF vk, vq, wk, wq
    <2>9. /\ vk \in Int /\ vq \in Int
          /\ wk = vk + (IF place = k THEN 10 ELSE 0) /\ wq = vq + (IF place = q THEN 10 ELSE 0)
      BY <2>7 DEF vk, vq, wk, wq
    <2>10. vk <= wq
      <3>1. CASE q = k
        BY <2>9, <3>1 DEF vk, vq
      <3>2. CASE q # k /\ q \notin Near(s, place)
        <4>1. vq = 0 /\ wq = 10 /\ wk = vk
          BY <2>3, <2>9, <3>2 DEF vq
        <4>2. Feed!Abs(wq) >= Feed!Abs(wk)
          <5>1. Feed!Abs(wq) \in Int /\ Feed!Abs(wk) \in Int
            BY <2>9, <4>1 DEF Feed!Abs
          <5>2. QED
            BY <2>5, <3>2, <5>1 DEF wq, wk
        <4>3. QED
          BY <2>9, <4>1, <4>2 DEF Feed!Abs
      <3>3. CASE q # k /\ q \in Near(s, place)
        <4>1. Feed!Abs(vk) \in Int /\ Feed!Abs(vq) \in Int /\ Feed!Abs(wk) \in Int /\ Feed!Abs(wq) \in Int
          BY <2>9 DEF Feed!Abs
        <4>2. Feed!Abs(vk) >= Feed!Abs(vq) /\ Feed!Abs(wq) >= Feed!Abs(wk)
          BY <2>4, <2>5, <3>3, <4>1 DEF vk, vq, wk, wq
        <4>3. CASE q # place /\ k # place
          <5>1. FALSE
            BY <2>4, <2>5, <2>6, <2>8, <2>9, <3>3, <4>1, <4>3 DEF vk, vq, wk, wq
          <5>2. QED
            BY <5>1
        <4>4. CASE q = place \/ k = place
          <5>1. QED
            BY <2>9, <3>3, <4>2, <4>4 DEF Feed!Abs
        <4>5. QED
          BY <4>3, <4>4
      <3>4. QED
        BY <3>1, <3>2, <3>3
    <2>11. /\ Feed!Strength(vk) \in Int /\ Feed!Strength(wq) \in Int
           /\ Feed!Strength(vk) <= Feed!Strength(wq)
      <3>1. wq \in Int
        BY <2>9
      <3>2. QED
        BY <2>9, <2>10, <3>1, StrengthIs
    <2>12. PlaceGain(m, s) = 6 * Feed!Strength(vk) /\ PlaceGain(m, t) = 6 * Feed!Strength(wq)
      BY <2>1, <2>2 DEF vk, wq
    <2>13. PlaceGain(m, s) <= PlaceGain(m, t)
      BY <2>11, <2>12
    <2>14. QED
      BY <2>13 DEF t
  <1>13. QED
    BY <1>10, <1>11, <1>12

-------------------------------------------------------------------------------
(* The whole score *)

\* The parts that do not depend on what was learned are integers.
LEMMA FactsAre ==
    ASSUME NEW m
    PROVE  /\ Feed!SumOf(Feed!FreshnessPart(m)) \in Int
           /\ Feed!SumOf(Feed!CompanyParts(m)) \in Int
           /\ Feed!SumOf(Feed!FeedbackPart(m)) \in Int
  <1>1. \A x \in Int : Summand(Feed!Fact(x))
    BY DEF Summand, Feed!Fact, Feed!Point
  <1>2. Feed!SumOf(Feed!FreshnessPart(m)) \in Int
    <2> DEFINE x == IF m.age <= 2 THEN 6 ELSE IF m.age <= 7 THEN 4 ELSE 2
    <2>1. x \in Int
      OBVIOUS
    <2> HIDE DEF x
    <2>2. /\ Feed!FreshnessPart(m) = << >> \/ Feed!FreshnessPart(m) = Feed!Optional(TRUE, Feed!Fact(x))
      BY DEF Feed!FreshnessPart, Feed!Optional, x
    <2>3. Parted(Feed!Optional(TRUE, Feed!Fact(x)))
      BY <1>1, <2>1, NoParts, OptionalPart, Zenon
    <2>4. QED
      BY <2>2, <2>3, NoParts, PartedTotal, Zenon
  <1>3. Feed!SumOf(Feed!CompanyParts(m)) \in Int
    <2> DEFINE x == IF m.watch >= 90 THEN 5 ELSE IF m.watch >= 75 THEN 3 ELSE 2
               one == Feed!Optional(m.watch # Unknown, Feed!Fact(x))
               two == one \o Feed!Optional(m.standing = 100, Feed!Fact(3))
    <2>1. x \in Int
      OBVIOUS
    <2> HIDE DEF x
    <2>2. Feed!CompanyParts(m) = two \o Feed!Optional(m.standing = 0, Feed!Fact(-10))
      BY DEF Feed!CompanyParts, x
    <2> HIDE DEF one, two
    <2>3. Parted(one)
      BY <1>1, <2>1, NoParts, OptionalPart DEF one
    <2>4. Summand(Feed!Fact(3)) /\ Summand(Feed!Fact(-10))
      BY <1>1
    <2>5. Parted(two)
      BY <2>3, <2>4, OptionalPart DEF two
    <2>6. Parted(two \o Feed!Optional(m.standing = 0, Feed!Fact(-10)))
      BY <2>4, <2>5, OptionalPart
    <2>7. QED
      BY <2>2, <2>6, PartedTotal
  <1>4. Feed!SumOf(Feed!FeedbackPart(m)) \in Int
    <2> DEFINE one == Feed!Optional(m.feedback = "POSITIVE", Feed!Fact(5))
               two == one \o Feed!Optional(m.feedback = "INTERESTED", Feed!Fact(3))
    <2>1. Feed!FeedbackPart(m) = two \o Feed!Optional(m.feedback = "NEGATIVE", Feed!Fact(-15))
      BY DEF Feed!FeedbackPart
    <2> HIDE DEF one, two
    <2>2. Summand(Feed!Fact(5)) /\ Summand(Feed!Fact(3)) /\ Summand(Feed!Fact(-15))
      BY <1>1
    <2>3. Parted(one)
      BY <2>2, NoParts, OptionalPart DEF one
    <2>4. Parted(two)
      BY <2>2, <2>3, OptionalPart DEF two
    <2>5. Parted(two \o Feed!Optional(m.feedback = "NEGATIVE", Feed!Fact(-15)))
      BY <2>2, <2>4, OptionalPart
    <2>6. QED
      BY <2>1, <2>5, PartedTotal
  <1>5. QED
    BY <1>2, <1>3, <1>4

LEMMA LikeLowersNothing ==
    ASSUME NEW s, Learnable(s), NEW m, m.base \in Int, IsFiniteSet(m.job.role), IsFiniteSet(m.job.skills),
           ~StandsIn(m, s), ~StandsIn(m, Append(s, Like(m.job)))
    PROVE  Feed!FinalScore(m, Append(s, Like(m.job))) >= Feed!FinalScore(m, s)
  <1> DEFINE t == Append(s, Like(m.job))
             low == Feed!SumOf(Feed!LearnedParts(m, s))
             high == Feed!SumOf(Feed!LearnedParts(m, t))
  <1>1. Learnable(t) /\ ~StandsIn(m, t)
    BY LikedIs
  <1>2. /\ RoleGain(m, s) <= RoleGain(m, t) /\ SkillGain(m, s) <= SkillGain(m, t)
        /\ PlaceGain(m, s) <= PlaceGain(m, t)
    BY RoleGrows, SkillGrowsLiked, PlaceGrows
  <1>3. CompanyGain(m, s) <= CompanyGain(m, t) /\ ModeGain(m, s) <= ModeGain(m, t)
    <2>1. m.job.company = m.job["company"] /\ m.job.mode = m.job["mode"]
      OBVIOUS
    <2>2. 4 \in Nat /\ 3 \in Nat /\ "company" # "skills" /\ "mode" # "skills"
      OBVIOUS
    <2>3. CompanyGain(m, s) <= CompanyGain(m, t)
      BY <2>1, <2>2, OneKeyGrows DEF CompanyGain
    <2>4. ModeGain(m, s) <= ModeGain(m, t)
      BY <2>1, <2>2, OneKeyGrows DEF ModeGain
    <2>5. QED
      BY <2>3, <2>4
  <1> HIDE DEF t
  <1>4. low \in Int /\ high \in Int /\ low <= high
    <2>1. /\ RoleGain(m, s) \in Int /\ SkillGain(m, s) \in Int /\ CompanyGain(m, s) \in Int
          /\ PlaceGain(m, s) \in Int /\ ModeGain(m, s) \in Int
          /\ low = RoleGain(m, s) + SkillGain(m, s) + CompanyGain(m, s) + PlaceGain(m, s) + ModeGain(m, s)
      BY LearnedIs
    <2>2. /\ RoleGain(m, t) \in Int /\ SkillGain(m, t) \in Int /\ CompanyGain(m, t) \in Int
          /\ PlaceGain(m, t) \in Int /\ ModeGain(m, t) \in Int
          /\ high = RoleGain(m, t) + SkillGain(m, t) + CompanyGain(m, t) + PlaceGain(m, t) + ModeGain(m, t)
      BY <1>1, LearnedIs
    <2> HIDE DEF low, high
    <2>3. QED
      BY <1>2, <1>3, <2>1, <2>2
  <1> HIDE DEF low, high
  <1> DEFINE x == Feed!Preference(m, s)
             y == Feed!Preference(m, t)
  <1>5. x \in Int /\ y \in Int /\ x <= y
    BY <1>4 DEF Feed!Preference, Feed!Clamp, Feed!Point, low, high
  <1> DEFINE a == Feed!SumOf(Feed!FreshnessPart(m))
             b == Feed!Clamp(Feed!SumOf(Feed!CompanyParts(m)), -10 * Feed!Point, 5 * Feed!Point)
             c == Feed!SumOf(Feed!FeedbackPart(m))
  <1>6. a \in Int /\ b \in Int /\ c \in Int
    BY FactsAre DEF Feed!Clamp, Feed!Point
  <1>7. /\ Feed!FinalScore(m, s) = Feed!Clamp(m.base + x + a + b + c, 0, 100 * Feed!Point)
        /\ Feed!FinalScore(m, t) = Feed!Clamp(m.base + y + a + b + c, 0, 100 * Feed!Point)
    BY DEF Feed!FinalScore
  <1> HIDE DEF x, y, a, b, c
  <1>8. Feed!FinalScore(m, t) >= Feed!FinalScore(m, s)
    <2>1. /\ m.base + x + a + b + c \in Int /\ m.base + y + a + b + c \in Int
          /\ m.base + x + a + b + c <= m.base + y + a + b + c
      BY <1>5, <1>6
    <2> DEFINE u == m.base + x + a + b + c
               v == m.base + y + a + b + c
    <2> HIDE DEF u, v
    <2>2. u \in Int /\ v \in Int /\ u <= v
      BY <2>1 DEF u, v
    <2>3. Feed!Clamp(u, 0, 100 * Feed!Point) <= Feed!Clamp(v, 0, 100 * Feed!Point)
      BY <2>2 DEF Feed!Clamp, Feed!Point
    <2>4. Feed!Clamp(u, 0, 100 * Feed!Point) \in Int /\ Feed!Clamp(v, 0, 100 * Feed!Point) \in Int
      BY <2>2 DEF Feed!Clamp, Feed!Point
    <2>5. QED
      BY <1>7, <2>3, <2>4 DEF u, v
  <1>9. QED
    BY <1>8 DEF t

LEMMA LikesLowerNothing ==
    ASSUME part = "feed" => input \in FeedInput
    PROVE  LikeNeverLowers
  <1> SUFFICES ASSUME Answered("feed"), NEW n \in DOMAIN input.rows,
                      ~StandsIn(input.rows[n], input.signals),
                      ~StandsIn(input.rows[n], Append(input.signals, Like(input.rows[n].job)))
               PROVE  Feed!FinalScore(input.rows[n], Append(input.signals, Like(input.rows[n].job)))
                          >= Feed!FinalScore(input.rows[n], input.signals)
    BY DEF LikeNeverLowers, StandsIn, Like
  <1>1. input \in FeedInput
    BY DEF Answered
  <1>2. input.rows[n] \in ToSet(input.rows)
    BY DEF ToSet
  <1>3. /\ input.rows[n].base \in Int /\ IsFiniteSet(input.rows[n].job.role)
        /\ IsFiniteSet(input.rows[n].job.skills)
    BY <1>1, <1>2, FeedAssumption
  <1>4. Learnable(input.signals)
    <2>1. \A k \in DOMAIN input.signals : input.signals[k] \in ToSet(input.signals)
      BY DEF ToSet
    <2>2. QED
      BY <1>1, <2>1, FeedAssumption DEF Learnable
  <1>5. QED
    BY <1>3, <1>4, LikeLowersNothing

-------------------------------------------------------------------------------
(* SourceThrottle *)

USE ThrottleAssumption

Place == {"clock", "incr", "expire", "go", "gone", "sleep", "stopped"}

Typed ==
    /\ now \in Window /\ drift \in Nat
    /\ count \in [Window -> Nat]
    /\ timed \subseteq Window
    /\ at \in [Caller -> Place]
    /\ seen \in [Caller -> Window]
    /\ wentIn \in [Caller -> Window \union {NotYet}]

\* Nobody has read a window to come, or gone before the end of its program.
Timely ==
    \A c \in Caller : /\ seen[c] <= now
                      /\ at[c] # "gone" => wentIn[c] = NotYet

\* The callers of window w that have gone, and those that may still go.
Out(w) == {c \in Caller : wentIn[c] = w /\ seen[c] = w}
Admitted(w) == {c \in Caller : seen[c] = w /\ (at[c] \in {"expire", "go"} \/ wentIn[c] = w)}

\* Whoever is admitted to the present window has been counted in it: the key
\* cannot expire while its window lasts.
CountedIn ==
    /\ Cardinality(Admitted(now)) <= count[now]
    /\ Cardinality(Admitted(now)) <= PerMinute

IInv == Typed /\ Timely /\ CountedIn /\ WithinBudget

-------------------------------------------------------------------------------

LEMMA WindowIsFinite == Window \subseteq Nat /\ NotYet \notin Window
  <1>1. Cardinality(Caller) \in Nat
    BY FS_CardinalityType
  <1>2. QED
    BY <1>1 DEF Window, NotYet

LEMMA Sizes ==
    ASSUME NEW S \in SUBSET Caller
    PROVE  IsFiniteSet(S) /\ Cardinality(S) \in Nat
  BY FS_Subset, FS_CardinalityType

LEMMA Smaller ==
    ASSUME NEW S \in SUBSET Caller, NEW T \in SUBSET S
    PROVE  Cardinality(T) <= Cardinality(S)
  BY Sizes, FS_Subset

LEMMA InitEstablishes == ThrottleInit => IInv
  <1> SUFFICES ASSUME ThrottleInit PROVE IInv
    OBVIOUS
  <1>1. Typed /\ Timely
    <2>1. 0 \in Window
      BY FS_CardinalityType DEF Window
    <2>2. QED
      BY <2>1 DEF ThrottleInit, Typed, Timely, Place
  <1>2. \A w \in Window : Out(w) = {} /\ Admitted(w) = {}
    BY WindowIsFinite DEF ThrottleInit, Out, Admitted
  <1>3. CountedIn
    BY <1>1, <1>2, FS_EmptySet, WindowIsFinite DEF CountedIn, Typed
  <1>4. WithinBudget
    BY <1>2, FS_EmptySet DEF WithinBudget, Out
  <1>5. QED
    BY <1>1, <1>3, <1>4 DEF IInv

-------------------------------------------------------------------------------
(* Steps that admit nobody, send nobody out and do not move the clock *)

LEMMA NobodyMoves ==
    ASSUME IInv, now' = now, count'[now] = count[now],
           Admitted(now)' = Admitted(now), \A w \in Window : Out(w)' = Out(w)
    PROVE  CountedIn' /\ WithinBudget'
  <1>1. CountedIn'
    BY DEF IInv, CountedIn
  <1>2. WithinBudget'
    BY DEF IInv, WithinBudget, Out
  <1>3. QED
    BY <1>1, <1>2

LEMMA ReadClockKeeps ==
    ASSUME IInv, NEW c \in Caller, ReadClock(c) PROVE IInv'
  <1>1. Typed' /\ Timely'
    BY WindowIsFinite DEF IInv, Typed, Timely, ReadClock, Goto, Place
  <1>2. /\ Admitted(now)' = Admitted(now)
        /\ \A w \in Window : Out(w)' = Out(w)
    BY WindowIsFinite DEF IInv, Typed, Timely, ReadClock, Goto, Place, Admitted, Out
  <1>3. QED
    BY <1>1, <1>2, NobodyMoves DEF ReadClock, IInv

LEMMA IncrKeeps ==
    ASSUME IInv, NEW c \in Caller, Incr(c) PROVE IInv'
  <1> DEFINE w == seen[c]
  <1>1. Typed' /\ Timely'
    <2>1. seen[c] \in Window /\ count[seen[c]] \in Nat /\ count[seen[c]] + 1 \in Nat
      BY DEF IInv, Typed
    <2>2. count' \in [Window -> Nat]
      BY <2>1 DEF IInv, Typed, Incr
    <2>3. at' \in [Caller -> Place]
      BY DEF IInv, Typed, Incr, Goto, Place
    <2>4. Timely'
      BY DEF IInv, Typed, Timely, Incr, Goto, Place
    <2>5. QED
      BY <2>2, <2>3, <2>4 DEF IInv, Typed, Incr
  <1>2. \A v \in Window : Out(v)' = Out(v)
    BY DEF Incr, Out
  <1>3. wentIn[c] = NotYet /\ w \in Window /\ w <= now /\ count[w] \in Nat /\ now \in Window
    BY DEF IInv, Typed, Timely, Incr
  <1>4. CASE w = now /\ count[now] < PerMinute
    <2>1. Admitted(now)' = Admitted(now) \union {c}
      BY <1>3, <1>4, WindowIsFinite DEF IInv, Typed, Incr, Goto, Admitted, Place
    <2>2. c \notin Admitted(now)
      BY <1>3, WindowIsFinite DEF Incr, Admitted
    <2>3. IsFiniteSet(Admitted(now)) /\ Cardinality(Admitted(now)) \in Nat
      BY Sizes DEF Admitted
    <2>4. Cardinality(Admitted(now)') = Cardinality(Admitted(now)) + 1
      BY <2>1, <2>2, <2>3, FS_AddElement, Zenon
    <2>5. count'[now] = count[now] + 1 /\ now' = now
      BY <1>3, <1>4 DEF Incr, IInv, Typed
    <2>6. Cardinality(Admitted(now)') <= count'[now] /\ Cardinality(Admitted(now)') <= PerMinute
      BY <1>3, <1>4, <2>3, <2>4, <2>5 DEF IInv, CountedIn
    <2>7. CountedIn'
      BY <2>5, <2>6 DEF CountedIn
    <2>8. WithinBudget'
      BY <1>2 DEF IInv, WithinBudget, Out
    <2>9. QED
      BY <1>1, <2>7, <2>8 DEF IInv
  <1>5. CASE w # now \/ ~(count[now] < PerMinute)
    <2>1. Admitted(now)' = Admitted(now)
      BY <1>3, <1>5, WindowIsFinite DEF IInv, Typed, Incr, Goto, Admitted, Place
    <2>2. count'[now] >= count[now] /\ count'[now] \in Nat /\ count[now] \in Nat
      BY <1>3 DEF IInv, Typed, Incr
    <2>3. Cardinality(Admitted(now)) \in Nat
      BY Sizes DEF Admitted
    <2>4. CountedIn'
      BY <2>1, <2>2, <2>3 DEF IInv, CountedIn, Incr
    <2>5. WithinBudget'
      BY <1>2 DEF IInv, WithinBudget, Out
    <2>6. QED
      BY <1>1, <2>4, <2>5 DEF IInv
  <1>6. QED
    BY <1>4, <1>5

LEMMA ExpireKeeps ==
    ASSUME IInv, NEW c \in Caller, Expire(c) PROVE IInv'
  <1>1. Typed' /\ Timely'
    BY DEF IInv, Typed, Timely, Expire, Goto, Place
  <1>2. /\ Admitted(now)' = Admitted(now)
        /\ \A w \in Window : Out(w)' = Out(w)
    BY DEF IInv, Typed, Expire, Goto, Admitted, Out
  <1>3. QED
    BY <1>1, <1>2, NobodyMoves DEF Expire, IInv

\* A caller that goes after its window is counted in neither.
LEMMA GoUpstreamKeeps ==
    ASSUME IInv, NEW c \in Caller, GoUpstream(c) PROVE IInv'
  <1>1. Typed' /\ Timely'
    BY DEF IInv, Typed, Timely, GoUpstream, Goto, Place
  <1>2. Admitted(now)' = Admitted(now)
    BY WindowIsFinite DEF IInv, Typed, Timely, GoUpstream, Goto, Admitted, Place
  <1>3. CountedIn'
    BY <1>2 DEF IInv, CountedIn, GoUpstream
  <1>4. ASSUME NEW w \in Window PROVE Cardinality(Out(w)') <= PerMinute
    <2>1. CASE w = now
      <3>1. Out(w)' \in SUBSET Admitted(now)
        BY <1>2, <2>1 DEF Out, Admitted, GoUpstream
      <3>2. Cardinality(Out(w)') <= Cardinality(Admitted(now))
        BY <3>1, Smaller DEF Admitted
      <3>3. Cardinality(Out(w)') \in Nat /\ Cardinality(Admitted(now)) \in Nat
        BY Sizes DEF Admitted, Out
      <3>4. QED
        BY <3>2, <3>3 DEF IInv, CountedIn
    <2>2. CASE w # now
      <3>1. Out(w)' = Out(w)
        BY <2>2, WindowIsFinite DEF IInv, Typed, Timely, GoUpstream, Out
      <3>2. QED
        BY <3>1 DEF IInv, WithinBudget, Out
    <2>3. QED
      BY <2>1, <2>2
  <1>5. WithinBudget'
    BY <1>4 DEF WithinBudget, Out
  <1>6. QED
    BY <1>1, <1>3, <1>5 DEF IInv

LEMMA WakeKeeps ==
    ASSUME IInv, NEW c \in Caller, Wake(c) PROVE IInv'
  <1>1. Typed' /\ Timely'
    BY DEF IInv, Typed, Timely, Wake, Goto, Place
  <1>2. /\ Admitted(now)' = Admitted(now)
        /\ \A w \in Window : Out(w)' = Out(w)
    BY DEF IInv, Typed, Wake, Goto, Admitted, Out
  <1>3. QED
    BY <1>1, <1>2, NobodyMoves DEF Wake, IInv

\* A caller that is stopped stays in the count.
LEMMA StopKeeps ==
    ASSUME IInv, NEW c \in Caller, StopCaller(c) PROVE IInv'
  <1>1. Typed' /\ Timely'
    BY DEF IInv, Typed, Timely, StopCaller, Goto, Place
  <1>2. Admitted(now)' \in SUBSET Admitted(now) /\ Admitted(now) \in SUBSET Caller
    BY DEF IInv, Typed, StopCaller, Goto, Admitted
  <1>3. Cardinality(Admitted(now)') <= Cardinality(Admitted(now))
    BY <1>2, Smaller
  <1>4. Cardinality(Admitted(now)') \in Nat /\ Cardinality(Admitted(now)) \in Nat
    BY <1>2, Sizes
  <1>5. count[now] \in Nat
    BY DEF IInv, Typed
  <1>6. CountedIn'
    BY <1>3, <1>4, <1>5 DEF IInv, CountedIn, StopCaller
  <1>7. WithinBudget'
    BY DEF IInv, WithinBudget, StopCaller
  <1>8. QED
    BY <1>1, <1>6, <1>7 DEF IInv

LEMMA ExpireKeyKeeps ==
    ASSUME IInv, NEW w \in Window, ExpireKey(w) PROVE IInv'
  <1>1. Typed' /\ Timely'
    BY DEF IInv, Typed, Timely, ExpireKey
  <1>2. count'[now] = count[now]
    BY WindowIsFinite DEF IInv, Typed, ExpireKey
  <1>3. /\ Admitted(now)' = Admitted(now)
        /\ \A v \in Window : Out(v)' = Out(v)
    BY DEF ExpireKey, Admitted, Out
  <1>4. QED
    BY <1>1, <1>2, <1>3, NobodyMoves DEF ExpireKey, IInv

\* Nobody has been admitted to the next window yet.
LEMMA TickKeeps ==
    ASSUME IInv, TickForSleeper \/ TickAnyway PROVE IInv'
  <1>1. /\ now' = now + 1 /\ now + 1 \in Window
        /\ UNCHANGED <<count, timed, at, seen, wentIn>>
    BY DEF TickForSleeper, TickAnyway
  <1>2. Typed' /\ Timely'
    <2>1. drift' \in Nat
      BY DEF IInv, Typed, TickForSleeper, TickAnyway
    <2>2. Typed'
      BY <1>1, <2>1 DEF IInv, Typed
    <2>3. \A c \in Caller : seen[c] \in Nat /\ now \in Nat
      BY WindowIsFinite, Zenon DEF IInv, Typed
    <2>4. Timely'
      BY <1>1, <2>3 DEF IInv, Timely
    <2>5. QED
      BY <2>2, <2>4
  <1>3. Admitted(now)' = {}
    BY <1>1, WindowIsFinite DEF IInv, Typed, Timely, Admitted
  <1>4. CountedIn'
    BY <1>2, <1>3, FS_EmptySet, WindowIsFinite DEF CountedIn, Typed
  <1>5. WithinBudget'
    BY <1>1 DEF IInv, WithinBudget
  <1>6. QED
    BY <1>2, <1>4, <1>5 DEF IInv

LEMMA StepKeeps == IInv /\ [ThrottleNext]_throttleVars => IInv'
  <1> SUFFICES ASSUME IInv, [ThrottleNext]_throttleVars PROVE IInv'
    OBVIOUS
  <1>1. CASE \E c \in Caller : CallerStep(c) \/ StopCaller(c)
    BY <1>1, ReadClockKeeps, IncrKeeps, ExpireKeeps, GoUpstreamKeeps, WakeKeeps, StopKeeps
       DEF CallerStep
  <1>2. CASE \E w \in Window : ExpireKey(w)
    BY <1>2, ExpireKeyKeeps
  <1>3. CASE TickForSleeper \/ TickAnyway
    BY <1>3, TickKeeps
  <1>4. CASE UNCHANGED throttleVars
    BY <1>4 DEF throttleVars, IInv, Typed, Timely, CountedIn, Admitted, WithinBudget
  <1>5. QED
    BY <1>1, <1>2, <1>3, <1>4 DEF ThrottleNext

-------------------------------------------------------------------------------
(* The loop of duplicate detection *)

\* The jobs the loop has looked at.
Scanned == {j \in DOMAIN stored : j > i}

LoopTyped ==
    /\ candidate \in Posting
    /\ \E n \in Nat : stored \in [1 .. n -> [offer : Posting]] /\ i \in 0 .. n

\* best is the best of them, and none as long as none is eligible.
BestSoFar ==
    \/ best = NoMatch /\ bestScore = 0 /\ Eligible(candidate, stored, Scanned) = {}
    \/ /\ best \in Best(candidate, stored, Scanned)
       /\ bestScore = Score(candidate, stored[best].offer)

LoopInv ==
    /\ LoopTyped /\ BestSoFar
    /\ decision # NoDecision => i = 0
    /\ LoopDecides

\* A behaviour that is about another part decides nothing.
DetectionInv == IF part = "detection" THEN LoopInv ELSE decision = NoDecision

LEMMA ProductInNat ==
    ASSUME NEW a \in Nat, NEW b \in Nat
    PROVE  a * b \in Nat
  OBVIOUS

LEMMA ScoreInNat ==
    ASSUME NEW c \in Posting, NEW e \in Posting
    PROVE  Score(c, e) \in Nat
  <1> DEFINE value == Similarity(c, e)
             Part(s) == IF value[s] = Unknown THEN 0 ELSE Weight[s] * value[s]
  <1>1. value \in [Signal -> (0 .. 100) \union {Unknown}]
    BY CandidatesAssumption
  <1>2. ASSUME NEW s \in Signal PROVE Part(s) \in Nat
    <2>1. CASE value[s] = Unknown
      BY <2>1
    <2>2. CASE value[s] # Unknown
      <3>1. value[s] \in Nat /\ Weight[s] \in Nat
        BY <1>1, <2>2, CandidatesAssumption
      <3>2. Weight[s] * value[s] \in Nat
        BY <3>1, ProductInNat
      <3>3. QED
        BY <2>2, <3>2
    <2>3. QED
      BY <2>1, <2>2
  <1>3. /\ Part("title") \in Nat /\ Part("description") \in Nat
        /\ Part("location") \in Nat /\ Part("postedDate") \in Nat
    BY <1>2 DEF Signal
  <1>4. Score(c, e) = Part("title") + Part("description") + Part("location")
                        + Part("postedDate")
    BY DEF Score
  <1> HIDE DEF Part
  <1>5. QED
    BY <1>3, <1>4

\* No two jobs beat each other.
LEMMA BestIsOne ==
    ASSUME LoopTyped, NEW a \in Best(candidate, stored, DOMAIN stored),
           NEW b \in Best(candidate, stored, DOMAIN stored)
    PROVE  a = b
  <1>1. PICK n \in Nat : stored \in [1 .. n -> [offer : Posting]]
    BY DEF LoopTyped
  <1>2. a \in 1 .. n /\ b \in 1 .. n /\ a \in Int /\ b \in Int
    BY <1>1 DEF Best, Eligible
  <1>3. Score(candidate, stored[a].offer) \in Nat /\ Score(candidate, stored[b].offer) \in Nat
    BY <1>1, <1>2, ScoreInNat, Zenon DEF LoopTyped
  <1>4. Beats(candidate, stored, a, b) /\ Beats(candidate, stored, b, a)
    BY DEF Best
  <1>5. QED
    BY <1>2, <1>3, <1>4 DEF Beats

LEMMA LoopStarts == Init => LoopInv
  <1> SUFFICES ASSUME Init PROVE LoopInv
    OBVIOUS
  <1>1. PICK n \in 0 .. MaxCandidates : stored \in [1 .. n -> [offer : Posting]] /\ i = n
    BY DEF Init
  <1>2. n \in Nat /\ i \in 0 .. n
    BY <1>1, CandidatesAssumption
  <1>3. LoopTyped
    BY <1>1, <1>2 DEF LoopTyped, Init
  <1>4. Scanned = {}
    BY <1>1, <1>2 DEF Scanned
  <1>5. BestSoFar
    BY <1>4 DEF Init, BestSoFar, Eligible
  <1>6. QED
    BY <1>3, <1>5 DEF Init, LoopInv, LoopDecides

LEMMA CompareKeeps ==
    ASSUME LoopInv, Compare
    PROVE  LoopInv'
  <1>1. PICK n \in Nat : stored \in [1 .. n -> [offer : Posting]] /\ i \in 0 .. n
    BY Zenon DEF LoopInv, LoopTyped
  <1>2. i \in 1 .. n /\ i' = i - 1 /\ i' \in 0 .. n /\ i \in DOMAIN stored
        /\ UNCHANGED <<candidate, stored, decision>> /\ candidate \in Posting
        /\ decision = NoDecision
    BY <1>1 DEF Compare, LoopInv, LoopTyped
  <1>3. LoopTyped'
    BY <1>1, <1>2 DEF LoopTyped
  <1>4. Scanned' = Scanned \union {i}
    <2>1. Scanned' = {j \in DOMAIN stored : j > i - 1} /\ DOMAIN stored = 1 .. n
      BY <1>1, <1>2 DEF Scanned
    <2>2. \A j \in 1 .. n : j > i - 1 <=> j > i \/ j = i
      BY <1>2
    <2>3. QED
      BY <2>1, <2>2, <1>2 DEF Scanned
  <1> DEFINE S(j) == Score(candidate, stored[j].offer)
             Old == Eligible(candidate, stored, Scanned)
             New == Eligible(candidate, stored, Scanned')
  <1>5. \A j \in Scanned : j \in Nat /\ j > i /\ S(j) \in Nat
    BY <1>1, <1>2, ScoreInNat DEF Scanned
  <1>6. S(i) \in Nat /\ i \in Nat
    BY <1>1, <1>2, ScoreInNat
  <1>7. Old \subseteq Scanned /\ Old \subseteq New /\ New \subseteq Old \union {i}
    BY <1>4 DEF Eligible
  <1>8. i \in New <=> PassesTitleGate(candidate, stored[i].offer) /\ S(i) > 0
    BY <1>4 DEF Eligible
  <1>9. bestScore \in Nat /\ \A j \in Old : bestScore >= S(j)
    <2>1. CASE best = NoMatch /\ bestScore = 0 /\ Old = {}
      BY <2>1
    <2>2. CASE best \in Best(candidate, stored, Scanned) /\ bestScore = S(best)
      <3>1. best \in Scanned /\ \A j \in Old : Beats(candidate, stored, best, j)
        BY <2>2 DEF Best, Eligible
      <3>2. \A j \in Old : S(best) > S(j) \/ S(best) = S(j)
        BY <3>1 DEF Beats
      <3>3. QED
        BY <2>2, <3>1, <3>2, <1>5, <1>7
    <2>3. QED
      BY <2>1, <2>2 DEF LoopInv, BestSoFar
  <1>10. BestSoFar'
    <2>1. CASE PassesTitleGate(candidate, stored[i].offer) /\ S(i) > bestScore
      <3>1. best' = i /\ bestScore' = S(i)
        BY <2>1, <1>2 DEF Compare
      <3>2. i \in New
        BY <2>1, <1>6, <1>8, <1>9
      <3>3. ASSUME NEW j \in New PROVE Beats(candidate, stored, i, j)
        <4>1. CASE j = i
          BY <4>1, <1>6 DEF Beats
        <4>2. CASE j \in Old
          <5>1. S(i) > S(j)
            BY <4>2, <2>1, <1>5, <1>6, <1>7, <1>9
          <5>2. QED
            BY <5>1 DEF Beats
        <4>3. QED
          BY <4>1, <4>2, <1>7
      <3>4. i \in Best(candidate, stored, Scanned')
        BY <3>2, <3>3 DEF Best
      <3>5. QED
        BY <3>1, <3>4, <1>2 DEF BestSoFar
    <2>2. CASE ~(PassesTitleGate(candidate, stored[i].offer) /\ S(i) > bestScore)
      <3>1. best' = best /\ bestScore' = bestScore
        BY <2>2, <1>2 DEF Compare
      <3>2. CASE best = NoMatch /\ bestScore = 0 /\ Old = {}
        <4>1. New = {}
          BY <3>2, <2>2, <1>6, <1>7, <1>8
        <4>2. QED
          BY <3>1, <3>2, <4>1, <1>2 DEF BestSoFar
      <3>3. CASE best \in Best(candidate, stored, Scanned) /\ bestScore = S(best)
        <4>1. best \in Old /\ best \in New /\ best \in Nat /\ best > i /\ S(best) \in Nat
          BY <3>3, <1>5, <1>7 DEF Best
        <4>2. ASSUME NEW j \in New PROVE Beats(candidate, stored, best, j)
          <5>1. CASE j \in Old
            BY <5>1, <3>3 DEF Best
          <5>2. CASE j = i
            <6>1. ~(S(i) > S(best))
              BY <5>2, <2>2, <1>8, <3>3
            <6>2. S(best) > S(i) \/ (S(best) = S(i) /\ best >= i)
              BY <6>1, <4>1, <1>6
            <6>3. QED
              BY <5>2, <6>2 DEF Beats
          <5>3. QED
            BY <5>1, <5>2, <1>7
        <4>3. best \in Best(candidate, stored, Scanned')
          BY <4>1, <4>2 DEF Best
        <4>4. QED
          BY <3>1, <3>3, <4>3, <1>2 DEF BestSoFar
      <3>4. QED
        BY <3>2, <3>3 DEF LoopInv, BestSoFar
    <2>3. QED
      BY <2>1, <2>2
  <1>11. QED
    BY <1>2, <1>3, <1>10 DEF LoopInv, LoopDecides

LEMMA ReturnKeeps ==
    ASSUME LoopInv, Return
    PROVE  LoopInv'
  <1>1. i = 0 /\ UNCHANGED <<candidate, stored, i, best, bestScore>>
    BY DEF Return
  <1>2. LoopTyped' /\ BestSoFar'
    BY <1>1 DEF LoopInv, LoopTyped, BestSoFar, Scanned
  <1>3. Scanned = DOMAIN stored
    BY <1>1 DEF LoopInv, LoopTyped, Scanned
  <1>4. decision' = Decide(candidate, stored, DOMAIN stored)
    <2>1. CASE best = NoMatch /\ Eligible(candidate, stored, DOMAIN stored) = {}
      <3>1. Best(candidate, stored, DOMAIN stored) = {}
        BY <2>1 DEF Best
      <3>2. QED
        BY <2>1, <3>1 DEF Return, Decide
    <2>2. CASE /\ best \in Best(candidate, stored, DOMAIN stored)
               /\ bestScore = Score(candidate, stored[best].offer)
      <3>1. best # NoMatch
        BY <2>2 DEF LoopInv, LoopTyped, NoMatch, Best, Eligible
      <3>2. (CHOOSE j \in Best(candidate, stored, DOMAIN stored) : TRUE) = best
        BY <2>2, BestIsOne DEF LoopInv
      <3>3. QED
        BY <2>2, <3>1, <3>2, Zenon DEF Return, Decide
    <2>3. QED
      BY <1>3, <2>1, <2>2 DEF LoopInv, BestSoFar
  <1>5. QED
    BY <1>1, <1>2, <1>4 DEF LoopInv, LoopDecides

LEMMA LoopStep == LoopInv /\ [Next]_vars => LoopInv'
  <1> SUFFICES ASSUME LoopInv, [Next]_vars PROVE LoopInv'
    OBVIOUS
  <1>1. CASE UNCHANGED vars
    BY <1>1, Zenon DEF vars, LoopInv, LoopTyped, BestSoFar, Scanned, LoopDecides
  <1>2. QED
    BY <1>1, CompareKeeps, ReturnKeeps DEF Next

-------------------------------------------------------------------------------
(* The two parts within Services *)

\* What a behaviour is about stays, and every other part stands still.
LEMMA PartsApart ==
    ASSUME [ServicesNext]_servicesVars
    PROVE  /\ part' = part
           /\ part = "detection" => [Next]_vars
           /\ part # "detection" => UNCHANGED vars
           /\ [ThrottleNext]_throttleVars
  <1>1. CASE DetectDuplicate \/ Throttle \/ CountRequests
    BY <1>1 DEF DetectDuplicate, Throttle, CountRequests, callVars
  <1>2. CASE UNCHANGED servicesVars
    BY <1>2 DEF servicesVars, callVars
  <1>3. CASE \/ RankFeed \/ BrowseJobs \/ ScoreJob \/ FetchSource \/ FilterJob \/ CompareSkills
             \/ BuildReport \/ NormalizeTexts \/ AskModel
    BY <1>3, Zenon DEF RankFeed, BrowseJobs, ScoreJob, FetchSource, FilterJob, CompareSkills,
                BuildReport, NormalizeTexts, AskModel, Answers
  <1>4. QED
    BY <1>1, <1>2, <1>3 DEF ServicesNext

\* Of the calls that go out in the window they were counted in, no window has
\* more than PerMinute (throttle.py:3-4 "multiple workers share one budget").
THEOREM WithinBudgetHolds == ServicesSpec => []WithinBudget
  <1>1. ServicesInit => IInv
    BY InitEstablishes DEF ServicesInit
  <1>2. IInv /\ [ServicesNext]_servicesVars => IInv'
    BY PartsApart, StepKeeps
  <1>3. IInv => WithinBudget
    BY DEF IInv
  <1>4. QED
    BY <1>1, <1>2, <1>3, PTL DEF ServicesSpec

\* The scan that keeps the best job so far, newest first and by a strict
\* comparison, returns what the declarative Decide says the best candidate is,
\* ties included (duplicate_detection_service.py:83-101).
THEOREM LoopDecidesAlways == ServicesSpec => []LoopDecides
  <1>1. ServicesInit => DetectionInv
    BY LoopStarts DEF ServicesInit, NoDetection, DetectionInv
  <1>2. DetectionInv /\ [ServicesNext]_servicesVars => DetectionInv'
    BY PartsApart, LoopStep DEF DetectionInv, vars
  <1>3. DetectionInv => LoopDecides
    BY DEF DetectionInv, LoopInv, LoopDecides
  <1>4. QED
    BY <1>1, <1>2, <1>3, PTL DEF ServicesSpec

-------------------------------------------------------------------------------
(* The calls within Services *)

\* An algorithm answers its input, once, with what it computes from it.
Told ==
    /\ part = "gap" => input \in GapInput /\ output \in {Unknown, GapAnswer}
    /\ part = "score" => input \in ScoreInput /\ output \in {Unknown, ScoreAnswer(input)}
    /\ part = "feed" => input \in FeedInput
    /\ part = "ask" => input \in AskInput /\ output \in {Unknown, AskAnswer(input)}

LEMMA ToldInitially == ServicesInit => Told
  BY DEF ServicesInit, InputOf, Told

LEMMA ToldKeeps ==
    ASSUME Told, [ServicesNext]_servicesVars
    PROVE  Told'
  <1>1. ASSUME part' = part, input' = input, output' = output
        PROVE  Told'
    BY <1>1 DEF Told, GapAnswer, ScoreAnswer, AskAnswer
  <1>2. CASE \/ UNCHANGED servicesVars \/ DetectDuplicate \/ Throttle \/ CountRequests
    BY <1>1, <1>2 DEF servicesVars, callVars, DetectDuplicate, Throttle, CountRequests
  <1>3. CASE RankFeed \/ BrowseJobs \/ FetchSource \/ FilterJob \/ BuildReport \/ NormalizeTexts
    <2>1. part' = part /\ input' = input /\ part \notin {"gap", "score", "ask"}
      BY <1>3, Zenon DEF RankFeed, BrowseJobs, FetchSource, FilterJob, BuildReport, NormalizeTexts, Answers
    <2>2. QED
      BY <2>1 DEF Told
  <1>4. CASE CompareSkills
    <2>1. part' = part /\ part = "gap" /\ input' = input /\ output' = GapAnswer
      BY <1>4 DEF CompareSkills, Answers, GapAnswer
    <2>2. GapAnswer' = GapAnswer
      BY <2>1 DEF GapAnswer
    <2>3. QED
      BY <2>1, <2>2 DEF Told
  <1>5. CASE ScoreJob
    <2>1. part' = part /\ part = "score" /\ input' = input /\ output' = ScoreAnswer(input)
      BY <1>5 DEF ScoreJob, Answers, ScoreAnswer
    <2>2. QED
      BY <2>1 DEF Told
  <1>6. CASE AskModel
    <2>1. part' = part /\ part = "ask" /\ input' = input /\ output' = AskAnswer(input)
      BY <1>6 DEF AskModel, Answers, AskAnswer
    <2>2. QED
      BY <2>1 DEF Told
  <1>7. QED
    BY <1>2, <1>3, <1>4, <1>5, <1>6 DEF ServicesNext

\* The gap page and the assistant name the same skills whenever the stored
\* analysis is current, each asked skill once, none the candidate has is missing,
\* and no suggestion is kept whose quote shares nothing with the candidate's
\* facts (resume_gap_service.py:67-152, candidate_context.py:190-203).
THEOREM GapsAgreeAlways == ServicesSpec => []GapsAgree
  <1>1. Told => GapsAgree
    <2> SUFFICES ASSUME Told, Answered("gap") PROVE GapsAgree
      BY Zenon DEF GapsAgree
    <2>1. part = "gap" /\ input \in GapInput /\ output = GapAnswer
      BY DEF Told, Answered
    <2>2. QED
      BY <2>1, GapsAgreeOnAnswer
  <1>2. QED
    BY <1>1, ToldInitially, ToldKeeps, PTL DEF ServicesSpec

\* The scores are within their scale and the overall between them, a skill the job
\* asks for, more pay or a watchlist priority never counts against it, the model
\* has no say in them, and is asked again only after an error that may pass, as
\* often as allowed and no sooner than it said (rule_based_matcher.py:75-307,
\* ai_matcher.py:1-7, retry.py:18-47).
THEOREM FairScoresAlways == ServicesSpec => []FairScores
  <1>1. Told => FairScores
    <2> SUFFICES ASSUME Told PROVE FairScores
      OBVIOUS
    <2>1. Answered("score") => ScoreFair(input, output)
      <3>1. Answered("score") => input \in ScoreInput /\ output = ScoreAnswer(input)
        BY DEF Told, Answered
      <3>2. QED
        BY <3>1, ScoresAreFair
    <2>2. Answered("ask") => AskFair(input, output)
      <3>1. Answered("ask") => input \in AskInput /\ output = AskAnswer(input)
        BY DEF Told, Answered
      <3>2. QED
        BY <3>1, AsksAreFair
    <2>3. QED
      BY <2>1, <2>2, Zenon DEF FairScores, ScoreFair, AskFair
  <1>2. QED
    BY <1>1, ToldInitially, ToldKeeps, PTL DEF ServicesSpec

\* To like a job never lowers it, whatever was learned before: except where, before
\* or after it, a similar role stands in for the job's own, which was not learned
\* or is not among those that are kept (ranking_service.py:118-205).
THEOREM LikeNeverLowersAlways == ServicesSpec => []LikeNeverLowers
  <1>1. Told => LikeNeverLowers
    BY LikesLowerNothing DEF Told
  <1>2. QED
    BY <1>1, ToldInitially, ToldKeeps, PTL DEF ServicesSpec

-------------------------------------------------------------------------------
(* Counting a set by parts *)

\* The sets of what has each key add up to the whole.
LEMMA Fibres ==
    ASSUME NEW S, IsFiniteSet(S), NEW I, IsFiniteSet(I), NEW f, \A j \in S : f[j] \in I
    PROVE  Cardinality(S) = Total([n \in I |-> Cardinality({j \in S : f[j] = n})], I)
  <1> DEFINE c == [n \in I |-> Cardinality({j \in S : f[j] = n})]
             Of(s) == {j \in S : f[j] \in s}
             Good == {s \in SUBSET I : Cardinality(Of(s)) = Total(c, s)}
  <1>1. {} \in Good
    <2>1. Of({}) = {} /\ Cardinality({}) = 0 /\ Total(c, {}) = 0
      BY FS_EmptySet, TotalEmpty
    <2>2. QED
      BY <2>1
  <1>2. \A n \in I : c[n] \in Nat
    <2> SUFFICES ASSUME NEW n \in I PROVE c[n] \in Nat
      OBVIOUS
    <2>1. IsFiniteSet({j \in S : f[j] = n})
      BY FS_Subset
    <2>2. QED
      BY <2>1, FS_CardinalityType
  <1>3. ASSUME NEW s \in SUBSET I, s # {}, s \ {First(s)} \in Good PROVE s \in Good
    <2> DEFINE a == First(s)
               t == s \ {a}
               here == {j \in S : f[j] = a}
    <2>1. a \in s
      BY <1>3 DEF First
    <2> HIDE DEF a
    <2>2. Cardinality(Of(t)) = Total(c, t)
      BY <1>3 DEF a
    <2>3. Of(s) = Of(t) \union here /\ Of(t) \intersect here = {}
      BY <2>1
    <2>4. IsFiniteSet(Of(t)) /\ IsFiniteSet(here)
      BY FS_Subset
    <2>5. Cardinality(Of(s)) = Cardinality(Of(t)) + Cardinality(here)
      <3> HIDE DEF Of, here, t
      <3>1. Cardinality(Of(t) \union here)
                = Cardinality(Of(t)) + Cardinality(here) - Cardinality(Of(t) \intersect here)
        BY <2>4, FS_Union
      <3>2. Cardinality(Of(t)) \in Nat /\ Cardinality(here) \in Nat /\ Cardinality({}) = 0
        BY <2>4, FS_CardinalityType, FS_EmptySet
      <3>3. Cardinality(Of(t) \union here) = Cardinality(Of(t)) + Cardinality(here)
        <4>1. Cardinality(Of(t) \intersect here) = 0
          BY <2>3, <3>2, Zenon
        <4>2. QED
          BY <3>1, <3>2, <4>1
      <3>4. QED
        BY <2>3, <3>3, Zenon
    <2>6. c[a] = Cardinality(here)
      BY <2>1
    <2>7. IsFiniteSet(s) /\ \A n \in s : c[n] \in Int
      BY <1>2, FS_Subset
    <2> HIDE DEF c
    <2>8. Total(c, s) = c[a] + Total(c, t) /\ Total(c, t) \in Int /\ c[a] \in Int
      BY <2>1, <2>7, TotalInsert
    <2> HIDE DEF Of, here, t
    <2>9. Cardinality(Of(s)) = Total(c, s)
      BY <2>2, <2>5, <2>6, <2>8
    <2>10. QED
      BY <2>9
  <1> HIDE DEF Good
  <1>4. I \in Good
    BY <1>1, <1>3, SubsetInduction
  <1>5. Of(I) = S
    OBVIOUS
  <1>6. QED
    BY <1>4, <1>5 DEF Good

\* What has a key, and how much of each key there is.
Having(S, f, n) == {j \in S : f[j] = n}
CountsOf(S, f, I) == [n \in I |-> Cardinality({j \in S : f[j] = n})]

\* And so do the sums, for each part, of the sets it is made of.
LEMMA FibresTwice ==
    ASSUME NEW S, IsFiniteSet(S), NEW T, IsFiniteSet(T), NEW F, IsFiniteSet(F),
           NEW title, \A j \in S : title[j] \in T, NEW family, \A t \in T : family[t] \in F,
           NEW sum, \A f \in F : sum[f] = Total(CountsOf(S, title, Having(T, family, f)),
                                             Having(T, family, f))
    PROVE  Cardinality(S) = Total(sum, F)
  <1> DEFINE fam == [j \in S |-> family[title[j]]]
             share == [f \in F |-> Cardinality({j \in S : fam[j] = f})]
  <1>1. Cardinality(S) = Total(share, F)
    <2>1. \A j \in S : fam[j] \in F
      OBVIOUS
    <2> HIDE DEF fam
    <2>2. QED
      BY <2>1, Fibres
  <1>2. ASSUME NEW f \in F PROVE share[f] = sum[f]
    <2> DEFINE Sf == {j \in S : fam[j] = f}
               Tf == {u \in T : family[u] = f}
               c == [t \in Tf |-> Cardinality({j \in Sf : title[j] = t})]
               d == [t \in Tf |-> Cardinality({j \in S : title[j] = t})]
    <2>1. IsFiniteSet(Sf) /\ IsFiniteSet(Tf) /\ \A j \in Sf : title[j] \in Tf
      <3>1. Sf \subseteq S /\ Tf \subseteq T /\ \A j \in Sf : title[j] \in Tf
        OBVIOUS
      <3>2. QED
        BY <3>1, FS_Subset, Zenon
    <2>2. c = d
      <3>1. ASSUME NEW t \in Tf PROVE {j \in Sf : title[j] = t} = {j \in S : title[j] = t}
        OBVIOUS
      <3>2. QED
        BY <3>1, Zenon
    <2>3. sum[f] = Total(d, Tf)
      BY DEF CountsOf, Having
    <2>4. share[f] = Cardinality(Sf)
      OBVIOUS
    <2> HIDE DEF Sf, Tf
    <2>5. Cardinality(Sf) = Total(c, Tf)
      BY <2>1, Fibres
    <2> HIDE DEF c, d, share
    <2>6. QED
      BY <2>2, <2>3, <2>4, <2>5
  <1> HIDE DEF share
  <1>3. QED
    BY <1>1, <1>2, TotalSame

\* A part of a finite set is no larger.
LEMMA Fewer ==
    ASSUME NEW S, IsFiniteSet(S), NEW T \in SUBSET S
    PROVE  /\ IsFiniteSet(T) /\ Cardinality(T) \in Nat /\ Cardinality(S) \in Nat
           /\ Cardinality(T) <= Cardinality(S)
  BY FS_Subset, FS_CardinalityType

LEMMA ReportCardinality == \A S : Report!Cardinality(S) = Cardinality(S)
  BY DEF Report!Cardinality, Cardinality

LEMMA ReportMin == \A S : Report!Min(S) = Min(S)
  BY DEF Report!Min, Min

-------------------------------------------------------------------------------
(* The folds of the overview are totals *)

\* The sum of a field of some rows, without the operators that fold it.
FieldSum(rows, T, key) ==
    (CHOOSE iter : iter = [t \in SUBSET T |-> IF t = {} THEN 0
                               ELSE rows[First(t)][key] + iter[t \ {First(t)}]])[T]

LEMMA FieldSumIs ==
    ASSUME NEW rows, NEW key, NEW T, IsFiniteSet(T)
    PROVE  FieldSum(rows, T, key) = Total([t \in T |-> rows[t][key]], T)
  <1> DEFINE h == [t \in T |-> rows[t][key]]
             Is(iter) == iter = [t \in SUBSET T |-> IF t = {} THEN 0
                                    ELSE rows[First(t)][key] + iter[t \ {First(t)}]]
             g == CHOOSE iter : Is(iter)
  <1>1. FieldSum(rows, T, key) = g[T]
    BY DEF FieldSum
  <1>2. ASSUME NEW iter PROVE Is(iter) <=> SumsOf(h, T, iter)
    <2>1. \A t \in SUBSET T : t # {} => First(t) \in T
      BY DEF First
    <2>2. [t \in SUBSET T |-> IF t = {} THEN 0
                ELSE rows[First(t)][key] + iter[t \ {First(t)}]]
              = [t \in SUBSET T |-> IF t = {} THEN 0 ELSE h[First(t)] + iter[t \ {First(t)}]]
      BY <2>1
    <2>3. QED
      BY <2>2, Zenon DEF SumsOf
  <1> HIDE DEF Is, h
  <1>3. Is(g)
    BY <1>2, SumStep
  <1> HIDE DEF g
  <1>4. g[T] = Total(h, T)
    BY <1>2, <1>3, TotalIs
  <1>5. QED
    BY <1>1, <1>4 DEF h

LEMMA SumOverIs ==
    ASSUME NEW series, NEW field
    PROVE  SumOver(series, field) = FieldSum(series, DOMAIN series, field)
  BY DEF SumOver, FoldSeq, FoldFunction, FoldFunctionOnSet, MapThenFoldSet, FieldSum, First

LEMMA RoleSumIs ==
    ASSUME NEW roles
    PROVE  /\ MapThenSumSet(LAMBDA f : roles[f]["found"], DOMAIN roles)
                 = FieldSum(roles, DOMAIN roles, "found")
           /\ MapThenSumSet(LAMBDA f : roles[f]["relevant"], DOMAIN roles)
                 = FieldSum(roles, DOMAIN roles, "relevant")
  BY DEF MapThenSumSet, MapThenFoldSet, FieldSum, First

\* The applications of Stats.
LEMMA StatusSumIs ==
    ASSUME NEW by, IsFiniteSet(DOMAIN by)
    PROVE  Report!MapThenSumSet(LAMBDA status : by[status], DOMAIN by) = Total(by, DOMAIN by)
  <1> DEFINE S == DOMAIN by
             Is(iter) == iter = [t \in SUBSET S |-> IF t = {} THEN 0
                                    ELSE by[First(t)] + iter[t \ {First(t)}]]
             g == CHOOSE iter : Is(iter)
  <1>1. Report!MapThenSumSet(LAMBDA status : by[status], S) = g[S]
    BY DEF Report!MapThenSumSet, Report!MapThenFoldSet, First
  <1>2. ASSUME NEW iter PROVE Is(iter) <=> SumsOf(by, S, iter)
    BY DEF SumsOf
  <1> HIDE DEF Is
  <1>3. Is(g)
    BY <1>2, SumStep
  <1> HIDE DEF g
  <1>4. QED
    BY <1>1, <1>2, <1>3, TotalIs

-------------------------------------------------------------------------------
(* The days of the window *)

LEMMA FloorIs ==
    ASSUME NEW n \in Int, NEW d \in Nat \ {0}
    PROVE  /\ n \div d \in Int /\ d * (n \div d) <= n /\ n < d * (n \div d) + d
           /\ d * (n \div d) \in Int
  <1>1. n \div d \in Int /\ n % d \in 0 .. (d - 1) /\ n = d * (n \div d) + (n % d)
    OBVIOUS
  <1>2. d * (n \div d) \in Int
    BY <1>1
  <1>3. QED
    BY <1>1, <1>2

LEMMA FloorAtLeast ==
    ASSUME NEW n \in Int, NEW d \in Nat \ {0}, NEW k \in Int
    PROVE  d * k <= n <=> k <= n \div d
  <1> DEFINE q == n \div d
  <1>1. q \in Int /\ d * q <= n /\ n < d * q + d /\ d * q \in Int /\ d * k \in Int
    BY FloorIs
  <1> HIDE DEF q
  <1>2. CASE k <= q
    <2>1. d * k <= d * q
      BY <1>1, <1>2
    <2>2. QED
      BY <1>1, <1>2, <2>1 DEF q
  <1>3. CASE q + 1 <= k
    <2>1. d * (q + 1) <= d * k /\ d * (q + 1) = d * q + d
      BY <1>1, <1>3
    <2>2. QED
      BY <1>1, <1>3, <2>1 DEF q
  <1>4. QED
    BY <1>1, <1>2, <1>3 DEF q

\* What was created since the window opened and by now was created on a day of it,
\* by the user's calendar.
LEMMA DaysCover ==
    ASSUME Hours \in Nat \ {0}, NEW made \in Int, NEW range \in Nat \ {0}, NEW ahead \in Int,
           NEW time \in Int, time <= made, time >= Report!Window(made, range, ahead).since
    PROVE  LET days == Report!Window(made, range, ahead).days
           IN  /\ DOMAIN days = 1 .. range
               /\ Report!LocalDay(time, ahead) - days[1] + 1 \in 1 .. range
               /\ \A n \in 1 .. range :
                      Report!LocalDay(time, ahead) = days[n]
                          <=> Report!LocalDay(time, ahead) - days[1] + 1 = n
  <1> DEFINE today == Report!LocalDay(made, ahead)
             day == Report!LocalDay(time, ahead)
             first == today - (range - 1)
  <1>1. today = (made + ahead) \div Hours /\ day = (time + ahead) \div Hours
    BY DEF Report!LocalDay
  <1>2. today \in Int /\ day \in Int /\ first \in Int
    BY <1>1, FloorIs
  <1>3. day <= today
    <2>1. Hours * day <= time + ahead /\ Hours * day \in Int
      BY <1>1, FloorIs
    <2>2. Hours * day <= made + ahead
      BY <2>1
    <2>3. Hours * day <= made + ahead <=> day <= (made + ahead) \div Hours
      BY <1>2, FloorAtLeast
    <2>4. QED
      BY <1>1, <2>2, <2>3
  <1>4. Report!Window(made, range, ahead)
            = [since |-> first * Hours - ahead, days |-> [n \in 1 .. range |-> first + n - 1],
               ahead |-> ahead]
    BY DEF Report!Window
  <1> HIDE DEF today, day, first
  <1>5. first <= day
    <2>1. first * Hours = Hours * first /\ Hours * first \in Int
      BY <1>2
    <2>2. Hours * first <= time + ahead
      BY <1>4, <2>1
    <2>3. Hours * first <= time + ahead <=> first <= (time + ahead) \div Hours
      BY <1>2, FloorAtLeast
    <2>4. QED
      BY <1>1, <2>2, <2>3
  <1>6. first = today - (range - 1)
    BY DEF first
  <1>7. DEFINE days == Report!Window(made, range, ahead).days
  <1>8. DOMAIN days = 1 .. range /\ \A n \in 1 .. range : days[n] = first + n - 1
    BY <1>4
  <1> HIDE DEF days
  <1>9. days[1] = first
    BY <1>2, <1>8
  <1>10. /\ DOMAIN days = 1 .. range
         /\ day - days[1] + 1 \in 1 .. range
         /\ \A n \in 1 .. range : day = days[n] <=> day - days[1] + 1 = n
    BY <1>2, <1>3, <1>5, <1>6, <1>8, <1>9
  <1>11. QED
    BY <1>10 DEF days, day

-------------------------------------------------------------------------------
(* The rows of the queries *)

CountFields == {"relevant", "saved", "applied", "interviews"}
SoundRow(row) == \A key \in CountFields : row[key] <= row.found

RelevantOf(jobs) == {j \in jobs : Report!IsRelevant(j)}

LEMMA EngagementIs ==
    ASSUME NEW jobs, IsFiniteSet(jobs)
    PROVE  LET row == Report!Engagement(jobs)
           IN  /\ row.found = Cardinality(jobs) /\ row.relevant = Cardinality(RelevantOf(jobs))
               /\ SoundRow(row)
               /\ \A key \in CountFields \union {"found"} : row[key] \in Nat
  <1> DEFINE row == Report!Engagement(jobs)
             tracked == {j \in jobs : Report!IsTracked(j)}
             dated == {j \in tracked : j.tracked.dated}
             met == {j \in tracked : j.tracked.interviews # {}}
  <1>1. row = [found |-> Cardinality(jobs), relevant |-> Cardinality(RelevantOf(jobs)),
               saved |-> Cardinality(tracked), applied |-> Cardinality(dated),
               interviews |-> Cardinality(met)]
    BY ReportCardinality DEF Report!Engagement, Report!Quantify, RelevantOf
  <1>2. RelevantOf(jobs) \subseteq jobs /\ tracked \subseteq jobs /\ dated \subseteq jobs
            /\ met \subseteq jobs
    BY DEF RelevantOf
  <1> HIDE DEF row, tracked, dated, met
  <1>3. /\ Cardinality(jobs) \in Nat /\ Cardinality(RelevantOf(jobs)) \in Nat
        /\ Cardinality(RelevantOf(jobs)) <= Cardinality(jobs)
    BY <1>2, Fewer
  <1>4. Cardinality(tracked) \in Nat /\ Cardinality(tracked) <= Cardinality(jobs)
    BY <1>2, Fewer
  <1>5. Cardinality(dated) \in Nat /\ Cardinality(dated) <= Cardinality(jobs)
    BY <1>2, Fewer
  <1>6. Cardinality(met) \in Nat /\ Cardinality(met) <= Cardinality(jobs)
    BY <1>2, Fewer
  <1>7. QED
    BY <1>1, <1>3, <1>4, <1>5, <1>6 DEF SoundRow, CountFields, row

\* The jobs of a report are finitely many, and were there when it was made.
GoodInput(r) ==
    /\ IsFiniteSet(r.jobs) /\ r.now \in Int /\ r.range \in Nat \ {0} /\ r.ahead \in Int
    /\ \A j \in r.jobs :
           /\ j.created \in Int /\ j.created <= r.now /\ j.company \in Int
           /\ Report!IsTracked(j) => j.tracked.status \in Report!Status

WindowOf(r) == Report!Window(r.now, r.range, r.ahead)
FoundOf(r) == Report!InWindow(r.jobs, WindowOf(r))

\* The place in the window of the day a job was found on.
DayOf(r, j) == Report!LocalDay(j.created, r.ahead) - WindowOf(r).days[1] + 1

LEMMA FoundIsFinite ==
    ASSUME NEW r, GoodInput(r)
    PROVE  FoundOf(r) \subseteq r.jobs /\ IsFiniteSet(FoundOf(r)) /\ IsFiniteSet(RelevantOf(FoundOf(r)))
  <1>1. FoundOf(r) \subseteq r.jobs /\ RelevantOf(FoundOf(r)) \subseteq r.jobs
    BY DEF FoundOf, RelevantOf, Report!InWindow
  <1>2. QED
    BY <1>1, FS_Subset DEF GoodInput

LEMMA DayOfFound ==
    ASSUME Hours \in Nat \ {0}, NEW r, GoodInput(r)
    PROVE  /\ DOMAIN WindowOf(r).days = 1 .. r.range
           /\ \A j \in FoundOf(r) :
                  /\ DayOf(r, j) \in 1 .. r.range
                  /\ \A n \in 1 .. r.range :
                         Report!LocalDay(j.created, WindowOf(r).ahead) = WindowOf(r).days[n]
                             <=> DayOf(r, j) = n
  <1>1. DOMAIN WindowOf(r).days = 1 .. r.range /\ WindowOf(r).ahead = r.ahead
    BY DEF WindowOf, Report!Window
  <1>2. ASSUME NEW j \in FoundOf(r)
        PROVE  /\ DayOf(r, j) \in 1 .. r.range
               /\ \A n \in 1 .. r.range :
                      Report!LocalDay(j.created, r.ahead) = WindowOf(r).days[n] <=> DayOf(r, j) = n
    <2>1. j \in r.jobs /\ j.created >= WindowOf(r).since
      BY DEF FoundOf, Report!InWindow
    <2>2. /\ r.now \in Int /\ r.range \in Nat \ {0} /\ r.ahead \in Int
          /\ j.created \in Int /\ j.created <= r.now
      BY <2>1 DEF GoodInput
    <2>3. j.created >= Report!Window(r.now, r.range, r.ahead).since
      BY <2>1 DEF WindowOf
    <2>4. LET days == Report!Window(r.now, r.range, r.ahead).days
          IN  /\ Report!LocalDay(j.created, r.ahead) - days[1] + 1 \in 1 .. r.range
              /\ \A n \in 1 .. r.range :
                     Report!LocalDay(j.created, r.ahead) = days[n]
                         <=> Report!LocalDay(j.created, r.ahead) - days[1] + 1 = n
      BY <2>2, <2>3, DaysCover, SMTT(40)
    <2>5. WindowOf(r) = Report!Window(r.now, r.range, r.ahead)
      BY DEF WindowOf
    <2>6. QED
      BY <2>4, <2>5, ZenonT(30) DEF DayOf
  <1>3. QED
    BY <1>1, <1>2

\* A point of the series counts the jobs that were found on its day.
LEMMA PointIs ==
    ASSUME Hours \in Nat \ {0}, NEW r, GoodInput(r), NEW n \in 1 .. r.range
    PROVE  LET point == Report!Series(r.jobs, WindowOf(r))[n]
           IN  /\ point.discovered = Cardinality({j \in FoundOf(r) : DayOf(r, j) = n})
               /\ point.matched = Cardinality({j \in RelevantOf(FoundOf(r)) : DayOf(r, j) = n})
  <1> DEFINE w == WindowOf(r)
             found == FoundOf(r)
             day == w.days[n]
             Day(j) == Report!LocalDay(j.created, w.ahead)
             here == {j \in found : Day(j) = day}
             made == Report!DailyJobs(r.jobs, w)
             had == Report!DailyEvents(r.jobs, w)
             row == IF day \in DOMAIN made THEN made[day] ELSE [discovered |-> 0, matched |-> 0]
             more == IF day \in DOMAIN had THEN had[day] ELSE [applied |-> 0, interviews |-> 0]
             point == Report!Series(r.jobs, w)[n]
  <1>1. n \in DOMAIN w.days
    BY DayOfFound, Zenon
  <1>2. point = Report!Joined(row, more)
    <2> HIDE DEF w, made, had
    <2>1. QED
      BY <1>1 DEF Report!Series, made, had
  <1>3. /\ here = {j \in found : DayOf(r, j) = n}
        /\ RelevantOf(here) = {j \in RelevantOf(found) : DayOf(r, j) = n}
    BY DayOfFound DEF RelevantOf
  <1>4. row = [discovered |-> Cardinality(here), matched |-> Cardinality(RelevantOf(here))]
    <2>1. made = [d \in {Day(j) : j \in found} |->
                     [discovered |-> Cardinality({j \in found : Day(j) = d}),
                      matched |-> Cardinality({j \in {k \in found : Day(k) = d} : Report!IsRelevant(j)})]]
      BY ReportCardinality DEF Report!DailyJobs, Report!Quantify, FoundOf
    <2> HIDE DEF w, found, day, made
    <2>2. CASE day \in DOMAIN made
      BY <2>1, <2>2 DEF RelevantOf
    <2>3. CASE day \notin DOMAIN made
      <3>1. here = {} /\ RelevantOf(here) = {}
        BY <2>1, <2>3 DEF RelevantOf
      <3>2. Cardinality({}) = 0
        BY FS_EmptySet
      <3>3. row = [discovered |-> 0, matched |-> 0]
        BY <2>3
      <3> HIDE DEF here, row
      <3>4. QED
        BY <3>1, <3>2, <3>3
    <2>4. QED
      BY <2>2, <2>3
  <1> HIDE DEF w, found, day, here, made, had, row, more, point
  <1>5. point.discovered = Cardinality(here) /\ point.matched = Cardinality(RelevantOf(here))
    BY <1>2, <1>4 DEF Report!Joined
  <1>6. QED
    BY <1>3, <1>5 DEF w, point, found

LEMMA SeriesAddsUp ==
    ASSUME Hours \in Nat \ {0}, NEW r, GoodInput(r)
    PROVE  LET series == Report!Series(r.jobs, WindowOf(r))
           IN  /\ SumOver(series, "discovered") = Cardinality(FoundOf(r))
               /\ SumOver(series, "matched") = Cardinality(RelevantOf(FoundOf(r)))
  <1> DEFINE series == Report!Series(r.jobs, WindowOf(r))
             N == 1 .. r.range
             found == FoundOf(r)
             some == RelevantOf(found)
             day == [j \in found |-> DayOf(r, j)]
             made == [n \in N |-> Cardinality({j \in found : day[j] = n})]
             fit == [n \in N |-> Cardinality({j \in some : day[j] = n})]
  <1>1. DOMAIN series = N /\ IsFiniteSet(N)
    <2>1. DOMAIN series = N
      BY DayOfFound DEF Report!Series
    <2>2. IsFiniteSet(N)
      <3>1. 1 \in Int /\ r.range \in Int
        BY DEF GoodInput
      <3>2. QED
        BY <3>1, FS_Interval
    <2>3. QED
      BY <2>1, <2>2
  <1>2. some \subseteq found /\ IsFiniteSet(found) /\ IsFiniteSet(some)
    BY FoundIsFinite DEF RelevantOf
  <1>3. \A j \in found : day[j] \in N
    BY DayOfFound
  <1>4. ASSUME NEW n \in N
        PROVE  series[n]["discovered"] = made[n] /\ series[n]["matched"] = fit[n]
    <2>1. /\ {j \in found : day[j] = n} = {j \in found : DayOf(r, j) = n}
          /\ {j \in some : day[j] = n} = {j \in some : DayOf(r, j) = n}
      BY <1>2
    <2>2. /\ series[n].discovered = Cardinality({j \in found : DayOf(r, j) = n})
          /\ series[n].matched = Cardinality({j \in some : DayOf(r, j) = n})
      BY PointIs
    <2> HIDE DEF series, found, some, day
    <2>3. QED
      BY <2>1, <2>2
  <1> HIDE DEF series, N, found, some, day
  <1>5. Cardinality(found) = Total(made, N)
    BY <1>1, <1>2, <1>3, Fibres
  <1>6. Cardinality(some) = Total(fit, N)
    BY <1>1, <1>2, <1>3, Fibres
  <1> HIDE DEF made, fit
  <1>7. /\ [n \in DOMAIN series |-> series[n]["discovered"]] = [n \in N |-> made[n]]
        /\ [n \in DOMAIN series |-> series[n]["matched"]] = [n \in N |-> fit[n]]
    BY <1>1, <1>4
  <1>8. Total([n \in N |-> made[n]], N) = Total(made, N) /\ Total([n \in N |-> fit[n]], N) = Total(fit, N)
    BY <1>1, TotalSame
  <1>9. /\ SumOver(series, "discovered") = Total([n \in DOMAIN series |-> series[n]["discovered"]], N)
        /\ SumOver(series, "matched") = Total([n \in DOMAIN series |-> series[n]["matched"]], N)
    BY <1>1, SumOverIs, FieldSumIs
  <1>10. QED
    BY <1>5, <1>6, <1>7, <1>8, <1>9 DEF series, found, some

-------------------------------------------------------------------------------
(* The role families *)

TitlesOf(r, f) == {t \in {j.title : j \in FoundOf(r)} : Report!Classify(t) = f}
FamiliesOf(r) == {Report!Classify(t) : t \in {j.title : j \in FoundOf(r)}}

LEMMA FamiliesAre ==
    ASSUME NEW r
    PROVE  DOMAIN Report!ByRole(r.jobs, WindowOf(r)) = FamiliesOf(r)
  <1>1. DOMAIN Report!TitleRows(r.jobs, WindowOf(r)) = {j.title : j \in FoundOf(r)}
    BY DEF Report!TitleRows, FoundOf
  <1>2. DOMAIN Report!ByRole(r.jobs, WindowOf(r))
            = {Report!Classify(t) : t \in DOMAIN Report!TitleRows(r.jobs, WindowOf(r))}
    BY DEF Report!ByRole
  <1>3. QED
    BY <1>1, <1>2 DEF FamiliesOf

LEMMA FamilyIs ==
    ASSUME NEW r, NEW f \in FamiliesOf(r), NEW key \in {"found", "relevant"}
    PROVE  Report!ByRole(r.jobs, WindowOf(r))[f][key]
               = FieldSum(Report!TitleRows(r.jobs, WindowOf(r)), TitlesOf(r, f), key)
  <1> DEFINE w == WindowOf(r)
             rows == Report!TitleRows(r.jobs, w)
             Keys == {"found", "relevant", "saved", "applied", "interviews"}
             T(g) == {t \in DOMAIN rows : Report!Classify(t) = g}
             Rates(g) == [relevanceRate |-> Report!Rate(FieldSum(rows, T(g), "relevant"),
                                                        FieldSum(rows, T(g), "found")),
                          applyRate |-> Report!Rate(FieldSum(rows, T(g), "applied"),
                                                    FieldSum(rows, T(g), "relevant"))]
  <1>1. Report!ByRole(r.jobs, w)
            = [g \in {Report!Classify(t) : t \in DOMAIN rows} |->
                  Report!Joined([k \in Keys |-> FieldSum(rows, T(g), k)], Rates(g))]
    <2> HIDE DEF w
    <2>1. QED
      BY DEF Report!ByRole, FieldSum, First, Report!MapThenSumSet, Report!MapThenFoldSet
  <1>2. DOMAIN rows = {j.title : j \in FoundOf(r)}
    BY DEF Report!TitleRows, FoundOf
  <1> HIDE DEF w, rows, Rates
  <1>3. T(f) = TitlesOf(r, f) /\ {Report!Classify(t) : t \in DOMAIN rows} = FamiliesOf(r)
    BY <1>2 DEF TitlesOf, FamiliesOf
  <1> HIDE DEF T
  <1>4. Report!ByRole(r.jobs, w)[f] = Report!Joined([k \in Keys |-> FieldSum(rows, T(f), k)], Rates(f))
    BY <1>1, <1>3
  <1>5. Report!ByRole(r.jobs, w)[f][key] = FieldSum(rows, T(f), key)
    BY <1>4 DEF Report!Joined
  <1>6. QED
    BY <1>1, <1>3, <1>5 DEF w, rows

LEMMA RolesAddUp ==
    ASSUME NEW r, GoodInput(r)
    PROVE  LET roles == Report!ByRole(r.jobs, WindowOf(r))
           IN  /\ FieldSum(roles, DOMAIN roles, "found") = Cardinality(FoundOf(r))
               /\ FieldSum(roles, DOMAIN roles, "relevant") = Cardinality(RelevantOf(FoundOf(r)))
  <1> DEFINE roles == Report!ByRole(r.jobs, WindowOf(r))
             rows == Report!TitleRows(r.jobs, WindowOf(r))
             found == FoundOf(r)
             some == RelevantOf(found)
             T == {j.title : j \in found}
             F == FamiliesOf(r)
             title == [j \in found |-> j.title]
             family == [t \in T |-> Report!Classify(t)]
  <1>1. IsFiniteSet(found) /\ IsFiniteSet(some) /\ some \subseteq found
    BY FoundIsFinite DEF RelevantOf
  <1>2. IsFiniteSet(T) /\ IsFiniteSet(F)
    <2>1. title \in Surjection(found, T)
      BY DEF Surjection
    <2>2. F = {Report!Classify(t) : t \in T}
      BY DEF FamiliesOf
    <2>3. family \in Surjection(T, F)
      BY <2>2, Zenon DEF Surjection
    <2> HIDE DEF found, T, F, title, family
    <2>4. IsFiniteSet(T)
      BY <1>1, <2>1, FS_Surjection
    <2>5. QED
      BY <2>3, <2>4, FS_Surjection
  <1>3. /\ \A j \in found : title[j] \in T
        /\ \A t \in T : family[t] \in F
    BY DEF FamiliesOf
  <1>4. ASSUME NEW t \in T
        PROVE  /\ rows[t]["found"] = Cardinality({j \in found : title[j] = t})
               /\ rows[t]["relevant"] = Cardinality({j \in some : title[j] = t})
    <2> DEFINE here == {j \in found : j.title = t}
    <2>1. rows[t] = Report!Engagement(here)
      BY DEF Report!TitleRows, FoundOf
    <2>2. here = {j \in found : title[j] = t} /\ RelevantOf(here) = {j \in some : title[j] = t}
      BY <1>1 DEF RelevantOf
    <2>3. IsFiniteSet(here)
      BY <1>1, FS_Subset
    <2> HIDE DEF here, rows, found, some, title
    <2>4. QED
      BY <2>1, <2>2, <2>3, EngagementIs, Zenon
  <1>5. ASSUME NEW f \in F
        PROVE  /\ TitlesOf(r, f) = {t \in T : family[t] = f} /\ IsFiniteSet(TitlesOf(r, f))
    <2>1. TitlesOf(r, f) = {t \in T : family[t] = f}
      BY DEF TitlesOf
    <2>2. QED
      BY <1>2, <2>1, FS_Subset, Zenon
  <1>6. DOMAIN roles = F
    BY FamiliesAre
  <1>7. ASSUME NEW f \in F, NEW key \in {"found", "relevant"}
        PROVE  roles[f][key] = FieldSum(rows, TitlesOf(r, f), key)
    BY FamilyIs, Zenon
  <1> HIDE DEF roles, rows, found, some, T, F, title, family
  <1>8. ASSUME NEW key \in {"found", "relevant"}, NEW S, IsFiniteSet(S), S \subseteq found,
               \A t \in T : rows[t][key] = Cardinality({j \in S : title[j] = t})
        PROVE  FieldSum(roles, F, key) = Cardinality(S)
    <2> DEFINE sum == [f \in F |-> roles[f][key]]
    <2>1. ASSUME NEW f \in F
          PROVE  sum[f] = Total(CountsOf(S, title, Having(T, family, f)), Having(T, family, f))
      <3> DEFINE U == {u \in T : family[u] = f}
      <3>1. roles[f][key] = FieldSum(rows, U, key)
        <4>1. TitlesOf(r, f) = U
          BY <1>5, Zenon
        <4> HIDE DEF U
        <4>2. QED
          BY <4>1, <1>7, Zenon
      <3>2. FieldSum(rows, U, key) = Total([t \in U |-> rows[t][key]], U)
        <4>1. IsFiniteSet(U)
          BY <1>5
        <4> HIDE DEF U
        <4>2. QED
          BY <4>1, FieldSumIs
      <3>3. [t \in U |-> rows[t][key]] = [t \in U |-> Cardinality({j \in S : title[j] = t})]
        BY <1>8
      <3>4. QED
        BY <3>1, <3>2, <3>3, Zenon DEF CountsOf, Having
    <2>2. FieldSum(roles, F, key) = Total(sum, F)
      BY <1>2, FieldSumIs
    <2> HIDE DEF sum
    <2>3. IsFiniteSet(S) /\ \A j \in S : title[j] \in T
      BY <1>3, <1>8
    <2>4. Cardinality(S) = Total(sum, F)
      <3>1. \A f \in F : sum[f] = Total(CountsOf(S, title, Having(T, family, f)),
                                        Having(T, family, f))
        BY <2>1
      <3>2. QED
        BY <1>2, <1>3, <2>3, <3>1, FibresTwice
    <2>5. QED
      BY <2>2, <2>4
  <1>9. QED
    BY <1>1, <1>4, <1>6, <1>8, Zenon DEF roles, found, some

-------------------------------------------------------------------------------
(* The sources, and what has become of the jobs *)

LEMMA DiscoveryIs ==
    ASSUME NEW r
    PROVE  LET row == Report!Discovery(r.jobs, WindowOf(r))
           IN  /\ row.discovered = Cardinality(FoundOf(r))
               /\ row.matched = Cardinality(RelevantOf(FoundOf(r)))
  <1> DEFINE row == Report!DiscoveryRow(r.jobs, WindowOf(r))
             rates == [analysedRate |-> Report!Rate(row.analysed, row.discovered),
                       matchedRate |-> Report!Rate(row.matched, row.discovered)]
  <1>1. Report!Discovery(r.jobs, WindowOf(r)) = Report!Joined(row, rates)
    BY DEF Report!Discovery
  <1>2. /\ {"discovered", "matched"} \subseteq DOMAIN row
        /\ row.discovered = Cardinality(FoundOf(r))
        /\ row.matched = Cardinality(RelevantOf(FoundOf(r)))
    BY ReportCardinality DEF Report!DiscoveryRow, Report!Quantify, FoundOf, RelevantOf
  <1> HIDE DEF row, rates
  <1>3. QED
    BY <1>1, <1>2 DEF Report!Joined

LEMMA SourcesAreSound ==
    ASSUME NEW r, GoodInput(r), NEW s \in Sources
    PROVE  LET row == Report!BySource(r.jobs, WindowOf(r))[s]
           IN  SoundRow(row) /\ row.found <= Cardinality(FoundOf(r))
  <1> DEFINE here == {j \in FoundOf(r) : s \in j.sources}
             row == Report!SourceRows(r.jobs, WindowOf(r))[s]
             rates == [relevanceRate |-> Report!Rate(row.relevant, row.found),
                       applyRate |-> Report!Rate(row.applied, row.relevant),
                       interviewRate |-> Report!Rate(row.interviews, row.applied)]
             joined == Report!BySource(r.jobs, WindowOf(r))[s]
  <1>1. row = Report!Engagement(here)
    BY DEF Report!SourceRows, FoundOf
  <1>2. joined = Report!Joined(row, rates)
    BY DEF Report!BySource
  <1>3. /\ IsFiniteSet(here) /\ Cardinality(here) <= Cardinality(FoundOf(r))
    BY FoundIsFinite, Fewer
  <1> HIDE DEF here, rates, joined
  <1>4. DOMAIN row = CountFields \union {"found"}
    BY <1>1 DEF Report!Engagement, CountFields
  <1>5. SoundRow(row) /\ row.found = Cardinality(here)
    BY <1>1, <1>3, EngagementIs
  <1> HIDE DEF row
  <1>6. \A key \in CountFields \union {"found"} : joined[key] = row[key]
    BY <1>2, <1>4 DEF Report!Joined
  <1>7. joined.found = row.found /\ \A key \in CountFields : joined[key] = row[key]
    BY <1>6
  <1>8. QED
    BY <1>3, <1>5, <1>7 DEF SoundRow, joined

\* What was tracked in the window is some of what was ever tracked, which has each
\* one status.
LEMMA FunnelIsPart ==
    ASSUME NEW r, GoodInput(r)
    PROVE  LET funnel == Report!Funnel(r.jobs, WindowOf(r))
               stats == Report!Stats(r.jobs)
           IN  funnel.rejected <= stats.byStatus["REJECTED"] /\ funnel.saved <= stats.total
  <1> DEFINE w == WindowOf(r)
             tracked == {j \in r.jobs : Report!IsTracked(j)}
             saved == {j \in r.jobs : Report!IsTracked(j) /\ j.tracked.created >= w.since}
             turnedDown == {j \in saved : j.tracked.status = "REJECTED"}
             by == Report!CountByStatus(r.jobs)
             row == Report!FunnelRow(r.jobs, w)
             rates == [applyRate |-> Report!Rate(row.applied, row.saved),
                       interviewRate |-> Report!Rate(row.interviews, row.applied),
                       offerRate |-> Report!Rate(row.offers, row.applied)]
             status == [j \in tracked |-> j.tracked.status]
  <1>1. /\ {"saved", "rejected"} \subseteq DOMAIN row
        /\ row.saved = Cardinality(saved) /\ row.rejected = Cardinality(turnedDown)
    BY ReportCardinality DEF Report!FunnelRow, Report!Quantify
  <1>2. Report!Funnel(r.jobs, w) = Report!Joined(row, rates)
    BY DEF Report!Funnel
  <1>3. /\ DOMAIN by = Report!Status
        /\ \A s \in Report!Status :
               by[s] = Cardinality({j \in tracked : status[j] = s})
    <2>1. by = [s \in Report!Status |-> Cardinality({j \in r.jobs : Report!IsTracked(j)
                                                                    /\ j.tracked.status = s})]
      BY ReportCardinality DEF Report!CountByStatus, Report!Quantify
    <2> HIDE DEF by
    <2>2. ASSUME NEW s \in Report!Status
          PROVE  {j \in r.jobs : Report!IsTracked(j) /\ j.tracked.status = s}
                     = {j \in tracked : status[j] = s}
      OBVIOUS
    <2>3. QED
      BY <2>1, <2>2, Zenon
  <1>4. IsFiniteSet(Report!Status)
    <2>1. Report!Status = {"SAVED", "INTERESTED", "APPLIED", "ASSESSMENT"}
                              \union {"INTERVIEW", "OFFER", "REJECTED", "WITHDRAWN"}
      BY DEF Report!Status
    <2>2. /\ IsFiniteSet({"SAVED", "INTERESTED", "APPLIED", "ASSESSMENT"})
          /\ IsFiniteSet({"INTERVIEW", "OFFER", "REJECTED", "WITHDRAWN"})
      <3>1. IsFiniteSet({})
        BY FS_EmptySet
      <3>2. ASSUME NEW a, NEW b, NEW c, NEW d PROVE IsFiniteSet({a, b, c, d})
        <4>1. IsFiniteSet({} \union {a})
          BY <3>1, FS_AddElement
        <4>2. IsFiniteSet(({} \union {a}) \union {b})
          BY <4>1, FS_AddElement
        <4>3. IsFiniteSet((({} \union {a}) \union {b}) \union {c})
          BY <4>2, FS_AddElement
        <4>4. IsFiniteSet(((({} \union {a}) \union {b}) \union {c}) \union {d})
          BY <4>3, FS_AddElement
        <4>5. ((({} \union {a}) \union {b}) \union {c}) \union {d} = {a, b, c, d}
          OBVIOUS
        <4>6. QED
          BY <4>4, <4>5
      <3>3. QED
        BY <3>2, Zenon
    <2>3. QED
      BY <2>1, <2>2, FS_Union, Zenon
  <1>5. Report!Stats(r.jobs).byStatus = by /\ Report!Stats(r.jobs).total = Total(by, Report!Status)
    <2> DEFINE total == Report!MapThenSumSet(LAMBDA s : by[s], DOMAIN by)
    <2>1. total = Total(by, DOMAIN by)
      <3> HIDE DEF by
      <3>1. QED
        BY <1>3, <1>4, StatusSumIs, Zenon
    <2>2. Report!Stats(r.jobs).byStatus = by /\ Report!Stats(r.jobs).total = total
      BY DEF Report!Stats
    <2>3. QED
      BY <1>3, <2>1, <2>2
  <1>6. /\ IsFiniteSet(tracked) /\ \A j \in tracked : status[j] \in Report!Status
    <2>1. IsFiniteSet(tracked)
      BY FS_Subset DEF GoodInput
    <2>2. QED
      BY <2>1 DEF GoodInput
  <1>7. saved \subseteq tracked /\ turnedDown \subseteq {j \in tracked : status[j] = "REJECTED"}
    OBVIOUS
  <1> HIDE DEF w, tracked, saved, turnedDown, by, row, rates, status
  <1>8. Cardinality(tracked) = Total(by, Report!Status)
    <2> DEFINE sizes == [s \in Report!Status |-> Cardinality({j \in tracked : status[j] = s})]
    <2>1. \A s \in Report!Status : by[s] = sizes[s]
      BY <1>3
    <2>2. Cardinality(tracked) = Total(sizes, Report!Status)
      BY <1>4, <1>6, Fibres
    <2> HIDE DEF sizes
    <2>3. QED
      BY <1>4, <2>1, <2>2, TotalSame
  <1>9. Cardinality(saved) <= Cardinality(tracked)
    BY <1>6, <1>7, Fewer
  <1>10. Cardinality(turnedDown) <= by["REJECTED"]
    <2>1. IsFiniteSet({j \in tracked : status[j] = "REJECTED"}) /\ "REJECTED" \in Report!Status
      BY <1>6, FS_Subset DEF Report!Status
    <2>2. QED
      BY <1>3, <1>7, <2>1, Fewer
  <1>11. Report!Funnel(r.jobs, w).saved = row.saved /\ Report!Funnel(r.jobs, w).rejected = row.rejected
    BY <1>1, <1>2 DEF Report!Joined
  <1>12. QED
    BY <1>1, <1>5, <1>8, <1>9, <1>10, <1>11 DEF w

-------------------------------------------------------------------------------
(* The first of an order *)

\* A strict order R, as a set of pairs.
StrictOrder(R, S) ==
    /\ \A a \in S : <<a, a>> \notin R
    /\ \A a, b, c \in S : <<a, b>> \in R /\ <<b, c>> \in R => <<a, c>> \in R

LEMMA FirstExists ==
    ASSUME NEW S, IsFiniteSet(S), S # {}, NEW R, StrictOrder(R, S)
    PROVE  \E a \in S : \A b \in S : <<b, a>> \notin R
  <1> DEFINE Good == {s \in SUBSET S : s = {} \/ \E a \in s : \A b \in s : <<b, a>> \notin R}
  <1>1. {} \in Good
    OBVIOUS
  <1>2. ASSUME NEW s \in SUBSET S, s # {}, s \ {First(s)} \in Good PROVE s \in Good
    <2> DEFINE x == First(s)
               t == s \ {x}
    <2>1. x \in s /\ x \in S
      BY <1>2 DEF First
    <2> HIDE DEF x
    <2>2. t = {} \/ \E a \in t : \A b \in t : <<b, a>> \notin R
      BY <1>2 DEF x
    <2>3. CASE t = {}
      <3>1. \A b \in s : <<b, x>> \notin R
        BY <2>1, <2>3 DEF StrictOrder
      <3>2. QED
        BY <2>1, <3>1
    <2>4. CASE \E a \in t : \A b \in t : <<b, a>> \notin R
      <3>1. PICK a \in t : \A b \in t : <<b, a>> \notin R
        BY <2>4
      <3>2. CASE <<x, a>> \notin R
        <4>1. \A b \in s : <<b, a>> \notin R
          BY <3>1, <3>2
        <4>2. QED
          BY <4>1
      <3>3. CASE <<x, a>> \in R
        <4>1. ASSUME NEW b \in s PROVE <<b, x>> \notin R
          <5>1. CASE b = x
            BY <2>1, <5>1 DEF StrictOrder
          <5>2. CASE b \in t
            BY <2>1, <3>1, <3>3, <5>2, Zenon DEF StrictOrder
          <5>3. QED
            BY <5>1, <5>2
        <4>2. QED
          BY <2>1, <4>1
      <3>4. QED
        BY <3>2, <3>3
    <2>5. QED
      BY <2>2, <2>3, <2>4
  <1> HIDE DEF Good
  <1>3. S \in Good
    BY <1>1, <1>2, SubsetInduction
  <1>4. QED
    BY <1>3 DEF Good

\* Of a finite set, so many that none of the others comes before one of them.
LEMMA TopExists ==
    ASSUME NEW S, IsFiniteSet(S), NEW R, StrictOrder(R, S), NEW k \in 0 .. Cardinality(S)
    PROVE  \E T \in SUBSET S : Cardinality(T) = k /\ \A a \in T, b \in S \ T : <<b, a>> \notin R
  <1> DEFINE Top(T, m) == Cardinality(T) = m /\ \A a \in T, b \in S \ T : <<b, a>> \notin R
             N == {m \in Nat : m <= Cardinality(S) => \E T \in SUBSET S : Top(T, m)}
  <1>1. 0 \in N
    <2>1. Top({}, 0)
      BY FS_EmptySet
    <2> HIDE DEF Top
    <2>2. QED
      BY <2>1
  <1>2. ASSUME NEW m \in Nat, m \in N PROVE m + 1 \in N
    <2> SUFFICES ASSUME m + 1 <= Cardinality(S) PROVE \E T \in SUBSET S : Top(T, m + 1)
      OBVIOUS
    <2>0. Cardinality(S) \in Nat
      BY FS_CardinalityType
    <2>1. PICK T \in SUBSET S : Top(T, m)
      BY <1>2, <2>0
    <2> DEFINE U == S \ T
    <2>2. IsFiniteSet(T) /\ IsFiniteSet(U) /\ U # {}
      <3>1. IsFiniteSet(T) /\ IsFiniteSet(U)
        BY FS_Subset
      <3>2. ASSUME U = {} PROVE FALSE
        <4>1. T = S
          BY <3>2
        <4>2. QED
          BY <2>0, <2>1, <4>1
      <3>3. QED
        BY <3>1, <3>2
    <2>3. StrictOrder(R, U)
      BY DEF StrictOrder
    <2> HIDE DEF U
    <2>4. PICK x \in U : \A b \in U : <<b, x>> \notin R
      BY <2>2, <2>3, FirstExists
    <2>5. Cardinality(T \union {x}) = m + 1
      BY <2>1, <2>2, <2>4, FS_AddElement, Zenon DEF U
    <2>6. \A a \in T \union {x}, b \in S \ (T \union {x}) : <<b, a>> \notin R
      BY <2>1, <2>4, Zenon DEF U
    <2>7. QED
      BY <2>4, <2>5, <2>6 DEF U
  <1> HIDE DEF N
  <1>3. Nat \subseteq N
    BY <1>1, <1>2, SetInduction
  <1>4. k \in N /\ k <= Cardinality(S)
    BY <1>3, FS_CardinalityType
  <1>5. QED
    BY <1>4 DEF N

\* By the first of five numbers in which they differ, the greater first.
Ahead(rank, a, b) ==
    \E n \in 1 .. 5 : /\ rank[a][n] > rank[b][n]
                      /\ \A m \in 1 .. n - 1 : rank[a][m] = rank[b][m]

LEMMA AheadIsStrict ==
    ASSUME NEW S, NEW rank, \A a \in S : \A n \in 1 .. 5 : rank[a][n] \in Int,
           NEW R, \A a, b \in S : <<a, b>> \in R <=> Ahead(rank, a, b)
    PROVE  StrictOrder(R, S)
  <1>1. ASSUME NEW a \in S PROVE <<a, a>> \notin R
    BY DEF Ahead
  <1>2. ASSUME NEW a \in S, NEW b \in S, NEW c \in S, <<a, b>> \in R, <<b, c>> \in R
        PROVE  <<a, c>> \in R
    <2>1. PICK n \in 1 .. 5 : /\ rank[a][n] > rank[b][n]
                              /\ \A m \in 1 .. n - 1 : rank[a][m] = rank[b][m]
      BY <1>2 DEF Ahead
    <2>2. PICK l \in 1 .. 5 : /\ rank[b][l] > rank[c][l]
                              /\ \A m \in 1 .. l - 1 : rank[b][m] = rank[c][m]
      BY <1>2 DEF Ahead
    <2>3. CASE n <= l
      <3>1. rank[a][n] > rank[c][n]
        BY <2>1, <2>2, <2>3
      <3>2. \A m \in 1 .. n - 1 : rank[a][m] = rank[c][m]
        BY <2>1, <2>2, <2>3
      <3>3. QED
        BY <3>1, <3>2 DEF Ahead
    <2>4. CASE l < n
      <3>1. rank[a][l] > rank[c][l]
        BY <2>1, <2>2, <2>4
      <3>2. \A m \in 1 .. l - 1 : rank[a][m] = rank[c][m]
        BY <2>1, <2>2, <2>4
      <3>3. QED
        BY <3>1, <3>2 DEF Ahead
    <2>5. QED
      BY <2>3, <2>4
  <1>3. QED
    BY <1>1, <1>2 DEF StrictOrder

LEMMA LeastIs ==
    ASSUME NEW S, IsFiniteSet(S), S # {}, S \subseteq Int
    PROVE  Report!Min(S) \in S
  <1> DEFINE R == {p \in S \X S : p[1] < p[2]}
  <1>1. StrictOrder(R, S)
    BY DEF StrictOrder
  <1>2. PICK a \in S : \A b \in S : <<b, a>> \notin R
    BY <1>1, FirstExists, Zenon
  <1>3. ASSUME NEW b \in S PROVE a <= b
    <2>1. ~(b < a)
      <3>1. <<b, a>> \in S \X S
        OBVIOUS
      <3>2. QED
        BY <1>2, <3>1
    <2>2. QED
      BY <2>1
  <1>4. QED
    BY <1>3, Zenon DEF Report!Min

-------------------------------------------------------------------------------
(* The companies *)

KeysOf(r) ==
    {Report!CompanyKey(j) : j \in {k \in FoundOf(r) : Report!IsRelevant(k) \/ Report!IsTracked(k)}}
AtCompany(r, key) == {j \in FoundOf(r) : Report!CompanyKey(j) = key}
RankOf(r, key) ==
    LET e == Report!Engagement(AtCompany(r, key))
    IN  <<e.applied, e.interviews, e.relevant, e.found,
          -Report!Min({j.company : j \in AtCompany(r, key)})>>
IsBefore(r, a, b) ==
    \E n \in 1 .. 5 : /\ RankOf(r, a)[n] > RankOf(r, b)[n]
                      /\ \A m \in 1 .. n - 1 : RankOf(r, a)[m] = RankOf(r, b)[m]
IsTop(r, T) ==
    /\ Report!Cardinality(T) = Report!Min({CompanyLimit, Report!Cardinality(KeysOf(r))})
    /\ \A a \in T, b \in KeysOf(r) \ T : ~IsBefore(r, b, a)

LEMMA CompaniesAre ==
    ASSUME NEW r
    PROVE  Report!ByCompany(r.jobs, WindowOf(r))
               = [key \in (CHOOSE T \in SUBSET KeysOf(r) : IsTop(r, T)) |->
                     Report!Engagement(AtCompany(r, key))]
  BY DEF Report!ByCompany, IsTop, IsBefore, RankOf, KeysOf, AtCompany, FoundOf

LEMMA RanksAre ==
    ASSUME NEW r, GoodInput(r), NEW key \in KeysOf(r)
    PROVE  \A n \in 1 .. 5 : RankOf(r, key)[n] \in Int
  <1> DEFINE here == AtCompany(r, key)
             names == {j.company : j \in here}
             e == Report!Engagement(here)
  <1>1. here \subseteq FoundOf(r) /\ here # {}
    BY DEF AtCompany, KeysOf
  <1>2. IsFiniteSet(here) /\ FoundOf(r) \subseteq r.jobs
    BY <1>1, FoundIsFinite, FS_Subset
  <1>3. IsFiniteSet(names) /\ names # {} /\ names \subseteq Int
    <2>1. [j \in here |-> j.company] \in Surjection(here, names)
      BY DEF Surjection
    <2>2. names # {}
      BY <1>1, Zenon
    <2>3. names \subseteq Int
      BY <1>1, <1>2 DEF GoodInput
    <2> HIDE DEF here, names
    <2>4. QED
      BY <1>2, <2>1, <2>2, <2>3, FS_Surjection
  <1> HIDE DEF here, names
  <1>4. Report!Min(names) \in Int
    BY <1>3, LeastIs, Zenon
  <1>5. /\ e.applied \in Nat /\ e.interviews \in Nat /\ e.relevant \in Nat /\ e.found \in Nat
    BY <1>2, EngagementIs DEF CountFields
  <1> HIDE DEF e
  <1>6. RankOf(r, key) = <<e.applied, e.interviews, e.relevant, e.found, -Report!Min(names)>>
    BY DEF RankOf, e, names, here
  <1>7. QED
    BY <1>4, <1>5, <1>6

\* There are so many companies to choose, and no more than there may be.
LEMMA CompaniesAreFew ==
    ASSUME CompanyLimit \in Nat, NEW r, GoodInput(r)
    PROVE  Cardinality(DOMAIN Report!ByCompany(r.jobs, WindowOf(r))) <= CompanyLimit
  <1> DEFINE keys == KeysOf(r)
             rank == [key \in keys |-> RankOf(r, key)]
             R == {p \in keys \X keys : IsBefore(r, p[1], p[2])}
             k == Report!Min({CompanyLimit, Cardinality(keys)})
             top == CHOOSE T \in SUBSET keys : IsTop(r, T)
  <1>1. IsFiniteSet(keys) /\ Cardinality(keys) \in Nat
    <2> DEFINE some == {j \in FoundOf(r) : Report!IsRelevant(j) \/ Report!IsTracked(j)}
    <2>1. IsFiniteSet(some)
      BY FoundIsFinite, FS_Subset
    <2>2. keys = {Report!CompanyKey(j) : j \in some}
      BY DEF KeysOf
    <2> HIDE DEF some, keys
    <2>3. [j \in some |-> Report!CompanyKey(j)] \in Surjection(some, keys)
      BY <2>2 DEF Surjection
    <2>4. QED
      BY <2>1, <2>3, FS_Surjection, FS_CardinalityType
  <1>2. \A a, b \in keys : <<a, b>> \in R <=> Ahead(rank, a, b)
    <2> SUFFICES ASSUME NEW a \in keys, NEW b \in keys
                 PROVE  <<a, b>> \in R <=> Ahead(rank, a, b)
      BY Zenon
    <2>1. <<a, b>> \in R <=> IsBefore(r, a, b)
      OBVIOUS
    <2>2. rank[a] = RankOf(r, a) /\ rank[b] = RankOf(r, b)
      OBVIOUS
    <2> HIDE DEF R, rank
    <2>3. IsBefore(r, a, b) <=> Ahead(rank, a, b)
      BY <2>2 DEF IsBefore, Ahead
    <2>4. QED
      BY <2>1, <2>3
  <1>3. \A a \in keys : \A n \in 1 .. 5 : rank[a][n] \in Int
    BY RanksAre
  <1>4. \A a, b \in keys : <<a, b>> \in R <=> IsBefore(r, a, b)
    OBVIOUS
  <1>5. k \in 0 .. Cardinality(keys) /\ k <= CompanyLimit
    <2>1. CASE CompanyLimit <= Cardinality(keys)
      <3>1. k = CompanyLimit
        BY <1>1, <2>1 DEF Report!Min
      <3>2. QED
        BY <1>1, <2>1, <3>1
    <2>2. CASE ~(CompanyLimit <= Cardinality(keys))
      <3>1. k = Cardinality(keys)
        BY <1>1, <2>2 DEF Report!Min
      <3>2. QED
        BY <1>1, <2>2, <3>1
    <2>3. QED
      BY <2>1, <2>2
  <1> HIDE DEF keys, rank, R, k
  <1>6. StrictOrder(R, keys)
    BY <1>2, <1>3, AheadIsStrict
  <1>7. PICK T \in SUBSET keys : Cardinality(T) = k /\ \A a \in T, b \in keys \ T : <<b, a>> \notin R
    BY <1>1, <1>5, <1>6, TopExists
  <1>8. \A U \in SUBSET keys : IsTop(r, U) <=>
            Cardinality(U) = k /\ \A a \in U, b \in keys \ U : ~IsBefore(r, b, a)
    BY ReportCardinality DEF IsTop, keys, k
  <1>9. IsTop(r, T)
    BY <1>4, <1>7, <1>8, Zenon
  <1>10. top \in SUBSET keys /\ IsTop(r, top)
    BY <1>9
  <1> HIDE DEF top
  <1>11. Cardinality(top) = k
    BY <1>8, <1>10
  <1>12. DOMAIN Report!ByCompany(r.jobs, WindowOf(r)) = top
    BY CompaniesAre, Zenon DEF top, keys
  <1>13. QED
    BY <1>5, <1>11, <1>12

LEMMA CompaniesAreSound ==
    ASSUME NEW r, GoodInput(r), NEW key \in DOMAIN Report!ByCompany(r.jobs, WindowOf(r))
    PROVE  SoundRow(Report!ByCompany(r.jobs, WindowOf(r))[key])
  <1>1. Report!ByCompany(r.jobs, WindowOf(r))[key] = Report!Engagement(AtCompany(r, key))
    BY CompaniesAre, Zenon
  <1>2. IsFiniteSet(AtCompany(r, key))
    BY FoundIsFinite, FS_Subset DEF AtCompany
  <1>3. QED
    BY <1>1, <1>2, EngagementIs

-------------------------------------------------------------------------------
(* The report within Services *)

ReportAnswer(r) ==
    LET window == WindowOf(r)
    IN  [discovery |-> Report!Discovery(r.jobs, window),
         funnel |-> Report!Funnel(r.jobs, window),
         sources |-> Report!BySource(r.jobs, window),
         roles |-> Report!ByRole(r.jobs, window),
         companies |-> Report!ByCompany(r.jobs, window),
         series |-> Report!Series(r.jobs, window), stats |-> Report!Stats(r.jobs)]

\* The report answers its input, once.
Reported == part = "report" => input \in ReportInput /\ output \in {Unknown, ReportAnswer(input)}

LEMMA ReportedKeeps ==
    ASSUME Reported, [ServicesNext]_servicesVars
    PROVE  Reported'
  <1>1. ASSUME part' = part, input' = input, output' = output
        PROVE  Reported'
    BY <1>1 DEF Reported
  <1>2. CASE \/ UNCHANGED servicesVars \/ DetectDuplicate \/ Throttle \/ CountRequests
    BY <1>1, <1>2 DEF servicesVars, callVars, DetectDuplicate, Throttle, CountRequests
  <1>3. CASE \/ RankFeed \/ BrowseJobs \/ ScoreJob \/ FetchSource \/ FilterJob \/ CompareSkills
             \/ NormalizeTexts \/ AskModel
    <2>1. part' = part /\ part # "report"
      BY <1>3, Zenon DEF RankFeed, BrowseJobs, ScoreJob, FetchSource, FilterJob, CompareSkills,
                  NormalizeTexts, AskModel, Answers
    <2>2. QED
      BY <2>1 DEF Reported
  <1>4. CASE BuildReport
    <2>1. part' = part /\ part = "report" /\ input' = input /\ output' = ReportAnswer(input)
      BY <1>4 DEF BuildReport, Answers, ReportAnswer, WindowOf
    <2>2. QED
      BY <2>1 DEF Reported
  <1>5. QED
    BY <1>2, <1>3, <1>4 DEF ServicesNext

\* The panels of the overview agree, for any jobs, any window and any time zone: the
\* days of the series and the role families add up to the headline counts, no row
\* has more relevant, tracked or interviewed jobs than jobs, no source more jobs than
\* there are, the funnel no more applications than the statistics, and no more
\* companies are shown than may be (analytics_service.py:59-236,
\* analytics_repository.py:22-119).
THEOREM ReportsAddUpAlways == ServicesSpec => []ReportsAddUp
  <1>1. ServicesInit => Reported
    BY DEF ServicesInit, InputOf, Reported
  <1>2. Reported /\ [ServicesNext]_servicesVars => Reported'
    BY ReportedKeeps
  <1>3. Reported => ReportsAddUp
    <2> SUFFICES ASSUME Reported, Answered("report") PROVE ReportsAddUp
      BY DEF ReportsAddUp
    <2> DEFINE r == input
    <2>1. r \in ReportInput /\ output = ReportAnswer(r)
      BY DEF Reported, Answered
    <2>2. Hours \in Nat \ {0} /\ CompanyLimit \in Nat /\ GoodInput(r)
      BY <2>1, ReportAssumption DEF GoodInput
    <2>3. /\ output.discovery = Report!Discovery(r.jobs, WindowOf(r))
          /\ output.funnel = Report!Funnel(r.jobs, WindowOf(r))
          /\ output.sources = Report!BySource(r.jobs, WindowOf(r))
          /\ output.roles = Report!ByRole(r.jobs, WindowOf(r))
          /\ output.companies = Report!ByCompany(r.jobs, WindowOf(r))
          /\ output.series = Report!Series(r.jobs, WindowOf(r))
          /\ output.stats = Report!Stats(r.jobs)
      BY <2>1 DEF ReportAnswer
    <2> HIDE DEF r
    <2>4. /\ output.discovery.discovered = Cardinality(FoundOf(r))
          /\ output.discovery.matched = Cardinality(RelevantOf(FoundOf(r)))
      BY <2>3, DiscoveryIs
    <2>5. /\ SumOver(output.series, "discovered") = Cardinality(FoundOf(r))
          /\ SumOver(output.series, "matched") = Cardinality(RelevantOf(FoundOf(r)))
      BY <2>2, <2>3, SeriesAddsUp
    <2>6. /\ MapThenSumSet(LAMBDA f : output.roles[f]["found"], DOMAIN output.roles)
                 = Cardinality(FoundOf(r))
          /\ MapThenSumSet(LAMBDA f : output.roles[f]["relevant"], DOMAIN output.roles)
                 = Cardinality(RelevantOf(FoundOf(r)))
      BY <2>2, <2>3, RolesAddUp, RoleSumIs, Zenon
    <2>7. \A s \in Sources : SoundRow(output.sources[s])
                             /\ output.sources[s].found <= Cardinality(FoundOf(r))
      BY <2>2, <2>3, SourcesAreSound
    <2>8. \A c \in DOMAIN output.companies : SoundRow(output.companies[c])
      BY <2>2, <2>3, CompaniesAreSound
    <2>9. /\ output.funnel.rejected <= output.stats.byStatus["REJECTED"]
          /\ output.funnel.saved <= output.stats.total
      BY <2>2, <2>3, FunnelIsPart
    <2>10. Cardinality(DOMAIN output.companies) <= CompanyLimit
      BY <2>2, <2>3, CompaniesAreFew
    <2>11. QED
      BY <2>4, <2>5, <2>6, <2>7, <2>8, <2>9, <2>10 DEF ReportsAddUp, SoundRow, CountFields
  <1>4. QED
    BY <1>1, <1>2, <1>3, PTL DEF ServicesSpec
===============================================================================
