---------------------------- MODULE AlgorithmProofs ----------------------------
(*****************************************************************************)
(* Of the parts of Services that make lists: the keys of texts and links,    *)
(* what a source and the filters let through, and the lists and the digest   *)
(* of a user, for any input.                                                 *)
(*****************************************************************************)
EXTENDS ServicesProofs, Picked

-------------------------------------------------------------------------------
(* Lists put together, and what is picked of them *)

\* The concatenation of lists, by the partial ones; one that has them all.
LEMMA FlattenIs ==
    ASSUME NEW T, NEW seqs \in Seq(Seq(T)), NEW g, g[0] = << >>,
           \A n \in 1 .. Len(seqs) : g[n] \in Seq(T) /\ g[n] = g[n - 1] \o seqs[n]
    PROVE  FlattenSeq(seqs) = g[Len(seqs)]
  <1>0. Len(seqs) \in Nat /\ \A n \in 1 .. Len(seqs) : seqs[n] \in Seq(T)
    BY LenProperties, ElementOfSeq
  <1>1. CASE Len(seqs) = 0
    <2>1. seqs = << >>
      BY <1>1, EmptySeq
    <2>2. FlattenSeq(seqs) = seqs
      BY <1>1 DEF FlattenSeq
    <2>3. QED
      BY <1>1, <2>1, <2>2
  <1>2. CASE Len(seqs) # 0
    <2> DEFINE L == Len(seqs)
               f == CHOOSE h : h = [n \in 1 .. L |-> IF n = 1 THEN seqs[n] ELSE h[n - 1] \o seqs[n]]
    <2>1. f = [n \in 1 .. L |-> IF n = 1 THEN seqs[n] ELSE f[n - 1] \o seqs[n]]
      BY FlattenStep, Zenon
    <2>2. FlattenSeq(seqs) = f[L]
      BY <1>2 DEF FlattenSeq
    <2> HIDE DEF f
    <2> DEFINE S == {m \in Nat : m \in 1 .. L => f[m] = g[m]}
    <2>3. 0 \in S
      OBVIOUS
    <2>4. ASSUME NEW m \in Nat, m \in S PROVE m + 1 \in S
      <3> SUFFICES ASSUME m + 1 \in 1 .. L PROVE f[m + 1] = g[m + 1]
        OBVIOUS
      <3>1. m + 1 \in 1 .. L /\ (m + 1) - 1 = m
        OBVIOUS
      <3>2. \A n \in 1 .. L : g[n] = g[n - 1] \o seqs[n] /\ seqs[n] \in Seq(T)
        BY <1>0, Zenon
      <3>3. \A n \in 1 .. L : f[n] = IF n = 1 THEN seqs[n] ELSE f[n - 1] \o seqs[n]
        BY <2>1, Zenon
      <3> HIDE DEF L
      <3>4. g[m + 1] = g[m] \o seqs[m + 1] /\ seqs[m + 1] \in Seq(T)
        BY <3>1, <3>2, Zenon
      <3>5. f[m + 1] = IF m + 1 = 1 THEN seqs[m + 1] ELSE f[m] \o seqs[m + 1]
        BY <3>1, <3>3
      <3>6. CASE m = 0
        <4>1. << >> \o seqs[m + 1] = seqs[m + 1]
          BY <3>4, ConcatEmptySeq
        <4>2. g[m] = << >> /\ f[m + 1] = seqs[m + 1]
          BY <3>5, <3>6
        <4>3. QED
          BY <3>4, <4>1, <4>2, Zenon
      <3>7. CASE m # 0
        <4>1. f[m] = g[m]
          BY <2>4, <3>1, <3>7, <1>0 DEF L
        <4>2. f[m + 1] = f[m] \o seqs[m + 1]
          <5>1. m + 1 # 1
            BY <3>7
          <5>2. QED
            BY <3>5, <5>1, Zenon
        <4>3. QED
          BY <3>4, <4>1, <4>2, Zenon
      <3>8. QED
        BY <3>6, <3>7
    <2>5. L \in S
      <3> HIDE DEF S
      <3>1. QED
        BY <1>0, <2>3, <2>4, SetInduction, Zenon
    <2>6. QED
      BY <1>0, <1>2, <2>2, <2>5
  <1>3. QED
    BY <1>1, <1>2

\* Single elements put together.
LEMMA FlattenSingles ==
    ASSUME NEW T, NEW s \in Seq(T)
    PROVE  FlattenSeq([n \in DOMAIN s |-> <<s[n]>>]) = s
  <1> DEFINE seqs == [n \in DOMAIN s |-> <<s[n]>>]
             g == [n \in 0 .. Len(s) |-> SubSeq(s, 1, n)]
  <1>1. DOMAIN s = 1 .. Len(s) /\ Len(s) \in Nat /\ \A n \in 1 .. Len(s) : s[n] \in T
    BY LenProperties, ElementOfSeq
  <1>2. seqs \in Seq(Seq(T)) /\ Len(seqs) = Len(s) /\ \A n \in 1 .. Len(s) : seqs[n] = <<s[n]>>
    <2>1. \A n \in 1 .. Len(s) : <<s[n]>> \in Seq(T)
      BY <1>1
    <2>2. seqs \in [1 .. Len(s) -> Seq(T)]
      BY <1>1, <2>1
    <2>3. QED
      BY <1>1, <2>2
  <1>3. g[0] = << >>
    BY <1>1
  <1>4. ASSUME NEW n \in 1 .. Len(seqs)
        PROVE  g[n] \in Seq(T) /\ g[n] = g[n - 1] \o seqs[n]
    <2>1. n \in 1 .. Len(s) /\ n - 1 \in 0 .. Len(s)
      BY <1>1, <1>2
    <2>2. g[n] = SubSeq(s, 1, n) /\ g[n - 1] = SubSeq(s, 1, n - 1) /\ seqs[n] = <<s[n]>>
      BY <1>1, <1>2, <2>1
    <2>3. SubSeq(s, 1, n) \in Seq(T) /\ SubSeq(s, 1, n - 1) \in Seq(T)
      BY <1>1, <2>1
    <2>4. SubSeq(s, 1, n) = SubSeq(s, 1, n - 1) \o <<s[n]>>
      <3>1. Len(SubSeq(s, 1, n)) = n /\ Len(SubSeq(s, 1, n - 1)) = n - 1
        BY <1>1, <2>1
      <3>2. \A k \in 1 .. n : SubSeq(s, 1, n)[k] = s[k]
        BY <1>1, <2>1
      <3>3. \A k \in 1 .. n - 1 : SubSeq(s, 1, n - 1)[k] = s[k]
        BY <1>1, <2>1
      <3>4. /\ SubSeq(s, 1, n - 1) \o <<s[n]>> \in Seq(T)
            /\ Len(SubSeq(s, 1, n - 1) \o <<s[n]>>) = n
            /\ \A k \in 1 .. n : (SubSeq(s, 1, n - 1) \o <<s[n]>>)[k] = s[k]
        BY <1>1, <2>1, <2>3, <3>1, <3>3
      <3>5. QED
        BY <2>3, <3>1, <3>2, <3>4, SeqEqual
    <2>5. QED
      BY <2>2, <2>3, <2>4, Zenon
  <1> HIDE DEF seqs, g
  <1>5. FlattenSeq(seqs) = g[Len(seqs)]
    BY <1>2, <1>3, <1>4, FlattenIs, Zenon
  <1>6. g[Len(s)] = s
    BY <1>1 DEF g
  <1>7. QED
    BY <1>2, <1>5, <1>6 DEF seqs

LEMMA PartialsExist ==
    ASSUME NEW T, NEW seqs \in Seq(Seq(T))
    PROVE  \E g : /\ DOMAIN g = 0 .. Len(seqs) /\ g[0] = << >>
                  /\ \A n \in 1 .. Len(seqs) : g[n] \in Seq(T) /\ g[n] = g[n - 1] \o seqs[n]
  <1>0. Len(seqs) \in Nat /\ \A n \in 1 .. Len(seqs) : seqs[n] \in Seq(T)
    BY LenProperties, ElementOfSeq
  <1> DEFINE L == Len(seqs)
  <1>1. PICK f : f = [n \in 1 .. L |-> IF n = 1 THEN seqs[n] ELSE f[n - 1] \o seqs[n]]
    BY FlattenStep, Zenon
  <1> DEFINE g == [n \in 0 .. L |-> IF n = 0 THEN << >> ELSE f[n]]
             Step(n) == g[n] \in Seq(T) /\ g[n] = g[n - 1] \o seqs[n]
             S == {m \in Nat : m \in 1 .. L => Step(m)}
  <1>2. 0 \in S
    OBVIOUS
  <1>3. ASSUME NEW m \in Nat, m \in S PROVE m + 1 \in S
    <2> SUFFICES ASSUME m + 1 \in 1 .. L PROVE Step(m + 1)
      <3> HIDE DEF Step
      <3>1. QED
        OBVIOUS
    <2>1. (m + 1) - 1 = m /\ m \in 0 .. L /\ seqs[m + 1] \in Seq(T)
      BY <1>0
    <2>2. f[m + 1] = IF m + 1 = 1 THEN seqs[m + 1] ELSE f[m] \o seqs[m + 1]
      BY <1>1, <2>1, Zenon
    <2>3. g[m + 1] = f[m + 1]
      OBVIOUS
    <2>4. CASE m = 0
      <3>1. g[m] = << >> /\ f[m + 1] = seqs[m + 1]
        BY <2>2, <2>4
      <3>2. << >> \o seqs[m + 1] = seqs[m + 1]
        BY <2>1, ConcatEmptySeq
      <3> HIDE DEF g
      <3>3. QED
        BY <2>1, <2>3, <3>1, <3>2, Zenon
    <2>5. CASE m # 0
      <3>1. g[m] = f[m] /\ m \in 1 .. L
        BY <2>1, <2>5
      <3>2. g[m] \in Seq(T)
        BY <1>3, <3>1
      <3>3. f[m + 1] = f[m] \o seqs[m + 1]
        <4>1. m + 1 # 1
          BY <2>5
        <4>2. QED
          BY <2>2, <4>1, Zenon
      <3> HIDE DEF g
      <3>4. g[m] \o seqs[m + 1] \in Seq(T)
        BY <2>1, <3>2, ConcatProperties
      <3>5. QED
        BY <2>1, <2>3, <3>1, <3>3, <3>4, Zenon
    <2>6. QED
      BY <2>4, <2>5, Zenon
  <1>4. Nat \subseteq S
    <2> HIDE DEF S
    <2>1. QED
      BY <1>2, <1>3, SetInduction, Zenon
  <1>5. \A n \in 1 .. L : g[n] \in Seq(T) /\ g[n] = g[n - 1] \o seqs[n]
    <2> SUFFICES ASSUME NEW n \in 1 .. L PROVE g[n] \in Seq(T) /\ g[n] = g[n - 1] \o seqs[n]
      BY Zenon
    <2> HIDE DEF g, S
    <2>1. n \in S
      BY <1>0, <1>4
    <2>2. QED
      BY <2>1, Zenon DEF S
  <1>6. DOMAIN g = 0 .. L /\ g[0] = << >>
    BY <1>0
  <1> HIDE DEF g
  <1>7. QED
    BY <1>5, <1>6

\* One list more.
LEMMA FlattenAppend ==
    ASSUME NEW T, NEW seqs \in Seq(Seq(T)), NEW more \in Seq(T)
    PROVE  FlattenSeq(Append(seqs, more)) = FlattenSeq(seqs) \o more
  <1> DEFINE L == Len(seqs)
             all == Append(seqs, more)
  <1>1. PICK g : /\ DOMAIN g = 0 .. L /\ g[0] = << >>
                 /\ \A n \in 1 .. L : g[n] \in Seq(T) /\ g[n] = g[n - 1] \o seqs[n]
    BY PartialsExist, Zenon
  <1>2. L \in Nat /\ all \in Seq(Seq(T)) /\ Len(all) = L + 1 /\ all[L + 1] = more
        /\ \A n \in 1 .. L : all[n] = seqs[n]
    BY LenProperties, AppendProperties
  <1>3. FlattenSeq(seqs) = g[L]
    BY <1>1, FlattenIs
  <1>4. g[L] \in Seq(T)
    <2>1. CASE L = 0
      BY <1>1, <2>1, EmptySeq, Zenon
    <2>2. CASE L # 0
      <3> HIDE DEF L, all
      <3>1. L \in 1 .. L
        BY <1>2, <2>2
      <3>2. QED
        BY <1>1, <3>1, Zenon
    <2>3. QED
      BY <2>1, <2>2
  <1> DEFINE h == [n \in 0 .. L + 1 |-> IF n = L + 1 THEN g[L] \o more ELSE g[n]]
  <1>5. h[0] = << >> /\ h[L + 1] = g[L] \o more
    BY <1>1, <1>2
  <1>6. ASSUME NEW n \in 1 .. Len(all)
        PROVE  h[n] \in Seq(T) /\ h[n] = h[n - 1] \o all[n]
    <2>1. CASE n = L + 1
      <3>1. n - 1 = L /\ h[n - 1] = g[L] /\ all[n] = more /\ h[n] = g[L] \o more
        BY <1>2, <2>1
      <3>2. g[L] \o more \in Seq(T)
        BY <1>4, ConcatProperties
      <3> HIDE DEF h, all
      <3>3. QED
        BY <3>1, <3>2, Zenon
    <2>2. CASE n # L + 1
      <3>1. n \in 1 .. L
        BY <1>2, <2>2
      <3>2. h[n] = g[n] /\ h[n - 1] = g[n - 1] /\ all[n] = seqs[n]
        BY <1>2, <3>1
      <3> HIDE DEF h, all
      <3>3. g[n] \in Seq(T) /\ g[n] = g[n - 1] \o seqs[n]
        BY <1>1, <3>1, Zenon
      <3>4. QED
        BY <3>2, <3>3, Zenon
    <2>3. QED
      BY <2>1, <2>2, Zenon
  <1> HIDE DEF h, all
  <1>7. FlattenSeq(all) = h[Len(all)]
    BY <1>2, <1>5, <1>6, FlattenIs, Zenon
  <1>8. FlattenSeq(all) = h[L + 1]
    BY <1>2, <1>7
  <1>9. QED
    BY <1>3, <1>5, <1>8, Zenon DEF all

\* What is in one of the lists is in them together.
LEMMA FlattenHolds ==
    ASSUME NEW T, NEW seqs \in Seq(Seq(T)), NEW m \in DOMAIN seqs, NEW k \in DOMAIN seqs[m]
    PROVE  \E n \in DOMAIN FlattenSeq(seqs) : FlattenSeq(seqs)[n] = seqs[m][k]
  <1> DEFINE L == Len(seqs)
             Has(s) == \E n \in DOMAIN s : s[n] = seqs[m][k]
  <1>1. PICK g : /\ DOMAIN g = 0 .. L /\ g[0] = << >>
                 /\ \A n \in 1 .. L : g[n] \in Seq(T) /\ g[n] = g[n - 1] \o seqs[n]
    BY PartialsExist, Zenon
  <1>2. FlattenSeq(seqs) = g[L]
    BY <1>1, FlattenIs, Zenon
  <1>3. /\ L \in Nat /\ m \in 1 .. L
        /\ \A n \in 1 .. L : seqs[n] \in Seq(T) /\ g[n - 1] \in Seq(T)
    <2>1. L \in Nat /\ m \in 1 .. L /\ \A n \in 1 .. L : seqs[n] \in Seq(T)
      BY LenProperties, ElementOfSeq
    <2>2. ASSUME NEW n \in 1 .. L PROVE g[n - 1] \in Seq(T)
      <3> HIDE DEF L
      <3>1. CASE n = 1
        <4>1. n - 1 = 0
          BY <3>1
        <4>2. QED
          BY <1>1, <4>1, EmptySeq, Zenon
      <3>2. CASE n # 1
        <4>1. n - 1 \in 1 .. L
          BY <2>1, <3>2
        <4>2. QED
          BY <1>1, <4>1, Zenon
      <3>3. QED
        BY <3>1, <3>2
    <2>3. QED
      BY <2>1, <2>2
  <1>4. ASSUME NEW s \in Seq(T), NEW t \in Seq(T), Has(s) \/ Has(t)
        PROVE  Has(s \o t)
    <2>1. /\ DOMAIN (s \o t) = 1 .. Len(s) + Len(t) /\ DOMAIN s = 1 .. Len(s) /\ DOMAIN t = 1 .. Len(t)
          /\ \A n \in 1 .. Len(s) : (s \o t)[n] = s[n]
          /\ \A n \in 1 .. Len(t) : (s \o t)[Len(s) + n] = t[n]
          /\ Len(s) \in Nat /\ Len(t) \in Nat
      BY LenProperties, ConcatProperties
    <2>2. CASE Has(s)
      BY <2>1, <2>2
    <2>3. CASE Has(t)
      <3>1. PICK n \in 1 .. Len(t) : t[n] = seqs[m][k]
        BY <2>1, <2>3
      <3>2. Len(s) + n \in 1 .. Len(s) + Len(t) /\ (s \o t)[Len(s) + n] = seqs[m][k]
        BY <2>1, <3>1
      <3>3. QED
        BY <2>1, <3>2, Zenon
    <2>4. QED
      BY <1>4, <2>2, <2>3, Zenon
  <1> DEFINE S == {d \in Nat : m + d <= L => Has(g[m + d])}
  <1>5. 0 \in S
    <2>1. Has(seqs[m])
      OBVIOUS
    <2> HIDE DEF Has
    <2>2. g[m] = g[m - 1] \o seqs[m] /\ g[m - 1] \in Seq(T) /\ seqs[m] \in Seq(T)
      BY <1>1, <1>3, Zenon
    <2>3. Has(g[m])
      <3>1. Has(g[m - 1] \o seqs[m])
        BY <1>4, <2>1, <2>2
      <3>2. QED
        BY <2>2, <3>1, Zenon
    <2>4. m + 0 = m
      BY <1>3
    <2>5. QED
      BY <2>3, <2>4
  <1>6. ASSUME NEW d \in Nat, d \in S PROVE d + 1 \in S
    <2> HIDE DEF Has
    <2> SUFFICES ASSUME m + (d + 1) <= L PROVE Has(g[m + (d + 1)])
      OBVIOUS
    <2>1. m + (d + 1) \in 1 .. L /\ (m + (d + 1)) - 1 = m + d /\ m + d <= L
      <3>1. m \in Int /\ m >= 1 /\ L \in Nat
        BY <1>3
      <3> HIDE DEF L
      <3>2. QED
        BY <3>1
    <2> DEFINE n == m + (d + 1)
    <2>2. Has(g[m + d])
      BY <1>6, <2>1
    <2>3. n \in 1 .. L /\ n - 1 = m + d
      BY <2>1
    <2> HIDE DEF n
    <2>4. g[n] = g[n - 1] \o seqs[n] /\ g[n - 1] \in Seq(T) /\ seqs[n] \in Seq(T)
      BY <1>1, <1>3, <2>3, Zenon
    <2>5. Has(g[n - 1])
      BY <2>2, <2>3
    <2>6. Has(g[n - 1] \o seqs[n])
      BY <1>4, <2>4, <2>5
    <2>7. Has(g[n])
      BY <2>4, <2>6, Zenon
    <2>8. QED
      BY <2>7 DEF n
  <1> HIDE DEF Has
  <1>7. Nat \subseteq S
    <2> HIDE DEF S
    <2>1. QED
      BY <1>5, <1>6, SetInduction, Zenon
  <1>8. L - m \in Nat /\ m + (L - m) = L
    BY <1>3
  <1>9. L - m \in S
    BY <1>7, <1>8
  <1>10. Has(g[L])
    BY <1>8, <1>9
  <1>11. Has(FlattenSeq(seqs))
    BY <1>2, <1>10, Zenon
  <1>12. QED
    BY <1>11 DEF Has

LEMMA NormalKept == \A seq, at_ : Normal!Kept(seq, at_) = Kept(seq, at_)
  BY DEF Normal!Kept, Kept, Normal!Cardinality, Cardinality

LEMMA PickedFacts ==
    ASSUME NEW T, NEW seq \in Seq(T), NEW places \in SUBSET DOMAIN seq
    PROVE  /\ Kept(seq, places) \in Seq(T)
           /\ Len(Kept(seq, places)) = Cardinality(places) /\ Cardinality(places) \in Nat
           /\ \A k \in 1 .. Cardinality(places) :
                  \E x \in places : Rank(places, x) = k /\ Kept(seq, places)[k] = seq[x]
           /\ \A x \in places : /\ Rank(places, x) \in 1 .. Cardinality(places)
                                /\ Kept(seq, places)[Rank(places, x)] = seq[x]
  <1>1. Kept(seq, places) = Skills!Kept(seq, places)
    BY DEF Skills!Kept, Kept, Skills!Cardinality, Cardinality
  <1> DEFINE kept == Kept(seq, places)
  <1>2. /\ kept \in Seq(T) /\ Len(kept) = Cardinality(places)
        /\ \A k \in 1 .. Len(kept) : \E x \in places : Rank(places, x) = k /\ kept[k] = seq[x]
    <2> DEFINE skills == Skills!Kept(seq, places)
    <2>1. /\ skills \in Seq(T) /\ Len(skills) = Cardinality(places)
          /\ \A k \in 1 .. Len(skills) : \E x \in places : Rank(places, x) = k /\ skills[k] = seq[x]
      BY KeptFacts
    <2>2. kept = skills
      BY <1>1
    <2> HIDE DEF kept, skills
    <2>3. QED
      BY <2>1, <2>2
  <1>3. DOMAIN seq = 1 .. Len(seq) /\ Len(seq) \in Nat
    BY LenProperties
  <1>4. /\ Cardinality(places) \in Nat
        /\ \A x \in places : Rank(places, x) \in 1 .. Cardinality(places)
        /\ \A x, y \in places : x < y => Rank(places, x) < Rank(places, y)
    BY <1>3, RankIsPlace, Zenon
  <1>5. ASSUME NEW x \in places PROVE kept[Rank(places, x)] = seq[x]
    <2>1. PICK y \in places : Rank(places, y) = Rank(places, x) /\ kept[Rank(places, x)] = seq[y]
      BY <1>2, <1>4
    <2>2. x \in Int /\ y \in Int /\ Rank(places, x) \in Int
      BY <1>3, <1>4
    <2>3. x = y
      <3>1. ~(x < y) /\ ~(y < x)
        BY <1>4, <2>1, <2>2
      <3>2. QED
        BY <2>2, <3>1
    <2>4. QED
      BY <2>1, <2>3
  <1>6. QED
    BY <1>2, <1>4, <1>5

\* To keep all is to keep the list.
LEMMA AllKept ==
    ASSUME NEW T, NEW seq \in Seq(T)
    PROVE  Kept(seq, DOMAIN seq) = seq
  <1>1. DOMAIN seq = 1 .. Len(seq) /\ Len(seq) \in Nat
    BY LenProperties
  <1> DEFINE places == 1 .. Len(seq)
             kept == Kept(seq, places)
  <1>2. Cardinality(places) = Len(seq)
    BY <1>1, FS_Interval
  <1>3. \A x \in places : Rank(places, x) = x
    <2> SUFFICES ASSUME NEW x \in places PROVE Rank(places, x) = x
      OBVIOUS
    <2>1. {y \in places : y <= x} = 1 .. x /\ x \in Nat /\ x >= 1
      BY <1>1
    <2>2. Cardinality(1 .. x) = x
      BY <2>1, FS_Interval
    <2> HIDE DEF places
    <2>3. QED
      BY <2>1, <2>2, Zenon DEF Rank
  <1>4. /\ kept \in Seq(T) /\ Len(kept) = Cardinality(places)
        /\ \A x \in places : kept[Rank(places, x)] = seq[x]
    BY <1>1, PickedFacts, SMTT(30)
  <1>5. \A x \in 1 .. Len(seq) : kept[x] = seq[x]
    BY <1>3, <1>4
  <1> HIDE DEF kept, places
  <1>6. kept = seq
    BY <1>2, <1>4, <1>5, SeqEqual
  <1>7. QED
    BY <1>1, <1>6 DEF kept, places

\* An element before the list that is not kept changes nothing.
LEMMA KeptAfter ==
    ASSUME NEW T, NEW seq \in Seq(T), NEW first \in T, NEW places \in SUBSET DOMAIN seq
    PROVE  Kept(<<first>> \o seq, {x + 1 : x \in places}) = Kept(seq, places)
  <1> DEFINE all == <<first>> \o seq
             moved == {x + 1 : x \in places}
  <1>1. DOMAIN seq = 1 .. Len(seq) /\ Len(seq) \in Nat /\ places \subseteq 1 .. Len(seq)
    BY LenProperties
  <1>2. /\ all \in Seq(T) /\ Len(all) = Len(seq) + 1 /\ DOMAIN all = 1 .. Len(seq) + 1
        /\ \A x \in 1 .. Len(seq) : all[x + 1] = seq[x]
    <2>1. <<first>> \in Seq(T) /\ Len(<<first>>) = 1
      OBVIOUS
    <2>2. /\ all \in Seq(T) /\ Len(all) = 1 + Len(seq)
          /\ \A x \in 1 .. Len(all) : all[x] = IF x <= Len(<<first>>) THEN <<first>>[x]
                                               ELSE seq[x - Len(<<first>>)]
      BY <2>1, ConcatProperties
    <2>3. DOMAIN all = 1 .. Len(all)
      BY <2>2, LenProperties
    <2> HIDE DEF all
    <2>4. ASSUME NEW x \in 1 .. Len(seq) PROVE all[x + 1] = seq[x]
      <3>1. x + 1 \in 1 .. Len(all) /\ ~(x + 1 <= 1) /\ (x + 1) - 1 = x
        BY <1>1, <2>2
      <3>2. QED
        BY <2>1, <2>2, <3>1
    <2>5. QED
      BY <1>1, <2>2, <2>3, <2>4
  <1>3. moved \in SUBSET DOMAIN all
    BY <1>1, <1>2
  <1>4. IsFiniteSet(places) /\ Cardinality(places) \in Nat
    BY <1>1, RankIsPlace, Zenon
  <1>5. ASSUME NEW S \in SUBSET places
        PROVE  Cardinality({x + 1 : x \in S}) = Cardinality(S)
    <2> DEFINE R == {x + 1 : x \in S}
               f == [x \in S |-> x + 1]
    <2>1. f \in Bijection(S, R)
      <3>1. f \in Surjection(S, R)
        BY DEF Surjection
      <3>2. \A x, y \in S : f[x] = f[y] => x = y
        BY <1>1
      <3>3. QED
        BY <3>1, <3>2 DEF Bijection, Injection, IsInjective, Surjection
    <2>2. IsFiniteSet(S)
      BY <1>4, FS_Subset
    <2> HIDE DEF f, R
    <2>3. Cardinality(R) = Cardinality(S)
      <3>1. ExistsBijection(S, R)
        BY <2>1 DEF ExistsBijection
      <3>2. QED
        BY <2>2, <3>1, FS_Bijection
    <2>4. QED
      BY <2>3 DEF R
  <1>6. Cardinality(moved) = Cardinality(places)
    BY <1>5
  <1>7. ASSUME NEW x \in places PROVE Rank(moved, x + 1) = Rank(places, x)
    <2> DEFINE S == {y \in places : y <= x}
    <2>1. {y \in moved : y <= x + 1} = {y + 1 : y \in S}
      BY <1>1
    <2>2. S \in SUBSET places
      OBVIOUS
    <2>3. Cardinality({y + 1 : y \in S}) = Cardinality(S)
      BY <1>5, <2>2
    <2>4. QED
      BY <2>1, <2>3, Zenon DEF Rank
  <1> DEFINE kept == Kept(seq, places)
             more == Kept(all, moved)
  <1>8. /\ kept \in Seq(T) /\ Len(kept) = Cardinality(places)
        /\ \A k \in 1 .. Cardinality(places) :
               \E x \in places : Rank(places, x) = k /\ kept[k] = seq[x]
    BY PickedFacts
  <1> HIDE DEF all, moved, kept, more
  <1>9. /\ more \in Seq(T) /\ Len(more) = Cardinality(places)
        /\ \A y \in moved : more[Rank(moved, y)] = all[y]
    BY <1>2, <1>3, <1>6, PickedFacts DEF more
  <1>10. ASSUME NEW k \in 1 .. Cardinality(places) PROVE kept[k] = more[k]
    <2>1. PICK x \in places : Rank(places, x) = k /\ kept[k] = seq[x]
      BY <1>8
    <2>2. x + 1 \in moved /\ x \in 1 .. Len(seq)
      BY <1>1 DEF moved
    <2>3. more[Rank(moved, x + 1)] = all[x + 1]
      BY <1>9, <2>2
    <2>4. QED
      BY <1>2, <1>7, <2>1, <2>2, <2>3
  <1>11. kept = more
    BY <1>8, <1>9, <1>10, SeqEqual
  <1>12. QED
    BY <1>11 DEF kept, more, all, moved

-------------------------------------------------------------------------------
(* The words of a text *)

LEMMA NormalFlatten == \A s : Normal!FlattenSeq(s) = FlattenSeq(s)
  BY DEF Normal!FlattenSeq, FlattenSeq

LEMMA NormalMinMax == \A S : Normal!Max(S) = Max(S) /\ Normal!Min(S) = Min(S)
  BY DEF Normal!Max, Max, Normal!Min, Min

\* A word of which the first and the second reading are the same.
Word(w) == Casefold(w) = w /\ Split(w) = <<w>>
SkillWord(w) == Casefold(w) = w /\ SplitSkill(w) = <<w>>

Listing(s) == s \in Seq(ToSet(s))

LEMMA FoldedStays ==
    ASSUME NEW W, NEW s \in Seq(W), \A w \in W : Casefold(w) = w
    PROVE  Normal!Folded(s) = s
  <1>1. DOMAIN s = 1 .. Len(s) /\ Len(s) \in Nat /\ \A n \in 1 .. Len(s) : s[n] \in W
    BY LenProperties, ElementOfSeq
  <1>2. Normal!Folded(s) = [n \in 1 .. Len(s) |-> Casefold(s[n])]
    BY <1>1 DEF Normal!Folded
  <1>3. [n \in 1 .. Len(s) |-> Casefold(s[n])] = [n \in 1 .. Len(s) |-> s[n]]
    BY <1>1
  <1>4. [n \in 1 .. Len(s) |-> s[n]] = s
    BY <1>1
  <1>5. QED
    BY <1>2, <1>3, <1>4, Zenon

LEMMA WordsStay ==
    ASSUME NEW W, NEW s \in Seq(W), \A w \in W : Word(w)
    PROVE  Normal!NormalizeTitle(s) = s
  <1>1. DOMAIN s = 1 .. Len(s) /\ \A n \in 1 .. Len(s) : s[n] \in W
    BY LenProperties, ElementOfSeq
  <1>2. Normal!Folded(s) = s
    BY FoldedStays DEF Word
  <1>3. [n \in DOMAIN s |-> Split(Normal!Folded(s)[n])] = [n \in DOMAIN s |-> <<s[n]>>]
    BY <1>1, <1>2 DEF Word
  <1>4. FlattenSeq([n \in DOMAIN s |-> <<s[n]>>]) = s
    BY FlattenSingles
  <1>5. Normal!NormalizeTitle(s) = FlattenSeq([n \in DOMAIN s |-> Split(Normal!Folded(s)[n])])
    BY NormalFlatten DEF Normal!NormalizeTitle, Normal!Words
  <1>6. QED
    BY <1>3, <1>4, <1>5, Zenon

LEMMA SkillWordsStay ==
    ASSUME NEW W, NEW s \in Seq(W), \A w \in W : SkillWord(w)
    PROVE  Normal!Words(s, SplitSkill) = s
  <1>1. DOMAIN s = 1 .. Len(s) /\ \A n \in 1 .. Len(s) : s[n] \in W
    BY LenProperties, ElementOfSeq
  <1>2. Normal!Folded(s) = s
    BY FoldedStays DEF SkillWord
  <1>3. [n \in DOMAIN s |-> SplitSkill(Normal!Folded(s)[n])] = [n \in DOMAIN s |-> <<s[n]>>]
    BY <1>1, <1>2 DEF SkillWord
  <1>4. FlattenSeq([n \in DOMAIN s |-> <<s[n]>>]) = s
    BY FlattenSingles
  <1>5. Normal!Words(s, SplitSkill) = FlattenSeq([n \in DOMAIN s |-> SplitSkill(Normal!Folded(s)[n])])
    BY NormalFlatten DEF Normal!Words
  <1>6. QED
    BY <1>3, <1>4, <1>5, Zenon

\* What a list of lists of words is made of.
LEMMA ReadingIs ==
    ASSUME NEW text, Listing(text), NEW read, DOMAIN read = ToSet(text),
           \A t \in ToSet(text) : Listing(read[t])
    PROVE  [n \in DOMAIN text |-> read[text[n]]]
               \in Seq(Seq(UNION {ToSet(read[t]) : t \in ToSet(text)}))
  <1> DEFINE W == UNION {ToSet(read[t]) : t \in ToSet(text)}
  <1>1. DOMAIN text = 1 .. Len(text) /\ Len(text) \in Nat /\ \A n \in 1 .. Len(text) : text[n] \in ToSet(text)
    BY LenProperties, ElementOfSeq DEF Listing
  <1>2. ASSUME NEW t \in ToSet(text) PROVE read[t] \in Seq(W)
    <2>1. ToSet(read[t]) \subseteq W
      OBVIOUS
    <2>2. read[t] \in Seq(ToSet(read[t]))
      BY DEF Listing
    <2> HIDE DEF W
    <2>3. QED
      BY <2>1, <2>2
  <1> HIDE DEF W
  <1>3. [n \in DOMAIN text |-> read[text[n]]] \in [1 .. Len(text) -> Seq(W)]
    BY <1>1, <1>2
  <1>4. [n \in DOMAIN text |-> read[text[n]]] \in Seq(Seq(W))
    BY <1>1, <1>3
  <1>5. QED
    BY <1>4 DEF W

\* The words of a title or a company, of which each stays what it is.
LEMMA TitleWords ==
    ASSUME NEW text, Listing(text),
           \A t \in ToSet(text) : Listing(Split(Casefold(t)))
                                 /\ \A w \in ToSet(Split(Casefold(t))) : Word(w)
    PROVE  \E W : /\ \A w \in W : Word(w)
                  /\ [n \in DOMAIN text |-> Split(Normal!Folded(text)[n])] \in Seq(Seq(W))
                  /\ Normal!NormalizeTitle(text) \in Seq(W)
  <1> DEFINE read == [t \in ToSet(text) |-> Split(Casefold(t))]
             W == UNION {ToSet(read[t]) : t \in ToSet(text)}
             lists == [n \in DOMAIN text |-> Split(Normal!Folded(text)[n])]
  <1>1. \A w \in W : Word(w)
    OBVIOUS
  <1>2. \A n \in DOMAIN text : text[n] \in ToSet(text)
    BY DEF ToSet
  <1>3. lists = [n \in DOMAIN text |-> read[text[n]]]
    BY <1>2 DEF Normal!Folded
  <1>4. [n \in DOMAIN text |-> read[text[n]]] \in Seq(Seq(W))
    BY ReadingIs, Zenon
  <1>5. lists \in Seq(Seq(W))
    BY <1>3, <1>4, Zenon
  <1>6. Normal!NormalizeTitle(text) = FlattenSeq(lists)
    BY NormalFlatten DEF Normal!NormalizeTitle, Normal!Words
  <1> HIDE DEF W, lists
  <1>7. FlattenSeq(lists) \in Seq(W)
    BY <1>5, FlattenType
  <1>8. QED
    BY <1>1, <1>5, <1>6, <1>7 DEF lists

LEMMA SkillWords ==
    ASSUME NEW text, Listing(text),
           \A t \in ToSet(text) : Listing(SplitSkill(Casefold(t)))
                                 /\ \A w \in ToSet(SplitSkill(Casefold(t))) : SkillWord(w)
    PROVE  \E W : /\ \A w \in W : SkillWord(w)
                  /\ Normal!Words(text, SplitSkill) \in Seq(W)
  <1> DEFINE read == [t \in ToSet(text) |-> SplitSkill(Casefold(t))]
             W == UNION {ToSet(read[t]) : t \in ToSet(text)}
             lists == [n \in DOMAIN text |-> SplitSkill(Normal!Folded(text)[n])]
  <1>1. \A w \in W : SkillWord(w)
    OBVIOUS
  <1>2. \A n \in DOMAIN text : text[n] \in ToSet(text)
    BY DEF ToSet
  <1>3. lists = [n \in DOMAIN text |-> read[text[n]]]
    BY <1>2 DEF Normal!Folded
  <1>4. [n \in DOMAIN text |-> read[text[n]]] \in Seq(Seq(W))
    BY ReadingIs, Zenon
  <1>5. lists \in Seq(Seq(W))
    BY <1>3, <1>4, Zenon
  <1>6. Normal!Words(text, SplitSkill) = FlattenSeq(lists)
    BY NormalFlatten DEF Normal!Words
  <1> HIDE DEF W, lists
  <1>7. FlattenSeq(lists) \in Seq(W)
    BY <1>5, FlattenType
  <1>8. QED
    BY <1>1, <1>6, <1>7

\* A skill once normalized: an alias is looked up once.
LEMMA SkillStays ==
    ASSUME NEW name, Listing(name),
           \A alias \in DOMAIN Alias :
               /\ Alias[alias] \notin DOMAIN Alias /\ Listing(Alias[alias])
               /\ \A w \in ToSet(Alias[alias]) : SkillWord(w),
           \A t \in ToSet(name) : Listing(SplitSkill(Casefold(t)))
                                 /\ \A w \in ToSet(SplitSkill(Casefold(t))) : SkillWord(w)
    PROVE  Normal!NormalizeSkill(Normal!NormalizeSkill(name)) = Normal!NormalizeSkill(name)
  <1>1. ASSUME NEW W, NEW s \in Seq(W), \A w \in W : SkillWord(w), s \notin DOMAIN Alias
        PROVE  Normal!NormalizeSkill(s) = s
    <2>1. Normal!Folded(s) = s
      BY <1>1, FoldedStays DEF SkillWord
    <2>2. Normal!Words(s, SplitSkill) = s
      BY <1>1, SkillWordsStay
    <2>3. QED
      BY <1>1, <2>1, <2>2 DEF Normal!NormalizeSkill, Normal!Unaliased
  <1>2. ASSUME NEW alias \in DOMAIN Alias
        PROVE  Normal!NormalizeSkill(Alias[alias]) = Alias[alias]
    BY <1>1, <1>2 DEF Listing
  <1>3. CASE Normal!Folded(name) \in DOMAIN Alias
    BY <1>2, <1>3 DEF Normal!NormalizeSkill
  <1>4. CASE Normal!Folded(name) \notin DOMAIN Alias
    <2>1. PICK W : (\A w \in W : SkillWord(w)) /\ Normal!Words(name, SplitSkill) \in Seq(W)
      BY SkillWords, Zenon
    <2> DEFINE words == Normal!Words(name, SplitSkill)
    <2>2. Normal!NormalizeSkill(name) = IF words \in DOMAIN Alias THEN Alias[words] ELSE words
      BY <1>4 DEF Normal!NormalizeSkill, Normal!Unaliased
    <2>3. words \in Seq(W)
      BY <2>1
    <2> HIDE DEF words
    <2>4. CASE words \in DOMAIN Alias
      BY <1>2, <2>2, <2>4
    <2>5. CASE words \notin DOMAIN Alias
      <3>1. Normal!NormalizeSkill(words) = words
        BY <1>1, <2>1, <2>3, <2>5
      <3>2. QED
        BY <2>2, <2>5, <3>1
    <2>6. QED
      BY <2>4, <2>5
  <1>5. QED
    BY <1>3, <1>4

-------------------------------------------------------------------------------
(* Companies *)

Bare(words) == {n \in DOMAIN words : words[n] \notin CompanySuffix}
Trimmed(words) == SubSeq(words, 1, Min({Len(words), Max(Bare(words) \union {1})}))

LEMMA CompanyIs == \A name : Normal!NormalizeCompany(name) = Trimmed(Normal!NormalizeTitle(name))
  BY NormalMinMax, Zenon DEF Normal!NormalizeCompany, Normal!NormalizeTitle, Trimmed, Bare

\* What is taken off ends at the last word that is no suffix, or at the first word.
LEMMA TrimmedIs ==
    ASSUME NEW W, NEW words \in Seq(W)
    PROVE  \/ Len(words) = 0 /\ Trimmed(words) = << >>
           \/ \E m \in 1 .. Len(words) :
                  /\ m = Max(Bare(words) \union {1}) /\ Trimmed(words) = SubSeq(words, 1, m)
                  /\ Bare(words) \subseteq 1 .. m
  <1> DEFINE ends == Bare(words) \union {1}
             m == Max(ends)
  <1>1. DOMAIN words = 1 .. Len(words) /\ Len(words) \in Nat
    BY LenProperties
  <1>2. ends # {} /\ ends \subseteq 1 .. Len(words) + 1 /\ (Len(words) # 0 => ends \subseteq 1 .. Len(words))
    BY <1>1 DEF Bare
  <1>3. 1 \in Int /\ Len(words) + 1 \in Int
    BY <1>1
  <1> HIDE DEF ends
  <1>4. m \in ends /\ \A x \in ends : x <= m
    BY <1>2, <1>3, MinMaxIs, Zenon
  <1> HIDE DEF m
  <1> DEFINE L == Len(words)
  <1>5. m \in Nat /\ m >= 1
    BY <1>1, <1>2, <1>4
  <1>6. /\ Min({L, m}) \in {L, m} /\ Min({L, m}) <= L /\ Min({L, m}) <= m
    <2> DEFINE S == {L, m}
               b == L + m
    <2>1. S # {} /\ S \subseteq 0 .. b /\ 0 \in Int /\ b \in Int
      BY <1>1, <1>5
    <2> HIDE DEF b
    <2>2. Min(S) \in S /\ \A x \in S : Min(S) <= x
      <3> HIDE DEF S
      <3>1. QED
        BY <2>1, MinMaxIs, Zenon
    <2>3. QED
      BY <2>2
  <1>7. Trimmed(words) = SubSeq(words, 1, Min({L, m}))
    BY DEF Trimmed, m, ends
  <1>8. CASE L = 0
    <2>1. Min({L, m}) = 0
      BY <1>5, <1>6, <1>8
    <2>2. SubSeq(words, 1, 0) = << >>
      OBVIOUS
    <2>3. QED
      BY <1>7, <1>8, <2>1, <2>2
  <1>9. CASE L # 0
    <2>1. m \in 1 .. L
      BY <1>2, <1>4, <1>9
    <2>2. Min({L, m}) = m
      BY <1>1, <1>5, <1>6, <2>1
    <2>3. Bare(words) \subseteq 1 .. m
      <3>1. \A x \in Bare(words) : x \in 1 .. L /\ x \in ends
        BY <1>2, <1>9 DEF ends
      <3>2. QED
        BY <1>1, <1>4, <1>5, <3>1
    <2>4. QED
      BY <1>7, <2>1, <2>2, <2>3, Zenon DEF m, ends
  <1>10. QED
    BY <1>8, <1>9, Zenon

\* To trim again, or with another suffix, is to trim.
LEMMA TrimmedStays ==
    ASSUME NEW W, NEW words \in Seq(W)
    PROVE  Trimmed(words) \in Seq(W) /\ Trimmed(Trimmed(words)) = Trimmed(words)
  <1>0. DOMAIN words = 1 .. Len(words) /\ Len(words) \in Nat
    BY LenProperties
  <1>1. CASE Len(words) = 0 /\ Trimmed(words) = << >>
    <2>1. << >> \in Seq(W) /\ Len(<< >>) = 0
      OBVIOUS
    <2> DEFINE none == << >>
    <2> HIDE DEF none
    <2>2. none \in Seq(W) /\ Len(none) = 0 /\ none = << >>
      BY <2>1 DEF none
    <2>3. 1 .. Len(none) = {}
      BY <2>2
    <2>4. Trimmed(none) = << >>
      BY <2>2, <2>3, TrimmedIs, Zenon
    <2>5. QED
      BY <1>1, <2>2, <2>4
  <1>2. CASE \E m \in 1 .. Len(words) :
                 /\ m = Max(Bare(words) \union {1}) /\ Trimmed(words) = SubSeq(words, 1, m)
                 /\ Bare(words) \subseteq 1 .. m
    <2>1. PICK m \in 1 .. Len(words) :
                 /\ m = Max(Bare(words) \union {1}) /\ Trimmed(words) = SubSeq(words, 1, m)
                 /\ Bare(words) \subseteq 1 .. m
      BY <1>2, Zenon
    <2> DEFINE t == SubSeq(words, 1, m)
    <2>2. m \in Nat /\ m >= 1 /\ m <= Len(words)
      BY <1>0
    <2>3. t \in Seq(W) /\ Len(t) = m /\ DOMAIN t = 1 .. m /\ \A n \in 1 .. m : t[n] = words[n]
      BY <1>0, <2>2
    <2>4. Bare(words) \subseteq 1 .. m /\ m = Max(Bare(words) \union {1})
      BY <2>1, Zenon
    <2> HIDE DEF t
    <2>5. Bare(t) = Bare(words)
      <3>1. \A n \in 1 .. m : t[n] \notin CompanySuffix <=> words[n] \notin CompanySuffix
        BY <2>3
      <3>2. Bare(t) = {n \in 1 .. m : words[n] \notin CompanySuffix}
        BY <2>3, <3>1 DEF Bare
      <3>3. 1 .. m \subseteq DOMAIN words
        BY <1>0, <2>2
      <3>4. QED
        BY <2>4, <3>2, <3>3 DEF Bare
    <2>6. Trimmed(t) = SubSeq(t, 1, m)
      <3>1. Len(t) # 0
        BY <2>3, <2>2
      <3>2. Trimmed(t) = SubSeq(t, 1, Max(Bare(t) \union {1}))
        BY <2>3, <3>1, TrimmedIs, Zenon
      <3>3. QED
        BY <2>5, <2>4, <3>2
    <2>7. SubSeq(t, 1, m) = t
      <3>1. /\ SubSeq(t, 1, m) \in Seq(W) /\ Len(SubSeq(t, 1, m)) = m
            /\ \A n \in 1 .. m : SubSeq(t, 1, m)[n] = t[n]
        BY <2>3, <2>2
      <3>2. QED
        BY <2>3, <3>1, SeqEqual
    <2>8. Trimmed(words) = t
      BY <2>1 DEF t
    <2>9. QED
      BY <2>3, <2>6, <2>7, <2>8
  <1>3. QED
    BY <1>1, <1>2, TrimmedIs, Zenon

LEMMA SuffixIsTrimmed ==
    ASSUME NEW W, NEW words \in Seq(W), NEW suffix \in CompanySuffix, Trimmed(words) # << >>
    PROVE  Trimmed(words \o <<suffix>>) = Trimmed(words)
  <1>0. DOMAIN words = 1 .. Len(words) /\ Len(words) \in Nat
    BY LenProperties
  <1>1. PICK m \in 1 .. Len(words) :
                 /\ m = Max(Bare(words) \union {1}) /\ Trimmed(words) = SubSeq(words, 1, m)
    BY TrimmedIs, Zenon
  <1> DEFINE more == words \o <<suffix>>
             U == W \union {suffix}
  <1>2. /\ more \in Seq(U) /\ Len(more) = Len(words) + 1 /\ DOMAIN more = 1 .. Len(words) + 1
        /\ more[Len(words) + 1] = suffix /\ \A n \in 1 .. Len(words) : more[n] = words[n]
    <2>1. words \in Seq(U) /\ <<suffix>> \in Seq(U)
      OBVIOUS
    <2>2. QED
      BY <1>0, <2>1
  <1> HIDE DEF more
  <1>3. Bare(more) = Bare(words)
    BY <1>0, <1>2 DEF Bare
  <1>4. Trimmed(more) = SubSeq(more, 1, m)
    <2>1. Len(more) # 0
      BY <1>0, <1>2
    <2>2. Trimmed(more) = SubSeq(more, 1, Max(Bare(more) \union {1}))
      BY <1>2, <2>1, TrimmedIs
    <2>3. QED
      BY <1>1, <1>3, <2>2
  <1>5. m \in Nat /\ m >= 1 /\ m <= Len(words)
    BY <1>0
  <1>6. SubSeq(more, 1, m) = SubSeq(words, 1, m)
    <2>1. /\ SubSeq(more, 1, m) \in Seq(U) /\ Len(SubSeq(more, 1, m)) = m
          /\ \A n \in 1 .. m : SubSeq(more, 1, m)[n] = words[n]
      BY <1>0, <1>2, <1>5
    <2>2. /\ SubSeq(words, 1, m) \in Seq(U) /\ Len(SubSeq(words, 1, m)) = m
          /\ \A n \in 1 .. m : SubSeq(words, 1, m)[n] = words[n]
      BY <1>0, <1>5
    <2>3. QED
      BY <2>1, <2>2, SeqEqual
  <1>7. QED
    BY <1>1, <1>4, <1>6, Zenon DEF more

LEMMA CompanyStays ==
    ASSUME NEW name, Listing(name),
           \A t \in ToSet(name) : Listing(Split(Casefold(t)))
                                 /\ \A w \in ToSet(Split(Casefold(t))) : Word(w)
    PROVE  Normal!NormalizeCompany(Normal!NormalizeCompany(name)) = Normal!NormalizeCompany(name)
  <1> DEFINE words == Normal!NormalizeTitle(name)
  <1>1. PICK W : (\A w \in W : Word(w)) /\ words \in Seq(W)
    BY TitleWords, Zenon
  <1> HIDE DEF words
  <1>2. Trimmed(words) \in Seq(W) /\ Trimmed(Trimmed(words)) = Trimmed(words)
    BY <1>1, TrimmedStays
  <1>3. Normal!NormalizeTitle(Trimmed(words)) = Trimmed(words)
    BY <1>1, <1>2, WordsStay
  <1>4. Normal!NormalizeCompany(name) = Trimmed(words)
    BY CompanyIs DEF words
  <1>5. Normal!NormalizeCompany(Trimmed(words)) = Trimmed(Normal!NormalizeTitle(Trimmed(words)))
    BY CompanyIs
  <1>6. QED
    BY <1>2, <1>3, <1>4, <1>5

\* One legal suffix more is no other company.
LEMMA SuffixIsNoName ==
    ASSUME NEW name, Listing(name),
           \A t \in ToSet(name) : Listing(Split(Casefold(t)))
                                 /\ \A w \in ToSet(Split(Casefold(t))) : Word(w),
           Split(Casefold("Ltd.")) = <<"ltd">>, "ltd" \in CompanySuffix,
           Normal!NormalizeCompany(name) # << >>
    PROVE  Normal!NormalizeCompany(name \o <<"Ltd.">>) = Normal!NormalizeCompany(name)
  <1> DEFINE lists == [n \in DOMAIN name |-> Split(Normal!Folded(name)[n])]
             more == name \o <<"Ltd.">>
             all == [n \in DOMAIN more |-> Split(Normal!Folded(more)[n])]
             words == Normal!NormalizeTitle(name)
  <1>1. PICK W : (\A w \in W : Word(w)) /\ lists \in Seq(Seq(W)) /\ words \in Seq(W)
    BY TitleWords, Zenon
  <1> DEFINE U == W \union {"ltd"}
             T == ToSet(name) \union {"Ltd."}
  <1>2. name \in Seq(T) /\ <<"Ltd.">> \in Seq(T)
    <2>1. ToSet(name) \subseteq T /\ "Ltd." \in T
      OBVIOUS
    <2> HIDE DEF T
    <2>2. QED
      BY <2>1 DEF Listing
  <1>3. DOMAIN name = 1 .. Len(name) /\ Len(name) \in Nat
    BY LenProperties DEF Listing
  <1>4. /\ DOMAIN more = 1 .. Len(name) + 1 /\ more[Len(name) + 1] = "Ltd."
        /\ \A n \in 1 .. Len(name) : more[n] = name[n]
    <2> HIDE DEF T
    <2>1. QED
      BY <1>2, <1>3
  <1> HIDE DEF more
  <1>5. /\ DOMAIN all = 1 .. Len(name) + 1 /\ all[Len(name) + 1] = <<"ltd">>
        /\ \A n \in 1 .. Len(name) : all[n] = Split(Casefold(name[n]))
    BY <1>3, <1>4 DEF Normal!Folded
  <1>6. DOMAIN lists = 1 .. Len(name) /\ \A n \in 1 .. Len(name) : lists[n] = Split(Casefold(name[n]))
    BY <1>3 DEF Normal!Folded
  <1>7. lists \in Seq(Seq(U)) /\ <<"ltd">> \in Seq(U) /\ words \in Seq(U) /\ Len(lists) = Len(name)
    <2>1. Seq(W) \subseteq Seq(U)
      OBVIOUS
    <2>2. Len(lists) = Len(name) /\ \A n \in 1 .. Len(name) : lists[n] \in Seq(W)
      <3> HIDE DEF lists
      <3>1. DOMAIN lists = 1 .. Len(lists) /\ Len(lists) \in Nat
        BY <1>1, LenProperties
      <3>2. Len(lists) = Len(name)
        BY <1>3, <1>6, <3>1
      <3>3. QED
        BY <1>1, <3>2, ElementOfSeq
    <2>3. lists \in [1 .. Len(name) -> Seq(U)]
      BY <1>3, <2>1, <2>2
    <2>4. QED
      BY <1>1, <1>3, <2>1, <2>2, <2>3
  <1>8. Normal!NormalizeTitle(more) = FlattenSeq(all)
    BY NormalFlatten DEF Normal!NormalizeTitle, Normal!Words
  <1>9. words = FlattenSeq(lists)
    BY NormalFlatten DEF Normal!NormalizeTitle, Normal!Words
  <1> HIDE DEF all, lists, words, U
  <1>10. all = Append(lists, <<"ltd">>)
    <2>1. DOMAIN Append(lists, <<"ltd">>) = 1 .. Len(name) + 1
          /\ Append(lists, <<"ltd">>)[Len(name) + 1] = <<"ltd">>
          /\ \A n \in 1 .. Len(name) : Append(lists, <<"ltd">>)[n] = lists[n]
          /\ Append(lists, <<"ltd">>) \in Seq(Seq(U))
      BY <1>3, <1>7, AppendProperties
    <2>2. \A n \in 1 .. Len(name) + 1 : all[n] = Append(lists, <<"ltd">>)[n]
      BY <1>3, <1>5, <1>6, <2>1
    <2>3. all = [n \in 1 .. Len(name) + 1 |-> all[n]]
      BY <1>5 DEF all
    <2>4. Append(lists, <<"ltd">>) = [n \in 1 .. Len(name) + 1 |-> Append(lists, <<"ltd">>)[n]]
      BY <2>1
    <2>5. QED
      BY <2>2, <2>3, <2>4, Zenon
  <1>11. FlattenSeq(Append(lists, <<"ltd">>)) = FlattenSeq(lists) \o <<"ltd">>
    BY <1>7, FlattenAppend, Zenon
  <1>12. Normal!NormalizeTitle(more) = words \o <<"ltd">>
    BY <1>8, <1>9, <1>10, <1>11, Zenon
  <1>13. Trimmed(words) # << >>
    BY CompanyIs DEF words
  <1>14. Trimmed(words \o <<"ltd">>) = Trimmed(words)
    BY <1>7, <1>13, SuffixIsTrimmed
  <1>15. Normal!NormalizeCompany(more) = Trimmed(Normal!NormalizeTitle(more))
         /\ Normal!NormalizeCompany(name) = Trimmed(words)
    BY CompanyIs DEF words
  <1>16. QED
    BY <1>12, <1>14, <1>15, Zenon DEF more

-------------------------------------------------------------------------------
(* Places and URLs *)

LEMMA LocationStays ==
    ASSUME NEW place,
           place = Unknown
           \/ (Listing(place) /\ \A t \in ToSet(place) : Casefold(Casefold(t)) = Casefold(t))
    PROVE  Normal!NormalizeLocation(Normal!NormalizeLocation(place)) = Normal!NormalizeLocation(place)
  <1>1. CASE place = Unknown \/ place = << >>
    BY <1>1 DEF Normal!NormalizeLocation
  <1>2. CASE place # Unknown /\ place # << >>
    <2> DEFINE folded == Normal!Folded(place)
    <2>1. \A n \in DOMAIN place : place[n] \in ToSet(place)
      BY DEF ToSet
    <2>2. Normal!Folded(folded) = folded
      BY <1>2, <2>1 DEF Normal!Folded
    <2>3. Normal!NormalizeLocation(place) = folded
      BY <1>2 DEF Normal!NormalizeLocation
    <2> HIDE DEF folded
    <2>4. Normal!NormalizeLocation(folded) \in {Unknown, folded}
      BY <2>2 DEF Normal!NormalizeLocation
    <2>5. folded # << >>
      <3>1. DOMAIN place = 1 .. Len(place) /\ Len(place) \in Nat /\ Len(place) # 0
        BY <1>2, LenProperties, EmptySeq DEF Listing
      <3>2. DOMAIN folded = DOMAIN place
        BY DEF folded, Normal!Folded
      <3>3. 1 \in DOMAIN folded
        BY <3>1, <3>2
      <3>4. QED
        BY <3>3
    <2>6. QED
      BY <2>2, <2>3, <2>5 DEF Normal!NormalizeLocation
  <1>3. QED
    BY <1>1, <1>2

LEMMA Literals == {Normal!Blank, "top", "x", "utm_source"} \subseteq STRING
  BY KeysAssumption

Ends(path) == {n \in 1 .. Len(path) : path[n] # Normal!Blank} \union {0}

LEMMA WithoutSlashIs ==
    ASSUME NEW T, NEW path \in Seq(T)
    PROVE  \E m \in 0 .. Len(path) :
               /\ m = Max(Ends(path)) /\ Ends(path) \subseteq 0 .. m
               /\ Normal!WithoutSlash(path) = SubSeq(path, 1, m)
  <1>1. Len(path) \in Nat
    BY LenProperties
  <1>2. Ends(path) # {} /\ Ends(path) \subseteq 0 .. Len(path) /\ 0 \in Int /\ Len(path) \in Int
    <2>1. 0 \in Ends(path)
      BY DEF Ends
    <2>2. ASSUME NEW x \in Ends(path) PROVE x \in 0 .. Len(path)
      <3>1. x \in 1 .. Len(path) \/ x = 0
        BY DEF Ends
      <3>2. QED
        BY <1>1, <3>1
    <2>3. QED
      BY <1>1, <2>1, <2>2
  <1>3. Max(Ends(path)) \in Ends(path) /\ \A x \in Ends(path) : x <= Max(Ends(path))
    BY <1>2, MinMaxIs
  <1>4. Normal!WithoutSlash(path) = SubSeq(path, 1, Max(Ends(path)))
    BY NormalMinMax, Zenon DEF Normal!WithoutSlash, Ends
  <1> DEFINE m == Max(Ends(path))
  <1> HIDE DEF m
  <1>5. m \in 0 .. Len(path) /\ \A x \in Ends(path) : x \in 0 .. Len(path) /\ x <= m
    BY <1>2, <1>3 DEF m
  <1>6. Ends(path) \subseteq 0 .. m
    BY <1>1, <1>5
  <1>7. QED
    BY <1>4, <1>5, <1>6, Zenon DEF m

\* The path is the same with a slash at its end, and once it has none.
LEMMA PathStays ==
    ASSUME NEW T, NEW path \in Seq(T), Normal!Blank \in T
    PROVE  /\ Normal!WithoutSlash(path) \in Seq(T)
           /\ Normal!WithoutSlash(Normal!WithoutSlash(path)) = Normal!WithoutSlash(path)
           /\ Normal!WithoutSlash(path \o <<Normal!Blank>>) = Normal!WithoutSlash(path)
  <1>1. PICK m \in 0 .. Len(path) :
            /\ m = Max(Ends(path)) /\ Ends(path) \subseteq 0 .. m
            /\ Normal!WithoutSlash(path) = SubSeq(path, 1, m)
    BY WithoutSlashIs
  <1>2. Len(path) \in Nat /\ m \in Nat /\ m <= Len(path)
    BY LenProperties
  <1> DEFINE t == SubSeq(path, 1, m)
             more == path \o <<Normal!Blank>>
  <1>3. t \in Seq(T) /\ Len(t) = m /\ \A n \in 1 .. m : t[n] = path[n]
    BY <1>2
  <1>4. /\ more \in Seq(T) /\ Len(more) = Len(path) + 1 /\ more[Len(path) + 1] = Normal!Blank
        /\ \A n \in 1 .. Len(path) : more[n] = path[n]
    <2> DEFINE end == Normal!Blank
    <2>1. end \in T
      OBVIOUS
    <2> HIDE DEF end
    <2>2. <<end>> \in Seq(T)
      BY <2>1
    <2>3. /\ path \o <<end>> \in Seq(T) /\ Len(path \o <<end>>) = Len(path) + 1
          /\ (path \o <<end>>)[Len(path) + 1] = end
          /\ \A n \in 1 .. Len(path) : (path \o <<end>>)[n] = path[n]
      BY <1>2, <2>2
    <2>4. QED
      BY <2>3 DEF end
  <1> HIDE DEF t, more
  <1>5. Ends(t) = Ends(path)
    <2>1. Ends(t) = {n \in 1 .. m : path[n] # Normal!Blank} \union {0}
      BY <1>3 DEF Ends
    <2>2. ASSUME NEW x \in Ends(path), x # 0 PROVE x \in 1 .. m /\ path[x] # Normal!Blank
      <3>1. x \in 1 .. Len(path) /\ path[x] # Normal!Blank
        BY <2>2 DEF Ends
      <3>2. x \in 0 .. m
        BY <1>1
      <3>3. QED
        BY <1>2, <3>1, <3>2
    <2>3. 1 .. m \subseteq 1 .. Len(path)
      BY <1>2
    <2>4. QED
      BY <2>1, <2>2, <2>3 DEF Ends
  <1>6. Ends(more) = Ends(path)
    <2>1. \A n \in 1 .. Len(path) + 1 : n \in 1 .. Len(path) \/ n = Len(path) + 1
      BY <1>2
    <2>2. 1 .. Len(path) \subseteq 1 .. Len(path) + 1
      BY <1>2
    <2>3. QED
      BY <1>4, <2>1, <2>2, Zenon DEF Ends
  <1>7. Normal!WithoutSlash(t) = SubSeq(t, 1, m)
    BY <1>1, <1>3, <1>5, WithoutSlashIs
  <1>8. SubSeq(t, 1, m) = t
    <2>1. /\ SubSeq(t, 1, m) \in Seq(T) /\ Len(SubSeq(t, 1, m)) = m
          /\ \A n \in 1 .. m : SubSeq(t, 1, m)[n] = t[n]
      BY <1>2, <1>3
    <2>2. QED
      BY <1>3, <2>1, SeqEqual
  <1>9. Normal!WithoutSlash(more) = SubSeq(more, 1, m)
    BY <1>1, <1>4, <1>6, WithoutSlashIs
  <1>10. SubSeq(more, 1, m) = t
    <2>1. /\ SubSeq(more, 1, m) \in Seq(T) /\ Len(SubSeq(more, 1, m)) = m
          /\ \A n \in 1 .. m : SubSeq(more, 1, m)[n] = more[n]
      <3>1. m <= Len(more)
        BY <1>2, <1>4
      <3>2. QED
        BY <1>2, <1>4, <3>1
    <2>2. ASSUME NEW n \in 1 .. m PROVE more[n] = t[n]
      <3>1. n \in 1 .. Len(path)
        BY <1>2
      <3>2. QED
        BY <1>3, <1>4, <3>1
    <2>3. QED
      BY <1>3, <2>1, <2>2, SeqEqual
  <1>11. Normal!WithoutSlash(path) = t
    BY <1>1 DEF t
  <1>12. QED
    BY <1>3, <1>7, <1>8, <1>9, <1>10, <1>11 DEF more

Plain(query) == {n \in DOMAIN query : Casefold(query[n][1]) \notin Tracking}
Untracked(query) == Kept(query, Plain(query))

\* What does not track stays, what does is gone.
LEMMA QueryStays ==
    ASSUME NEW U, NEW query \in Seq(Seq(U)), {"utm_source", "x"} \subseteq U,
           Casefold("utm_source") \in Tracking
    PROVE  /\ Untracked(query) \in Seq(Seq(U))
           /\ Untracked(Untracked(query)) = Untracked(query)
           /\ Untracked(<<<<"utm_source", "x">>>> \o query) = Untracked(query)
  <1> DEFINE T == Seq(U)
             first == <<"utm_source", "x">>
             kept == Untracked(query)
             all == <<first>> \o query
             places == Plain(query)
  <1>1. first \in T /\ first[1] = "utm_source"
    <2>1. "utm_source" \in U /\ "x" \in U
      OBVIOUS
    <2>2. QED
      BY <2>1
  <1>2. DOMAIN query = 1 .. Len(query) /\ Len(query) \in Nat /\ query \in Seq(T)
    BY LenProperties
  <1>3. places \in SUBSET DOMAIN query
    BY DEF Plain
  <1> HIDE DEF first, T, places
  <1>4. /\ kept \in Seq(T) /\ Len(kept) = Cardinality(places)
        /\ \A k \in 1 .. Cardinality(places) : \E x \in places : kept[k] = query[x]
    BY <1>2, <1>3, PickedFacts, ZenonT(30) DEF Untracked, places
  <1> HIDE DEF kept
  <1>5. Plain(kept) = DOMAIN kept
    <2>1. DOMAIN kept = 1 .. Cardinality(places)
      BY <1>4, LenProperties
    <2>2. \A n \in DOMAIN kept : Casefold(kept[n][1]) \notin Tracking
      BY <1>4, <2>1 DEF places, Plain
    <2>3. QED
      BY <2>2, Zenon DEF Plain
  <1>6. Untracked(kept) = kept
    BY <1>4, <1>5, AllKept DEF Untracked
  <1>7. Kept(all, {x + 1 : x \in places}) = Kept(query, places)
    <2> HIDE DEF all
    <2>1. Kept(<<first>> \o query, {x + 1 : x \in places}) = Kept(query, places)
      BY <1>1, <1>2, <1>3, KeptAfter
    <2>2. QED
      BY <2>1 DEF all
  <1>8. Plain(all) = {x + 1 : x \in places}
    <2>1. /\ DOMAIN all = 1 .. Len(query) + 1 /\ all[1] = first
          /\ \A n \in 1 .. Len(query) : all[n + 1] = query[n]
      <3>1. <<first>> \in Seq(T) /\ Len(<<first>>) = 1 /\ <<first>>[1] = first
        BY <1>1
      <3>2. /\ all \in Seq(T) /\ Len(all) = 1 + Len(query)
            /\ \A n \in 1 .. Len(all) : all[n] = IF n <= Len(<<first>>) THEN <<first>>[n]
                                                 ELSE query[n - Len(<<first>>)]
        BY <1>2, <3>1, ConcatProperties
      <3>3. DOMAIN all = 1 .. Len(all)
        BY <3>2, LenProperties
      <3> HIDE DEF all
      <3>4. ASSUME NEW n \in 1 .. Len(query) PROVE all[n + 1] = query[n]
        <4>1. n + 1 \in 1 .. Len(all) /\ ~(n + 1 <= 1) /\ (n + 1) - 1 = n
          BY <1>2, <3>2
        <4>2. QED
          BY <3>1, <3>2, <4>1
      <3>5. all[1] = first
        <4>1. 1 \in 1 .. Len(all)
          BY <1>2, <3>2
        <4>2. QED
          BY <3>1, <3>2, <4>1
      <3>6. QED
        BY <1>2, <3>2, <3>3, <3>4, <3>5
    <2> HIDE DEF all
    <2>2. Casefold(all[1][1]) \in Tracking
      BY <1>1, <2>1
    <2>3. ASSUME NEW n \in 1 .. Len(query) + 1
          PROVE  Casefold(all[n][1]) \notin Tracking <=> \E x \in places : n = x + 1
      <3>1. CASE n = 1
        BY <1>2, <1>3, <2>2, <3>1
      <3>2. CASE n # 1
        <4>1. n - 1 \in 1 .. Len(query) /\ n = (n - 1) + 1
          BY <1>2, <3>2
        <4>2. all[n] = query[n - 1]
          BY <2>1, <4>1, Zenon
        <4>3. Casefold(all[n][1]) \notin Tracking <=> n - 1 \in places
          BY <1>2, <4>1, <4>2 DEF places, Plain
        <4>4. ASSUME NEW x \in places, n = x + 1 PROVE n - 1 \in places
          <5>1. x \in Int
            BY <1>2, <1>3
          <5>2. n - 1 = x
            BY <4>4, <5>1
          <5>3. QED
            BY <5>2
        <4>5. n - 1 \in places => \E x \in places : n = x + 1
          BY <4>1
        <4>6. QED
          BY <4>3, <4>4, <4>5, Zenon
      <3>3. QED
        BY <3>1, <3>2
    <2>4. \A x \in places : x + 1 \in 1 .. Len(query) + 1
      BY <1>2, <1>3
    <2>5. Plain(all) = {n \in 1 .. Len(query) + 1 : Casefold(all[n][1]) \notin Tracking}
      BY <2>1 DEF Plain
    <2>6. QED
      BY <2>3, <2>4, <2>5
  <1>9. Untracked(all) = Untracked(query)
    BY <1>7, <1>8, Zenon DEF Untracked, places
  <1>10. QED
    BY <1>4, <1>6, <1>9 DEF kept, all, first, T

LEMMA QueryIs ==
    \A query : Normal!KeptIf(query, LAMBDA param : Casefold(param[1]) \notin Tracking)
                   = Untracked(query)
  BY NormalKept DEF Normal!KeptIf, Untracked, Plain

Url == [scheme : STRING, host : STRING, path : Seq(STRING),
        query : Seq(Seq(STRING)), fragment : STRING]

\* A scheme or a host: to fold it again changes nothing, nor do capitals.
Folding(text) ==
    /\ Casefold(text) \in STRING /\ Upper(text) \in STRING
    /\ Casefold(Casefold(text)) = Casefold(text) /\ Casefold(Upper(text)) = Casefold(text)
    /\ text = Normal!Blank <=> Casefold(text) = Normal!Blank
    /\ text = Normal!Blank <=> Upper(text) = Normal!Blank

LEMMA BlankIsNoScheme == Normal!Blank \notin {"http", "https"}
  BY Zenon DEF Normal!Blank

Disguised(url) ==
    [scheme |-> Upper(url.scheme), host |-> Upper(url.host),
     path |-> url.path \o <<Normal!Blank>>,
     query |-> <<<<"utm_source", "x">>>> \o url.query, fragment |-> "top"]

Canonical(url) ==
    [scheme |-> Casefold(url.scheme), host |-> Casefold(url.host),
     path |-> Normal!WithoutSlash(url.path), query |-> Untracked(url.query),
     fragment |-> Normal!Blank]

LEMMA CanonicalIs ==
    ASSUME NEW url, url # Unknown, Normal!IsWebScheme(url.scheme), url.scheme # Normal!Blank
    PROVE  Normal!CanonicalizeUrl(url) = IF url.host = Normal!Blank THEN url ELSE Canonical(url)
  <1>1. Normal!KeptIf(url.query, LAMBDA param : Casefold(param[1]) \notin Tracking)
            = Untracked(url.query)
    BY QueryIs, Zenon
  <1>2. QED
    BY <1>1 DEF Normal!CanonicalizeUrl, Canonical

\* A URL once canonical stays what it is, and one in disguise becomes the same.
LEMMA UrlStays ==
    ASSUME NEW url \in Url, Unknown \notin Url, Folding(url.scheme), Folding(url.host),
           Casefold("utm_source") \in Tracking
    PROVE  LET known == Normal!CanonicalizeUrl(url)
           IN  /\ known # Unknown => Normal!CanonicalizeUrl(known) = known
               /\ Normal!IsWebUrl(url) => /\ Normal!IsWebUrl(known)
                                          /\ Normal!CanonicalizeUrl(Disguised(url)) = known
  <1> DEFINE known == Normal!CanonicalizeUrl(url)
             web == Normal!IsWebScheme(url.scheme) /\ url.host # Normal!Blank
             canonical == Canonical(url)
             disguised == Disguised(url)
  <1>1. /\ url # Unknown /\ url.scheme \in STRING /\ url.host \in STRING
        /\ url.path \in Seq(STRING) /\ url.query \in Seq(Seq(STRING))
    BY DEF Url
  <1>2. /\ Normal!WithoutSlash(url.path) \in Seq(STRING)
        /\ Normal!WithoutSlash(Normal!WithoutSlash(url.path)) = Normal!WithoutSlash(url.path)
        /\ Normal!WithoutSlash(url.path \o <<Normal!Blank>>) = Normal!WithoutSlash(url.path)
    <2>1. Normal!Blank \in STRING
      BY Literals
    <2>2. QED
      BY <1>1, <2>1, PathStays, Zenon
  <1>3. /\ Untracked(url.query) \in Seq(Seq(STRING))
        /\ Untracked(Untracked(url.query)) = Untracked(url.query)
        /\ Untracked(<<<<"utm_source", "x">>>> \o url.query) = Untracked(url.query)
    <2>1. {"utm_source", "x"} \subseteq STRING
      BY Literals
    <2>2. QED
      BY <1>1, <2>1, QueryStays
  <1>4. CASE ~web
    <2>1. ~Normal!IsWebUrl(url)
      BY <1>4 DEF Normal!IsWebUrl
    <2>2. known = Unknown \/ known = url
      BY <1>1, <1>4 DEF Normal!CanonicalizeUrl
    <2>3. QED
      BY <2>1, <2>2
  <1>5. CASE web
    <2>1. Casefold(url.scheme) \in {"http", "https"} /\ url.scheme # Normal!Blank
      BY <1>5, BlankIsNoScheme DEF Normal!IsWebScheme, Folding
    <2>2. known = canonical
      BY <1>1, <1>5, <2>1, CanonicalIs
    <2>3. canonical \in Url
      BY <1>2, <1>3, Literals DEF Canonical, Url, Folding
    <2>4. /\ canonical.scheme = Casefold(url.scheme) /\ canonical.host = Casefold(url.host)
          /\ canonical.path = Normal!WithoutSlash(url.path)
          /\ canonical.query = Untracked(url.query)
      BY DEF Canonical
    <2>5. /\ canonical # Unknown /\ Normal!IsWebScheme(canonical.scheme)
          /\ canonical.scheme # Normal!Blank /\ canonical.host # Normal!Blank
      BY <1>5, <2>1, <2>3, <2>4, BlankIsNoScheme DEF Normal!IsWebScheme, Folding
    <2>6. Canonical(canonical) = canonical
      <3>1. /\ Casefold(canonical.scheme) = Casefold(url.scheme)
            /\ Casefold(canonical.host) = Casefold(url.host)
            /\ Normal!WithoutSlash(canonical.path) = Normal!WithoutSlash(url.path)
            /\ Untracked(canonical.query) = Untracked(url.query)
        BY <1>2, <1>3, <2>4 DEF Folding
      <3>2. QED
        BY <3>1 DEF Canonical
    <2>7. /\ disguised.scheme = Upper(url.scheme) /\ disguised.host = Upper(url.host)
          /\ disguised.path = url.path \o <<Normal!Blank>>
          /\ disguised.query = <<<<"utm_source", "x">>>> \o url.query
      BY DEF Disguised
    <2>8. disguised # Unknown
      <3>1. url.path \o <<Normal!Blank>> \in Seq(STRING)
        <4>1. Normal!Blank \in STRING
          BY Literals
        <4>2. QED
          BY <1>1, <4>1
      <3>2. <<<<"utm_source", "x">>>> \o url.query \in Seq(Seq(STRING))
        <4>1. "utm_source" \in STRING /\ "x" \in STRING
          BY Literals
        <4>2. <<"utm_source", "x">> \in Seq(STRING)
          BY <4>1
        <4>3. <<<<"utm_source", "x">>>> \in Seq(Seq(STRING))
          BY <4>2
        <4>4. QED
          BY <1>1, <4>3
      <3>3. disguised \in Url
        BY <3>1, <3>2, Literals DEF Disguised, Url, Folding
      <3>4. QED
        BY <3>3
    <2>9. /\ Normal!IsWebScheme(disguised.scheme) /\ disguised.scheme # Normal!Blank
          /\ disguised.host # Normal!Blank
      BY <1>5, <2>1, <2>7 DEF Normal!IsWebScheme, Folding
    <2>10. Canonical(disguised) = canonical
      <3>1. /\ Casefold(disguised.scheme) = Casefold(url.scheme)
            /\ Casefold(disguised.host) = Casefold(url.host)
            /\ Normal!WithoutSlash(disguised.path) = Normal!WithoutSlash(url.path)
            /\ Untracked(disguised.query) = Untracked(url.query)
        BY <1>2, <1>3, <2>7 DEF Folding
      <3>2. QED
        BY <3>1 DEF Canonical
    <2> HIDE DEF canonical, disguised, known
    <2>11. Normal!CanonicalizeUrl(canonical) = canonical
      BY <2>5, <2>6, CanonicalIs
    <2>12. Normal!CanonicalizeUrl(disguised) = canonical
      BY <2>8, <2>9, <2>10, CanonicalIs
    <2>13. Normal!IsWebUrl(canonical)
      BY <2>5 DEF Normal!IsWebUrl
    <2>14. QED
      BY <2>2, <2>11, <2>12, <2>13 DEF known, disguised
  <1>6. QED
    BY <1>4, <1>5

-------------------------------------------------------------------------------
(* The answer *)

KeysAnswer(k) ==
    LET title == Normal!NormalizeTitle(k.title)
        place == Normal!NormalizeLocation(k.place)
    IN  [title |-> title, skill |-> Normal!NormalizeSkill(k.skill), place |-> place,
         company |-> Normal!NormalizeCompany(k.company),
         url |-> Normal!CanonicalizeUrl(k.url),
         hash |-> Normal!ComputeContentHash(title, k.company, place, Unknown),
         type |-> Normal!MapEmploymentType(k.says)]

Keyed == part = "keys" => input \in KeysInput /\ output \in {Unknown, KeysAnswer(input)}

LEMMA KeyedKeeps ==
    ASSUME Keyed, [ServicesNext]_servicesVars
    PROVE  Keyed'
  <1>1. ASSUME part' = part, input' = input, output' = output
        PROVE  Keyed'
    BY <1>1 DEF Keyed
  <1>2. CASE \/ UNCHANGED servicesVars \/ DetectDuplicate \/ Throttle \/ CountRequests
    BY <1>1, <1>2 DEF servicesVars, callVars, DetectDuplicate, Throttle, CountRequests
  <1>3. CASE \/ RankFeed \/ BrowseJobs \/ ScoreJob \/ FetchSource \/ FilterJob \/ CompareSkills
             \/ BuildReport \/ AskModel
    <2>1. part' = part /\ part # "keys"
      BY <1>3, Zenon DEF RankFeed, BrowseJobs, ScoreJob, FetchSource, FilterJob, CompareSkills,
                  BuildReport, AskModel, Answers
    <2>2. QED
      BY <2>1 DEF Keyed
  <1>4. CASE NormalizeTexts
    <2>1. part' = part /\ part = "keys" /\ input' = input /\ output' = KeysAnswer(input)
      BY <1>4 DEF NormalizeTexts, Answers, KeysAnswer
    <2>2. QED
      BY <2>1 DEF Keyed
  <1>5. QED
    BY <1>2, <1>3, <1>4 DEF ServicesNext

\* What KeysAssumption says of one input.
LEMMA InputIsPlain ==
    ASSUME NEW k \in KeysInput
    PROVE  /\ Listing(k.title) /\ Listing(k.skill) /\ Listing(k.company)
           /\ \A t \in ToSet(k.title) \union ToSet(k.company) :
                  Listing(Split(Casefold(t))) /\ \A w \in ToSet(Split(Casefold(t))) : Word(w)
           /\ \A t \in ToSet(k.skill) :
                  Listing(SplitSkill(Casefold(t))) /\ \A w \in ToSet(SplitSkill(Casefold(t))) : SkillWord(w)
           /\ k.place = Unknown
              \/ (Listing(k.place) /\ \A t \in ToSet(k.place) : Casefold(Casefold(t)) = Casefold(t))
           /\ k.url = Unknown \/ (k.url \in Url /\ Folding(k.url.scheme) /\ Folding(k.url.host))
  BY KeysAssumption DEF Listing, Word, SkillWord, Url, Folding

LEMMA TextsArePlain ==
    /\ Unknown \notin Url
    /\ \A alias \in DOMAIN Alias :
           /\ Alias[alias] \notin DOMAIN Alias /\ Listing(Alias[alias])
           /\ \A w \in ToSet(Alias[alias]) : SkillWord(w)
    /\ Split(Casefold("Ltd.")) = <<"ltd">> /\ "ltd" \in CompanySuffix
    /\ Casefold("utm_source") \in Tracking
  BY KeysAssumption DEF Listing, SkillWord, Url

\* One thing has one key, for any texts, aliases, suffixes and tracking parameters:
\* to normalize a title, a skill, a place, a company, a hash or a link again changes
\* nothing, a company is the same with one more legal suffix, a link the same in
\* capitals, with a slash at its end, a fragment or a parameter that tracks
\* (normalization.py:52-172).
THEOREM KeysStableAlways == ServicesSpec => []KeysStable
  <1>1. ServicesInit => Keyed
    BY DEF ServicesInit, InputOf, Keyed
  <1>2. Keyed /\ [ServicesNext]_servicesVars => Keyed'
    BY KeyedKeeps
  <1>3. Keyed => KeysStable
    <2> SUFFICES ASSUME Keyed, Answered("keys") PROVE KeysStable
      BY DEF KeysStable
    <2> DEFINE k == input
    <2>1. k \in KeysInput /\ output = KeysAnswer(k)
      BY DEF Keyed, Answered
    <2>2. /\ output.title = Normal!NormalizeTitle(k.title)
          /\ output.skill = Normal!NormalizeSkill(k.skill)
          /\ output.place = Normal!NormalizeLocation(k.place)
          /\ output.company = Normal!NormalizeCompany(k.company)
          /\ output.url = Normal!CanonicalizeUrl(k.url)
          /\ output.hash = Normal!ComputeContentHash(output.title, k.company, output.place, Unknown)
      BY <2>1 DEF KeysAnswer
    <2>3. Normal!NormalizeTitle(output.title) = output.title
      <3>1. PICK W : (\A w \in W : Word(w)) /\ Normal!NormalizeTitle(k.title) \in Seq(W)
        BY <2>1, InputIsPlain, TitleWords, Zenon
      <3>2. QED
        BY <2>2, <3>1, WordsStay
    <2>4. Normal!NormalizeSkill(output.skill) = output.skill
      BY <2>1, <2>2, InputIsPlain, TextsArePlain, SkillStays
    <2>5. Normal!NormalizeLocation(output.place) = output.place
      BY <2>1, <2>2, InputIsPlain, LocationStays
    <2>6. Normal!NormalizeCompany(output.company) = output.company
      BY <2>1, <2>2, InputIsPlain, CompanyStays
    <2>7. output.company # << >> =>
              Normal!NormalizeCompany(k.company \o <<"Ltd.">>) = output.company
      BY <2>1, <2>2, InputIsPlain, TextsArePlain, SuffixIsNoName
    <2>8. Normal!ComputeContentHash(output.title, output.company, output.place, Unknown) = output.hash
      BY <2>2, <2>6 DEF Normal!ComputeContentHash
    <2>9. /\ output.url # Unknown => Normal!CanonicalizeUrl(output.url) = output.url
          /\ Normal!IsWebUrl(k.url) => /\ Normal!IsWebUrl(output.url)
                                       /\ Normal!CanonicalizeUrl(Disguised(k.url)) = output.url
      <3>1. CASE k.url = Unknown
        BY <2>2, <3>1 DEF Normal!CanonicalizeUrl, Normal!IsWebUrl
      <3>2. CASE k.url # Unknown
        BY <2>1, <2>2, <3>2, InputIsPlain, TextsArePlain, UrlStays
      <3>3. QED
        BY <3>1, <3>2
    <2>10. QED
      BY <2>3, <2>4, <2>5, <2>6, <2>7, <2>8, <2>9 DEF KeysStable, Disguised
  <1>4. QED
    BY <1>1, <1>2, <1>3, PTL DEF ServicesSpec

-------------------------------------------------------------------------------
(* What a source delivers *)

LEMMA SourceOps == /\ \A seq, at_ : Source!Kept(seq, at_) = Kept(seq, at_)
                   /\ \A S : Source!Min(S) = Min(S)
                   /\ \A s : Source!FlattenSeq(s) = FlattenSeq(s)
  BY DEF Source!Kept, Kept, Source!Cardinality, Cardinality, Source!Min, Min,
         Source!FlattenSeq, FlattenSeq

LEMMA KeptSet ==
    ASSUME NEW T, NEW seq \in Seq(T), NEW places \in SUBSET DOMAIN seq
    PROVE  ToSet(Kept(seq, places)) = {seq[x] : x \in places}
  <1> DEFINE kept == Kept(seq, places)
             c == Cardinality(places)
  <1>1. /\ kept \in Seq(T) /\ Len(kept) = c
        /\ \A k \in 1 .. c : \E x \in places : kept[k] = seq[x]
        /\ \A x \in places : Rank(places, x) \in 1 .. c /\ kept[Rank(places, x)] = seq[x]
    BY PickedFacts
  <1> HIDE DEF kept, c
  <1>2. DOMAIN kept = 1 .. c
    BY <1>1, LenProperties
  <1>3. ToSet(kept) = {kept[k] : k \in 1 .. c}
    BY <1>2 DEF ToSet
  <1>4. QED
    BY <1>1, <1>3 DEF kept

\* What fits of some postings more.
Fitting(found, more, limit) ==
    SubSeq(found \o more, 1, Min({limit, Len(found \o more)}))

LEMMA FittingIs ==
    ASSUME NEW T, NEW found \in Seq(T), NEW more \in Seq(T), NEW limit \in Nat
    PROVE  LET r == Fitting(found, more, limit)
           IN  /\ r \in Seq(T) /\ Len(r) <= limit /\ ToSet(r) \subseteq ToSet(found) \union ToSet(more)
               /\ Len(r) # limit => ToSet(found) \subseteq ToSet(r) /\ ToSet(more) \subseteq ToSet(r)
  <1> DEFINE all == found \o more
             L == Len(all)
             m == Min({limit, L})
             r == SubSeq(all, 1, m)
  <1>1. /\ all \in Seq(T) /\ L = Len(found) + Len(more) /\ L \in Nat
        /\ Len(found) \in Nat /\ Len(more) \in Nat
        /\ DOMAIN found = 1 .. Len(found) /\ DOMAIN more = 1 .. Len(more)
        /\ \A n \in 1 .. L : all[n] = IF n <= Len(found) THEN found[n] ELSE more[n - Len(found)]
    BY ConcatProperties, LenProperties
  <1> HIDE DEF all
  <1>2. m \in {limit, L} /\ m <= limit /\ m <= L /\ m \in Nat
    <2> DEFINE S == {limit, L}
               b == limit + L
    <2>1. S # {} /\ S \subseteq 0 .. b /\ 0 \in Int /\ b \in Int
      BY <1>1
    <2> HIDE DEF b, L
    <2>2. Min(S) \in S /\ \A x \in S : Min(S) <= x
      <3> HIDE DEF S
      <3>1. QED
        BY <2>1, MinMaxIs, Zenon
    <2>3. QED
      BY <1>1, <2>2
  <1> HIDE DEF m
  <1>3. r \in Seq(T) /\ Len(r) = m /\ DOMAIN r = 1 .. m /\ \A n \in 1 .. m : r[n] = all[n]
    BY <1>1, <1>2
  <1> HIDE DEF r, L
  <1>4. ToSet(r) \subseteq ToSet(found) \union ToSet(more)
    <2> SUFFICES ASSUME NEW n \in 1 .. m
                 PROVE  all[n] \in ToSet(found) \union ToSet(more)
      BY <1>3, Zenon DEF ToSet
    <2>1. n \in 1 .. L
      BY <1>1, <1>2
    <2>2. CASE n <= Len(found)
      <3>1. n \in DOMAIN found /\ all[n] = found[n]
        BY <1>1, <2>1, <2>2
      <3>2. QED
        BY <3>1 DEF ToSet
    <2>3. CASE ~(n <= Len(found))
      <3>1. n - Len(found) \in DOMAIN more /\ all[n] = more[n - Len(found)]
        BY <1>1, <2>1, <2>3
      <3>2. QED
        BY <3>1 DEF ToSet
    <2>4. QED
      BY <2>2, <2>3
  <1>5. ASSUME m # limit
        PROVE  ToSet(found) \subseteq ToSet(r) /\ ToSet(more) \subseteq ToSet(r)
    <2>1. m = L
      BY <1>2, <1>5
    <2>2. ASSUME NEW n \in DOMAIN found PROVE found[n] \in ToSet(r)
      <3>1. n \in 1 .. L /\ n <= Len(found)
        BY <1>1
      <3>2. n \in DOMAIN r /\ r[n] = found[n]
        BY <1>1, <1>3, <2>1, <3>1, Zenon
      <3>3. QED
        BY <3>2 DEF ToSet
    <2>3. ASSUME NEW n \in DOMAIN more PROVE more[n] \in ToSet(r)
      <3>1. Len(found) + n \in 1 .. L /\ ~(Len(found) + n <= Len(found)) /\ (Len(found) + n) - Len(found) = n
        BY <1>1
      <3>2. Len(found) + n \in DOMAIN r /\ r[Len(found) + n] = more[n]
        BY <1>1, <1>3, <2>1, <3>1, Zenon
      <3>3. QED
        BY <3>2 DEF ToSet
    <2>4. QED
      BY <2>2, <2>3 DEF ToSet
  <1>6. Fitting(found, more, limit) = r
    BY DEF Fitting, r, m, L, all
  <1>7. QED
    BY <1>2, <1>3, <1>4, <1>5, <1>6

\* The boards read one after the other.  While there is room, one that fails is
\* counted, of one that answers the suited postings are added.
Read(result, works, suited, limit) ==
    IF Len(result.jobs) = limit THEN result
    ELSE IF ~works THEN [result EXCEPT !.failed = @ + 1]
    ELSE [result EXCEPT !.jobs = Fitting(@, suited, limit)]

Reads(g, L, works, suited, limit) ==
    /\ g[0] = [jobs |-> << >>, failed |-> 0]
    /\ \A n \in 1 .. L : g[n] = Read(g[n - 1], works[n], suited[n], limit)

ReadWell(end, T, L, works, suited, limit) ==
    /\ end.jobs \in Seq(T) /\ Len(end.jobs) <= limit /\ end.failed \in 0 .. L
    /\ limit > 0 /\ (\A n \in 1 .. L : ~works[n]) => end.failed = L
    /\ (\E n \in 1 .. L : works[n]) => end.failed < L
    /\ Len(end.jobs) # limit => \A n \in 1 .. L : ToSet(suited[n]) \subseteq ToSet(end.jobs)
    /\ ToSet(end.jobs) \subseteq UNION {ToSet(suited[n]) : n \in 1 .. L}

LEMMA ReadingBoards ==
    ASSUME NEW T, NEW L \in Nat, NEW limit \in Nat, NEW works \in [1 .. L -> BOOLEAN],
           NEW suited \in [1 .. L -> Seq(T)], \A n \in 1 .. L : ~works[n] => suited[n] = << >>,
           NEW g, Reads(g, L, works, suited, limit)
    PROVE  ReadWell(g[L], T, L, works, suited, limit)
  <1> DEFINE Typical(n) == /\ g[n] = [jobs |-> g[n].jobs, failed |-> g[n].failed]
                         /\ g[n].jobs \in Seq(T) /\ Len(g[n].jobs) <= limit /\ g[n].failed \in 0 .. n
             Failing(n) == limit > 0 /\ (\A k \in 1 .. n : ~works[k]) =>
                               g[n].failed = n /\ g[n].jobs = << >>
             Working(n) == (\E k \in 1 .. n : works[k]) => g[n].failed < n
             Whole(n) == Len(g[n].jobs) # limit =>
                             \A k \in 1 .. n : ToSet(suited[k]) \subseteq ToSet(g[n].jobs)
             Sound(n) == ToSet(g[n].jobs) \subseteq UNION {ToSet(suited[k]) : k \in 1 .. n}
             Good(n) == Typical(n) /\ Failing(n) /\ Working(n) /\ Whole(n) /\ Sound(n)
             S == {n \in Nat : n \in 0 .. L => Good(n)}
  <1> USE DEF Reads
  <1>1. 0 \in S
    <2>1. g[0].jobs = << >> /\ g[0].failed = 0 /\ 1 .. 0 = {}
      OBVIOUS
    <2>2. ToSet(g[0].jobs) = {}
      BY <2>1 DEF ToSet
    <2>3. Typical(0)
      BY <2>1
    <2>4. Failing(0) /\ Working(0) /\ Whole(0) /\ Sound(0)
      BY <2>1, <2>2
    <2>5. QED
      BY <2>3, <2>4, Zenon
  <1>2. ASSUME NEW m \in Nat, m \in S PROVE m + 1 \in S
    <2> SUFFICES ASSUME m + 1 \in 0 .. L PROVE Good(m + 1)
      <3> HIDE DEF Good
      <3>1. QED
        OBVIOUS
    <2> DEFINE n == m + 1
    <2>1. n \in 1 .. L /\ n - 1 = m /\ n \in Nat /\ m < n /\ 1 .. n = 1 .. m \union {n}
      BY <1>2
    <2>2. Good(m)
      <3> HIDE DEF Good
      <3>1. m \in 0 .. L
        BY <2>1
      <3>2. QED
        BY <1>2, <3>1
    <2>3. g[n] = Read(g[m], works[n], suited[n], limit)
      <3> HIDE DEF n
      <3>1. QED
        BY <2>1
    <2>4. works[n] \in BOOLEAN /\ suited[n] \in Seq(T) /\ (~works[n] => suited[n] = << >>)
      <3> HIDE DEF n
      <3>1. QED
        BY <2>1
    <2> DEFINE j == g[m].jobs
               f == g[m].failed
    <2>5. Typical(m) /\ Failing(m) /\ Working(m) /\ Whole(m) /\ Sound(m)
      BY <2>2
    <2>6. /\ g[m] = [jobs |-> j, failed |-> f] /\ j \in Seq(T) /\ Len(j) <= limit
          /\ f \in Nat /\ f <= m
      BY <2>5
    <2> HIDE DEF n, j, f, Good
    <2>7. CASE Len(j) = limit
      <3>1. g[n] = g[m]
        BY <2>3, <2>7 DEF Read, j
      <3>2. Typical(n)
        <4>1. g[n].failed \in 0 .. n
          BY <2>1, <2>6, <3>1 DEF f
        <4>2. QED
          BY <2>6, <3>1, <4>1 DEF j, f
      <3>3. Failing(n)
        <4>1. Failing(m) => (limit > 0 /\ (\A k \in 1 .. n : ~works[k]) => j = << >>)
          BY <2>1, Zenon DEF j
        <4>2. Len(<< >>) = 0
          OBVIOUS
        <4>3. QED
          BY <2>5, <2>7, <4>1, <4>2
      <3>4. Working(n)
        BY <2>1, <2>6, <3>1 DEF f
      <3>5. Whole(n)
        BY <2>7, <3>1 DEF j
      <3>6. Sound(n)
        BY <2>1, <2>5, <3>1
      <3>7. QED
        BY <3>2, <3>3, <3>4, <3>5, <3>6 DEF n, Good
    <2>8. CASE Len(j) # limit /\ ~works[n]
      <3>1. g[n] = [jobs |-> j, failed |-> f + 1]
        BY <2>3, <2>6, <2>8 DEF Read
      <3>2. g[n].jobs = j /\ g[n].failed = f + 1
        BY <3>1
      <3>3. Typical(n)
        BY <2>1, <2>6, <3>1, <3>2
      <3>4. Failing(n)
        <4>1. Failing(m) => (limit > 0 /\ (\A k \in 1 .. n : ~works[k]) => f = m /\ j = << >>)
          BY <2>1 DEF j, f
        <4>2. f = m => f + 1 = n
          BY <2>1 DEF n
        <4>3. QED
          BY <2>5, <3>2, <4>1, <4>2
      <3>5. Working(n)
        <4>1. (\E k \in 1 .. n : works[k]) => \E k \in 1 .. m : works[k]
          BY <2>1, <2>8, Zenon
        <4>2. Working(m) => ((\E k \in 1 .. n : works[k]) => f < m)
          BY <4>1 DEF f
        <4>3. f < m => f + 1 < n
          BY <2>1, <2>6 DEF n
        <4>4. QED
          BY <2>5, <3>2, <4>2, <4>3
      <3>6. ToSet(suited[n]) = {}
        BY <2>4, <2>8 DEF ToSet
      <3>7. Whole(n)
        BY <2>1, <2>5, <2>8, <3>2, <3>6, Zenon DEF j
      <3>8. Sound(n)
        BY <2>1, <2>5, <3>2 DEF j
      <3>9. QED
        BY <3>3, <3>4, <3>5, <3>7, <3>8 DEF n, Good
    <2>9. CASE Len(j) # limit /\ works[n]
      <3> DEFINE r == Fitting(j, suited[n], limit)
      <3>1. g[n] = [jobs |-> r, failed |-> f]
        BY <2>3, <2>6, <2>9 DEF Read
      <3>2. /\ r \in Seq(T) /\ Len(r) <= limit /\ ToSet(r) \subseteq ToSet(j) \union ToSet(suited[n])
            /\ Len(r) # limit => ToSet(j) \subseteq ToSet(r) /\ ToSet(suited[n]) \subseteq ToSet(r)
        BY <2>4, <2>6, FittingIs, Zenon
      <3> HIDE DEF r
      <3>3. g[n].jobs = r /\ g[n].failed = f
        BY <3>1
      <3>4. Typical(n)
        BY <2>1, <2>6, <3>1, <3>2, <3>3
      <3>5. Failing(n)
        BY <2>1, <2>9
      <3>6. Working(n)
        BY <2>1, <2>6, <3>3
      <3>7. Whole(n)
        <4>1. \A k \in 1 .. m : ToSet(suited[k]) \subseteq ToSet(j)
          BY <2>5, <2>9 DEF j
        <4>2. QED
          BY <2>1, <3>2, <3>3, <4>1
      <3>8. Sound(n)
        <4>1. ToSet(j) \subseteq UNION {ToSet(suited[k]) : k \in 1 .. m}
          BY <2>5 DEF j
        <4>2. QED
          BY <2>1, <3>2, <3>3, <4>1
      <3>9. QED
        BY <3>4, <3>5, <3>6, <3>7, <3>8 DEF n, Good
    <2>10. QED
      BY <2>7, <2>8, <2>9 DEF n
  <1>3. Good(L)
    <2> HIDE DEF S, Good
    <2>1. Nat \subseteq S
      BY <1>1, <1>2, SetInduction, Zenon
    <2>2. L \in S /\ L \in 0 .. L
      BY <2>1
    <2>3. QED
      BY <2>2 DEF S
  <1>4. QED
    BY <1>3 DEF ReadWell

-------------------------------------------------------------------------------
(* One attempt at the boards *)

Replies(b) == Source!FetchBoard(b).error = "none"
Postings(b) == Source!FetchBoard(b).jobs
Suited(b, p) ==
    Kept(Postings(b), {n \in DOMAIN Postings(b) : Source!OnBoard(Postings(b)[n], p)})

\* A board whose provider answers with a list.
GoodBoard(b) == b.response.body = Unknown \/ Listing(b.response.body)

LEMMA PostingsAre ==
    ASSUME NEW b, GoodBoard(b)
    PROVE  Listing(Postings(b)) /\ (~Replies(b) => Postings(b) = << >>)
  <1> DEFINE got == Source!Get(b.response)
  <1>1. /\ got.jobs = << >> \/ Listing(got.jobs)
        /\ got.error # "none" => got.jobs = << >>
    BY Zenon DEF Source!Get, Source!Error, Source!Answer, GoodBoard
  <1>2. Listing(<< >>)
    <2>1. << >> \in Seq(ToSet(<< >>))
      OBVIOUS
    <2>2. QED
      BY <2>1 DEF Listing
  <1> HIDE DEF got
  <1>3. CASE b.provider \notin {"greenhouse", "lever"}
    <2>1. Source!FetchBoard(b) = [error |-> "parse", jobs |-> << >>]
      BY <1>3 DEF Source!FetchBoard, Source!Error
    <2>2. Postings(b) = << >>
      BY <2>1 DEF Postings
    <2>3. QED
      BY <1>2, <2>2
  <1>4. CASE b.provider \in {"greenhouse", "lever"}
    <2> DEFINE jobs == [n \in DOMAIN got.jobs |-> Source!OfBoard(got.jobs[n], b)]
    <2>1. Source!FetchBoard(b) = [error |-> got.error, jobs |-> jobs]
      BY <1>4 DEF Source!FetchBoard, got
    <2>2. Postings(b) = jobs /\ (Replies(b) <=> got.error = "none")
      BY <2>1 DEF Postings, Replies
    <2>3. Listing(got.jobs)
      BY <1>1, <1>2
    <2>4. DOMAIN got.jobs = 1 .. Len(got.jobs) /\ Len(got.jobs) \in Nat
      BY <2>3, LenProperties DEF Listing
    <2>5. jobs \in Seq(ToSet(jobs))
      <3>1. \A n \in 1 .. Len(got.jobs) : jobs[n] \in ToSet(jobs)
        BY <2>4 DEF ToSet
      <3>2. DOMAIN jobs = 1 .. Len(got.jobs)
        BY <2>4
      <3>3. jobs = [n \in 1 .. Len(got.jobs) |-> jobs[n]]
        BY <2>4
      <3> HIDE DEF jobs
      <3>4. QED
        BY <2>4, <3>1, <3>3
    <2>6. got.jobs = << >> => jobs = << >>
      <3> SUFFICES ASSUME got.jobs = << >> PROVE jobs = << >>
        OBVIOUS
      <3>1. DOMAIN got.jobs = {}
        OBVIOUS
      <3>2. Len(jobs) = 0
        BY <3>1, <2>5
      <3>3. QED
        BY <2>5, <3>2, EmptySeq
    <2> HIDE DEF jobs
    <2>7. QED
      BY <1>1, <2>2, <2>5, <2>6 DEF Listing
  <1>5. QED
    BY <1>3, <1>4

LEMMA SuitedAre ==
    ASSUME NEW b, NEW p, GoodBoard(b)
    PROVE  /\ Suited(b, p) \in Seq(ToSet(Postings(b)))
           /\ ~Replies(b) => Suited(b, p) = << >>
  <1> DEFINE places == {n \in DOMAIN Postings(b) : Source!OnBoard(Postings(b)[n], p)}
             T == ToSet(Postings(b))
             kept == Kept(Postings(b), places)
  <1>1. Postings(b) \in Seq(T) /\ (~Replies(b) => Postings(b) = << >>)
    BY PostingsAre DEF Listing
  <1>2. kept \in Seq(T) /\ Len(kept) = Cardinality(places)
    <2>1. places \in SUBSET DOMAIN Postings(b)
      OBVIOUS
    <2> HIDE DEF places, T
    <2>2. QED
      BY <1>1, <2>1, PickedFacts
  <1>3. Postings(b) = << >> => kept = << >>
    <2> SUFFICES ASSUME Postings(b) = << >> PROVE kept = << >>
      OBVIOUS
    <2>1. places = {}
      OBVIOUS
    <2> HIDE DEF kept, places, T
    <2>2. Len(kept) = 0
      BY <1>2, <2>1, FS_EmptySet
    <2>3. QED
      BY <1>2, <2>2, EmptySeq
  <1>4. QED
    BY <1>1, <1>2, <1>3 DEF Suited

LEMMA ReadIs ==
    ASSUME NEW r, NEW b, NEW p
    PROVE  Source!ReadBoard(r, b, p) = Read(r, Replies(b), Suited(b, p), p.limit)
  <1>1. Source!KeptIf(Postings(b), LAMBDA job : Source!OnBoard(job, p)) = Suited(b, p)
    BY SourceOps DEF Source!KeptIf, Suited
  <1>2. \A found : Source!Add(found, Suited(b, p), p.limit) = Fitting(found, Suited(b, p), p.limit)
    BY SourceOps, Zenon DEF Source!Add, Fitting
  <1>3. QED
    BY <1>1, <1>2 DEF Source!ReadBoard, Read, Replies, Postings

ReadsBoards(g, L, start, c, p) ==
    g = [n \in 0 .. L |-> IF n = 0 THEN start ELSE Source!ReadBoard(g[n - 1], c[n], p)]

LEMMA ReadingExists ==
    ASSUME NEW L \in Nat, NEW start, NEW c, NEW p
    PROVE  \E g : ReadsBoards(g, L, start, c, p)
  <1> DEFINE Rec(g, m) == g = [n \in 0 .. m |-> IF n = 0 THEN start
                                               ELSE Source!ReadBoard(g[n - 1], c[n], p)]
             S == {m \in Nat : \E g : Rec(g, m)}
  <1>1. 0 \in S
    <2>1. Rec([n \in 0 .. 0 |-> start], 0)
      OBVIOUS
    <2>2. QED
      BY <2>1, Zenon
  <1>2. ASSUME NEW m \in Nat, m \in S PROVE m + 1 \in S
    <2>1. PICK g : Rec(g, m)
      BY <1>2
    <2> DEFINE h == [n \in 0 .. m + 1 |-> IF n = m + 1 THEN Source!ReadBoard(g[m], c[m + 1], p)
                                          ELSE g[n]]
    <2>2. Rec(h, m + 1)
      <3>1. ASSUME NEW n \in 0 .. m + 1
            PROVE  h[n] = IF n = 0 THEN start ELSE Source!ReadBoard(h[n - 1], c[n], p)
        <4>1. CASE n = m + 1
          <5>1. n - 1 = m /\ n # 0 /\ n - 1 \in 0 .. m + 1 /\ n - 1 # m + 1
            BY <4>1
          <5>2. h[n - 1] = g[m]
            BY <5>1
          <5>3. QED
            BY <4>1, <5>1, <5>2
        <4>2. CASE n # m + 1
          <5>1. n \in 0 .. m /\ h[n] = g[n]
            BY <4>2
          <5>2. g[n] = IF n = 0 THEN start ELSE Source!ReadBoard(g[n - 1], c[n], p)
            BY <2>1, <5>1
          <5>3. n # 0 => h[n - 1] = g[n - 1]
            BY <5>1
          <5>4. QED
            BY <5>1, <5>2, <5>3
        <4>3. QED
          BY <4>1, <4>2
      <3>2. QED
        BY <3>1
    <2> HIDE DEF h, Rec
    <2>3. QED
      BY <2>2
  <1>3. L \in S
    <2> HIDE DEF S
    <2>1. QED
      BY <1>1, <1>2, SetInduction
  <1>4. QED
    BY <1>3 DEF ReadsBoards

\* What SearchBoards answers, by what its boards do.
LEMMA SearchIs ==
    ASSUME NEW B, NEW c \in Seq(B), NEW boards, NEW p, Source!Chosen(boards, p) = c,
           \A b \in ToSet(c) : GoodBoard(b), p.limit \in Nat
    PROVE  LET s == Source!SearchBoards(boards, p)
           IN  /\ Listing(s.jobs) /\ Len(s.jobs) <= p.limit /\ s.error \in {"none", "unavailable"}
               /\ p.limit > 0 /\ c # << >> /\ (\A b \in ToSet(c) : ~Replies(b)) => s.error # "none"
               /\ c = << >> \/ (\E b \in ToSet(c) : Replies(b)) =>
                      /\ s.error = "none"
                      /\ Len(s.jobs) # p.limit =>
                             \A b \in ToSet(c) : ToSet(Suited(b, p)) \subseteq ToSet(s.jobs)
               /\ ToSet(s.jobs) \subseteq UNION {ToSet(Suited(b, p)) : b \in ToSet(c)}
  <1> DEFINE L == Len(c)
             start == [jobs |-> << >>, failed |-> 0]
             g == CHOOSE h : h = [n \in 0 .. L |-> IF n = 0 THEN start
                                                  ELSE Source!ReadBoard(h[n - 1], c[n], p)]
             works == [n \in 1 .. L |-> Replies(c[n])]
             suited == [n \in 1 .. L |-> Suited(c[n], p)]
             T == UNION {ToSet(Postings(b)) : b \in ToSet(c)}
             s == Source!SearchBoards(boards, p)
  <1>1. L \in Nat /\ DOMAIN c = 1 .. L /\ ToSet(c) = {c[n] : n \in 1 .. L}
    BY LenProperties DEF ToSet
  <1>2. g = [n \in 0 .. L |-> IF n = 0 THEN start ELSE Source!ReadBoard(g[n - 1], c[n], p)]
    <2> HIDE DEF start, L
    <2>1. \E h : ReadsBoards(h, L, start, c, p)
      BY <1>1, ReadingExists, Zenon
    <2>2. QED
      BY <2>1, Zenon DEF ReadsBoards
  <1>3. s = IF g[L].failed > 0 /\ g[L].failed = L THEN Source!Error("unavailable")
            ELSE Source!Answer(g[L].jobs)
    BY DEF Source!SearchBoards
  <1> HIDE DEF g, s, T
  <1>4. /\ works \in [1 .. L -> BOOLEAN] /\ suited \in [1 .. L -> Seq(T)]
        /\ \A n \in 1 .. L : ~works[n] => suited[n] = << >>
    <2>1. ASSUME NEW n \in 1 .. L
          PROVE  Suited(c[n], p) \in Seq(T) /\ (~Replies(c[n]) => Suited(c[n], p) = << >>)
      <3>1. c[n] \in ToSet(c)
        BY <1>1
      <3>2. ToSet(Postings(c[n])) \subseteq T
        BY <3>1 DEF T
      <3>3. Suited(c[n], p) \in Seq(ToSet(Postings(c[n])))
        BY <3>1, SuitedAre
      <3>4. QED
        BY <3>1, <3>2, <3>3, SuitedAre
    <2>2. QED
      BY <2>1, Zenon DEF Replies
  <1>5. Reads(g, L, works, suited, p.limit)
    <2>1. g[0] = start
      BY <1>1, <1>2
    <2>2. ASSUME NEW n \in 1 .. L
          PROVE  g[n] = Read(g[n - 1], works[n], suited[n], p.limit)
      <3>1. n \in 0 .. L /\ n # 0
        BY <1>1
      <3>2. g[n] = Source!ReadBoard(g[n - 1], c[n], p)
        BY <1>2, <3>1, Zenon
      <3>3. QED
        BY <3>2, ReadIs
    <2>3. QED
      BY <2>1, <2>2 DEF Reads
  <1>6. \A n \in 1 .. L : works[n] = Replies(c[n]) /\ suited[n] = Suited(c[n], p)
    OBVIOUS
  <1> HIDE DEF works, suited
  <1>7. ReadWell(g[L], T, L, works, suited, p.limit)
    BY <1>1, <1>4, <1>5, ReadingBoards, Zenon
  <1> DEFINE j == g[L].jobs
             f == g[L].failed
             out == f > 0 /\ f = L
  <1>8. s.error = (IF out THEN "unavailable" ELSE "none") /\ s.jobs = (IF out THEN << >> ELSE j)
    BY <1>3 DEF Source!Error, Source!Answer
  <1>9. j \in Seq(T) /\ Len(j) <= p.limit /\ f \in Nat /\ f <= L
    BY <1>7 DEF ReadWell
  <1>10. /\ p.limit > 0 /\ (\A b \in ToSet(c) : ~Replies(b)) => f = L
         /\ (\E b \in ToSet(c) : Replies(b)) => f < L
         /\ Len(j) # p.limit => \A b \in ToSet(c) : ToSet(Suited(b, p)) \subseteq ToSet(j)
         /\ ToSet(j) \subseteq UNION {ToSet(Suited(b, p)) : b \in ToSet(c)}
    BY <1>1, <1>6, <1>7 DEF ReadWell
  <1>11. c = << >> <=> L = 0
    BY EmptySeq
  <1> HIDE DEF j, f, L
  <1>12. Listing(s.jobs) /\ Len(s.jobs) <= p.limit
    <2>1. \A q \in Seq(T) : Listing(q)
      BY LenProperties DEF Listing, ToSet
    <2>2. << >> \in Seq(T) /\ Len(<< >>) = 0
      OBVIOUS
    <2> HIDE DEF out
    <2>3. CASE out
      <3>1. s.jobs = << >> /\ 0 <= p.limit
        BY <1>8, <2>3
      <3>2. QED
        BY <2>1, <2>2, <3>1, Zenon
    <2>4. CASE ~out
      <3>1. s.jobs = j
        BY <1>8, <2>4
      <3>2. QED
        BY <1>9, <2>1, <3>1
    <2>5. QED
      BY <2>3, <2>4
  <1>13. ToSet(<< >>) = {}
    BY DEF ToSet
  <1>14. QED
    BY <1>1, <1>8, <1>9, <1>10, <1>11, <1>12, <1>13 DEF s

-------------------------------------------------------------------------------
(* The attempts, and what is delivered of them *)

LEMMA SourceMin ==
    ASSUME NEW S, NEW a \in Int, NEW b \in Int, S # {}, S \subseteq a .. b
    PROVE  Source!Min(S) \in S /\ \A x \in S : Source!Min(S) <= x
  <1>1. Min(S) \in S /\ \A x \in S : Min(S) <= x
    BY MinMaxIs, Zenon
  <1>2. Source!Min(S) = Min(S)
    BY SourceOps
  <1>3. QED
    BY <1>1, <1>2

\* The answer that counts: of the first attempt that is not to be repeated.
LEMMA FirstThatCounts ==
    ASSUME NEW answers, NEW N \in Nat, Len(answers) = N, NEW m \in 1 .. N, m <= Attempts,
           answers[m].error \notin Source!Retryable,
           \A n \in 1 .. m - 1 : answers[n].error \in Source!Retryable
    PROVE  Source!Retried(answers) = answers[m]
  <1> DEFINE At(n) == answers[Source!Min({n, Len(answers)})]
             final == {n \in 1 .. Attempts : At(n).error \notin Source!Retryable} \union {Attempts}
  <1>1. Attempts \in Nat /\ Attempts >= 1
    BY FetchAssumption
  <1>2. ASSUME NEW n \in 1 .. m PROVE At(n) = answers[n]
    <2>1. {n, N} # {} /\ {n, N} \subseteq 1 .. N /\ 1 \in Int /\ N \in Int
      OBVIOUS
    <2>2. Source!Min({n, N}) \in {n, N} /\ Source!Min({n, N}) <= n
      <3> DEFINE S == {n, N}
      <3>1. S # {} /\ S \subseteq 1 .. N /\ n \in S
        BY <2>1
      <3> HIDE DEF S
      <3>2. Source!Min(S) \in S /\ \A x \in S : Source!Min(S) <= x
        BY <2>1, <3>1, SourceMin, Zenon
      <3>3. QED
        BY <3>1, <3>2 DEF S
    <2>3. Source!Min({n, N}) = n
      BY <2>2
    <2>4. QED
      BY <2>3
  <1> HIDE DEF At
  <1>3. m \in final /\ final \subseteq 1 .. Attempts /\ 1 \in Int /\ Attempts \in Int
    <2>1. m \in 1 .. Attempts /\ m \in 1 .. m
      BY <1>1
    <2>2. At(m) = answers[m]
      BY <1>2, <2>1
    <2>3. QED
      BY <1>1, <2>1, <2>2
  <1>4. \A n \in final : m <= n
    <2> SUFFICES ASSUME NEW n \in final, n < m PROVE FALSE
      BY <1>3
    <2>1. n \in 1 .. m - 1 /\ n \in 1 .. m /\ n # Attempts
      BY <1>3
    <2>2. At(n).error \in Source!Retryable
      BY <1>2, <2>1
    <2>3. QED
      BY <2>1, <2>2
  <1> HIDE DEF final
  <1>5. Source!Min(final) \in final /\ \A n \in final : Source!Min(final) <= n
    BY <1>3, SourceMin, Zenon
  <1>6. Source!Min(final) = m
    <2> DEFINE k == Source!Min(final)
    <2>1. k \in 1 .. Attempts /\ k <= m /\ m <= k
      BY <1>3, <1>4, <1>5, Zenon
    <2> HIDE DEF k
    <2>2. k = m
      BY <1>1, <2>1
    <2>3. QED
      BY <2>2 DEF k
  <1>7. Source!Retried(answers) = At(Source!Min(final))
    BY DEF Source!Retried, At, final
  <1>8. m \in 1 .. m
    OBVIOUS
  <1>9. QED
    BY <1>2, <1>6, <1>7, <1>8

\* One attempt only.
LEMMA OnlyAnswer ==
    ASSUME NEW answers, Len(answers) = 1
    PROVE  Source!Retried(answers) = answers[1]
  <1> DEFINE At(n) == answers[Source!Min({n, Len(answers)})]
             final == {n \in 1 .. Attempts : At(n).error \notin Source!Retryable} \union {Attempts}
  <1>1. Attempts \in Nat /\ Attempts >= 1
    BY FetchAssumption
  <1>2. ASSUME NEW n \in Nat, n >= 1 PROVE At(n) = answers[1]
    <2> DEFINE S == {n, 1}
    <2>1. S # {} /\ S \subseteq 1 .. n /\ 1 \in S /\ 1 \in Int /\ n \in Int
      BY <1>2
    <2> HIDE DEF S
    <2>2. Source!Min(S) \in S /\ \A x \in S : Source!Min(S) <= x
      BY <2>1, SourceMin, Zenon
    <2>3. Source!Min(S) = 1
      <3> DEFINE k == Source!Min(S)
      <3>1. k \in 1 .. n /\ k <= 1
        BY <2>1, <2>2, Zenon
      <3> HIDE DEF k
      <3>2. k = 1
        BY <3>1
      <3>3. QED
        BY <3>2 DEF k
    <2>4. QED
      BY <2>3 DEF S
  <1> HIDE DEF At
  <1>3. final # {} /\ final \subseteq 1 .. Attempts /\ 1 \in Int /\ Attempts \in Int
    BY <1>1
  <1> HIDE DEF final
  <1>4. Source!Min(final) \in final
    BY <1>3, SourceMin, Zenon
  <1>5. At(Source!Min(final)) = answers[1]
    <2> DEFINE k == Source!Min(final)
    <2>1. k \in 1 .. Attempts
      BY <1>3, <1>4, Zenon
    <2> HIDE DEF k
    <2>2. k \in Nat /\ k >= 1
      BY <1>1, <2>1
    <2>3. At(k) = answers[1]
      BY <1>2, <2>2
    <2>4. QED
      BY <2>3 DEF k
  <1>6. Source!Retried(answers) = At(Source!Min(final))
    BY DEF Source!Retried, At, final
  <1>7. QED
    BY <1>5, <1>6

\* What is delivered of the postings of the boards, one by one.
LEMMA DeliveredIs ==
    ASSUME NEW result, Listing(result.jobs), NEW query
    PROVE  /\ Listing(Source!Delivered(result, query, "boards"))
           /\ ToSet(Source!Delivered(result, query, "boards")) =
                  {job \in {Source!NormalizeBoard(p) :
                               p \in {q \in ToSet(result.jobs) :
                                          q.words # Unknown /\ q.company # Unknown}} :
                       Source!Wanted(job, query)}
  <1> DEFINE T == ToSet(result.jobs)
             places == {n \in DOMAIN result.jobs :
                            result.jobs[n].words # Unknown /\ result.jobs[n].company # Unknown}
             whole == Kept(result.jobs, places)
             N == {Source!NormalizeBoard(p) : p \in T}
             normal == [n \in DOMAIN whole |-> Source!NormalizeBoard(whole[n])]
             good == {n \in DOMAIN normal : Source!Wanted(normal[n], query)}
             out == Kept(normal, good)
  <1>1. whole \in Seq(T) /\ ToSet(whole) = {result.jobs[x] : x \in places}
    <2>1. result.jobs \in Seq(T) /\ places \in SUBSET DOMAIN result.jobs
      BY DEF Listing
    <2> HIDE DEF T, places
    <2>2. QED
      BY <2>1, PickedFacts, KeptSet
  <1>2. {result.jobs[x] : x \in places} = {q \in T : q.words # Unknown /\ q.company # Unknown}
    BY DEF ToSet
  <1>3. Source!Normalized(result.jobs, "boards") = normal
    BY SourceOps DEF Source!Normalized, Source!KeptIf
  <1> HIDE DEF whole, T
  <1>4. normal \in Seq(N) /\ ToSet(normal) = {Source!NormalizeBoard(p) : p \in ToSet(whole)}
    <2>1. DOMAIN whole = 1 .. Len(whole) /\ Len(whole) \in Nat /\ \A n \in 1 .. Len(whole) : whole[n] \in T
      BY <1>1, LenProperties, ElementOfSeq
    <2>2. normal \in [1 .. Len(whole) -> N]
      BY <2>1
    <2>3. normal \in Seq(N)
      BY <2>1, <2>2
    <2>4. DOMAIN normal = DOMAIN whole
      OBVIOUS
    <2>5. QED
      BY <2>3, <2>4 DEF ToSet
  <1>5. Source!Delivered(result, query, "boards") = out
    <2>1. Source!KeptIf(normal, LAMBDA job : Source!Wanted(job, query)) = out
      BY SourceOps DEF Source!KeptIf
    <2>2. QED
      BY <1>3, <2>1 DEF Source!Delivered
  <1> HIDE DEF normal, N
  <1>6. out \in Seq(N) /\ ToSet(out) = {normal[x] : x \in good}
    <2>1. good \in SUBSET DOMAIN normal
      OBVIOUS
    <2> HIDE DEF good
    <2>2. QED
      BY <1>4, <2>1, PickedFacts, KeptSet
  <1>7. {normal[x] : x \in good} = {job \in ToSet(normal) : Source!Wanted(job, query)}
    BY DEF ToSet
  <1> HIDE DEF out, good
  <1>8. Listing(out)
    BY <1>6, LenProperties DEF Listing, ToSet
  <1>9. QED
    BY <1>1, <1>2, <1>4, <1>5, <1>6, <1>7, <1>8, Zenon DEF T

\* Of more postings, more is delivered.
LEMMA MoreDelivered ==
    ASSUME NEW one, NEW other, Listing(one.jobs), Listing(other.jobs),
           ToSet(one.jobs) \subseteq ToSet(other.jobs), NEW query
    PROVE  ToSet(Source!Delivered(one, query, "boards"))
               \subseteq ToSet(Source!Delivered(other, query, "boards"))
  BY DeliveredIs

LEMMA ChosenIs ==
    ASSUME NEW B, NEW boards \in Seq(B), NEW p
    PROVE  /\ Source!Chosen(boards, p) \in Seq(B)
           /\ ToSet(Source!Chosen(boards, p)) =
                  {b \in ToSet(boards) : p.companies = {} \/ b.company \in p.companies}
  <1> DEFINE places == {n \in DOMAIN boards : p.companies = {} \/ boards[n].company \in p.companies}
  <1>1. Source!Chosen(boards, p) = Kept(boards, places)
    BY SourceOps DEF Source!Chosen, Source!KeptIf
  <1>2. places \in SUBSET DOMAIN boards
    OBVIOUS
  <1>3. {boards[x] : x \in places} = {b \in ToSet(boards) : p.companies = {} \/ b.company \in p.companies}
    BY DEF ToSet
  <1> HIDE DEF places
  <1>4. QED
    BY <1>1, <1>2, <1>3, PickedFacts, KeptSet, SMTT(30)

-------------------------------------------------------------------------------
(* The boards that are watched *)

Same(one, other) == one.provider = other.provider /\ one.token = other.token

LEMMA MergedAre ==
    ASSUME NEW B, NEW one \in Seq(B), NEW more \in Seq(B), NEW b,
           \E n \in DOMAIN more : more[n] = b
    PROVE  LET boards == Source!MergeBoards(one, more)
           IN  \E n \in DOMAIN boards : \A k \in DOMAIN boards : Same(boards[k], b) <=> k = n
  <1> DEFINE all == one \o more
             places == {n \in DOMAIN all : \A m \in 1 .. n - 1 :
                            <<all[m].provider, all[m].token>> # <<all[n].provider, all[n].token>>}
             like == {n \in DOMAIN all : Same(all[n], b)}
             kept == Kept(all, places)
             c == Cardinality(places)
  <1>1. /\ all \in Seq(B) /\ Len(all) \in Nat /\ DOMAIN all = 1 .. Len(all)
        /\ \E n \in DOMAIN all : all[n] = b
    <2>1. /\ all \in Seq(B) /\ Len(all) = Len(one) + Len(more) /\ DOMAIN all = 1 .. Len(all)
          /\ Len(one) \in Nat /\ Len(more) \in Nat /\ DOMAIN more = 1 .. Len(more)
          /\ \A n \in 1 .. Len(more) : all[Len(one) + n] = more[n]
      BY LenProperties, ConcatProperties
    <2>2. PICK n \in 1 .. Len(more) : more[n] = b
      BY <2>1
    <2> HIDE DEF all
    <2>3. Len(one) + n \in DOMAIN all /\ all[Len(one) + n] = b
      BY <2>1, <2>2
    <2>4. \E k \in DOMAIN all : all[k] = b
      BY <2>3
    <2>5. Len(all) \in Nat
      BY <2>1
    <2>6. QED
      BY <2>1, <2>4, <2>5, Zenon
  <1>2. Source!MergeBoards(one, more) = kept
    BY SourceOps, Zenon DEF Source!MergeBoards
  <1> HIDE DEF all
  <1>3. \A n \in DOMAIN all : n \in places <=> \A m \in 1 .. n - 1 : ~Same(all[m], all[n])
    BY DEF Same
  <1>4. places \in SUBSET DOMAIN all
    OBVIOUS
  <1> HIDE DEF places
  <1>5. like # {} /\ like \subseteq 1 .. Len(all) /\ 1 \in Int /\ Len(all) \in Int
    BY <1>1 DEF Same
  <1> DEFINE first == Min(like)
  <1>6. first \in DOMAIN all /\ Same(all[first], b) /\ \A n \in like : first <= n
    <2> HIDE DEF like
    <2>1. first \in like /\ \A n \in like : first <= n
      BY <1>5, MinMaxIs, Zenon
    <2>2. QED
      BY <2>1 DEF like
  <1> HIDE DEF first
  <1>7. first \in places
    <2>1. ASSUME NEW m \in 1 .. first - 1 PROVE ~Same(all[m], all[first])
      <3>1. m \in DOMAIN all /\ ~(first <= m)
        BY <1>1, <1>6
      <3>2. m \notin like
        BY <1>6, <3>1
      <3>3. ~Same(all[m], b)
        BY <3>1, <3>2
      <3>4. QED
        BY <1>6, <3>3 DEF Same
    <2>2. QED
      BY <1>3, <1>6, <2>1
  <1>8. /\ kept \in Seq(B) /\ Len(kept) = c
        /\ \A k \in 1 .. c : \E x \in places : Rank(places, x) = k /\ kept[k] = all[x]
        /\ \A x \in places : Rank(places, x) \in 1 .. c /\ kept[Rank(places, x)] = all[x]
    BY <1>1, <1>4, PickedFacts
  <1> HIDE DEF kept, c
  <1>9. DOMAIN kept = 1 .. c
    BY <1>8, LenProperties
  <1> DEFINE n == Rank(places, first)
  <1>10. n \in DOMAIN kept /\ Same(kept[n], b)
    BY <1>6, <1>7, <1>8, <1>9
  <1>11. ASSUME NEW k \in DOMAIN kept, Same(kept[k], b) PROVE k = n
    <2>1. PICK x \in places : Rank(places, x) = k /\ kept[k] = all[x]
      BY <1>8, <1>9
    <2>2. x \in like
      BY <1>4, <1>11, <2>1
    <2>3. first <= x /\ x \in 1 .. Len(all) /\ first \in 1 .. Len(all)
      BY <1>1, <1>4, <1>6, <2>2
    <2>4. ~(first < x)
      <3> SUFFICES ASSUME first < x PROVE FALSE
        OBVIOUS
      <3>1. first \in 1 .. x - 1
        BY <2>3
      <3>2. ~Same(all[first], all[x])
        BY <1>3, <1>4, <3>1
      <3>3. QED
        BY <1>6, <2>2, <3>2 DEF like, Same
    <2>5. x = first
      BY <2>3, <2>4
    <2>6. QED
      BY <2>1, <2>5
  <1> HIDE DEF n
  <1>12. QED
    BY <1>2, <1>10, <1>11

LEMMA BoardsAre ==
    ASSUME NEW configured, NEW watched, Listing(configured), Listing(watched)
    PROVE  LET boards == Source!Boards(configured, watched)
           IN  /\ Listing(boards)
               /\ \A w \in ToSet(watched) : \A b \in ToSet(Source!BoardOf(w.company, w.url)) :
                      \E n \in DOMAIN boards : \A k \in DOMAIN boards :
                          Same(boards[k], b) <=> k = n
  <1> DEFINE lists == [n \in DOMAIN watched |-> Source!BoardOf(watched[n].company, watched[n].url)]
             W == UNION {ToSet(Source!BoardOf(w.company, w.url)) : w \in ToSet(watched)}
             C == ToSet(configured)
             B == W \union C
             extra == FlattenSeq(lists)
             boards == Source!Boards(configured, watched)
  <1>1. /\ DOMAIN watched = 1 .. Len(watched) /\ Len(watched) \in Nat
        /\ \A n \in 1 .. Len(watched) : watched[n] \in ToSet(watched)
    BY LenProperties DEF Listing, ToSet
  <1>2. \A company, url : Listing(Source!BoardOf(company, url))
    <2> SUFFICES ASSUME NEW company, NEW url PROVE Listing(Source!BoardOf(company, url))
      OBVIOUS
    <2>1. \E r : Source!BoardOf(company, url) = << >> \/ Source!BoardOf(company, url) = <<r>>
      BY DEF Source!BoardOf
    <2>2. PICK r : Source!BoardOf(company, url) \in {<< >>, <<r>>}
      BY <2>1
    <2>3. Listing(<< >>) /\ Listing(<<r>>)
      <3>1. << >> \in Seq(ToSet(<< >>))
        OBVIOUS
      <3>2. r \in ToSet(<<r>>)
        BY DEF ToSet
      <3>3. QED
        BY <3>1, <3>2 DEF Listing
    <2>4. QED
      BY <2>2, <2>3
  <1>3. ASSUME NEW n \in 1 .. Len(watched)
        PROVE  lists[n] \in Seq(B) /\ lists[n] = Source!BoardOf(watched[n].company, watched[n].url)
    <2>1. lists[n] = Source!BoardOf(watched[n].company, watched[n].url)
      BY <1>1
    <2>2. ToSet(lists[n]) \subseteq B
      BY <1>1, <2>1
    <2>3. lists[n] \in Seq(ToSet(lists[n]))
      BY <1>2, <2>1 DEF Listing
    <2> HIDE DEF B, lists
    <2>4. QED
      BY <2>1, <2>2, <2>3
  <1>4. lists \in Seq(Seq(B)) /\ Len(lists) = Len(watched) /\ DOMAIN lists = 1 .. Len(watched)
    <2> HIDE DEF B
    <2>1. lists \in [1 .. Len(watched) -> Seq(B)]
      BY <1>1, <1>3
    <2>2. QED
      BY <1>1, <2>1
  <1>5. configured \in Seq(B)
    <2>1. configured \in Seq(C)
      BY DEF Listing
    <2> HIDE DEF W, C
    <2>2. QED
      BY <2>1
  <1>6. Source!Boards(configured, watched) =
            IF extra = << >> THEN configured ELSE Source!MergeBoards(configured, extra)
    BY SourceOps DEF Source!Boards
  <1> HIDE DEF lists, B, extra
  <1>7. extra \in Seq(B)
    BY <1>4, FlattenType DEF extra
  <1>8. Listing(boards)
    <2>1. Source!MergeBoards(configured, extra) \in Seq(B)
      <3> DEFINE all == configured \o extra
                 places == {n \in DOMAIN all : \A m \in 1 .. n - 1 :
                                <<all[m].provider, all[m].token>> # <<all[n].provider, all[n].token>>}
      <3>1. Source!MergeBoards(configured, extra) = Kept(all, places)
        BY SourceOps, Zenon DEF Source!MergeBoards
      <3>2. all \in Seq(B) /\ places \in SUBSET DOMAIN all
        BY <1>5, <1>7, ConcatProperties
      <3> HIDE DEF all, places
      <3>3. QED
        BY <3>1, <3>2, PickedFacts
    <2>2. boards \in Seq(B)
      BY <1>5, <1>6, <2>1
    <2> HIDE DEF boards
    <2>3. QED
      BY <2>2, LenProperties DEF Listing, ToSet
  <1>9. ASSUME NEW w \in ToSet(watched), NEW b \in ToSet(Source!BoardOf(w.company, w.url))
        PROVE  \E n \in DOMAIN boards : \A k \in DOMAIN boards : Same(boards[k], b) <=> k = n
    <2>1. PICK m \in 1 .. Len(watched) : watched[m] = w
      BY <1>1 DEF ToSet
    <2>2. PICK k \in DOMAIN lists[m] : lists[m][k] = b
      BY <1>3, <2>1 DEF ToSet
    <2>3. \E n \in DOMAIN extra : extra[n] = b
      <3>1. m \in DOMAIN lists
        BY <1>4
      <3>2. \E n \in DOMAIN FlattenSeq(lists) : FlattenSeq(lists)[n] = lists[m][k]
        BY <1>4, <3>1, FlattenHolds, Zenon
      <3>3. QED
        BY <2>2, <3>2 DEF extra
    <2>4. extra # << >>
      BY <2>3
    <2>5. boards = Source!MergeBoards(configured, extra)
      BY <1>6, <2>4
    <2> HIDE DEF boards
    <2>6. QED
      BY <1>5, <1>7, <2>3, <2>5, MergedAre, SMTT(30)
  <1>10. QED
    BY <1>8, <1>9

-------------------------------------------------------------------------------
(* The filters *)

\* A filter drops a job only for what it knows of it: one job is kept as another
\* is, when it is known less of.
LEMMA LessKnownIsKept ==
    ASSUME NEW a, NEW b, NEW query, Source!Wanted(a, query),
           b.company = a.company, b.age \in {a.age, Unknown},
           b.mode = a.mode \/ (b.mode = "none" /\ query.remote # "yes"),
           b.years \in {a.years, [min |-> Unknown, max |-> Unknown]},
           Source!WantedPlace(b, query), Source!WantedPay(b, query)
    PROVE  Source!Wanted(b, query)
  <1>1. Source!WantedMode(b, query) /\ Source!WantedCompany(b, query)
    BY DEF Source!Wanted, Source!WantedMode, Source!WantedCompany
  <1>2. Source!MayBeAtMost(b.age, query.days)
    BY DEF Source!Wanted, Source!MayBeAtMost
  <1>3. /\ Source!MayBeAtMost(b.years.min, query.years.max)
        /\ Source!MayBeAtMost(query.years.min, b.years.max)
    <2>1. CASE b.years = a.years
      BY <2>1 DEF Source!Wanted
    <2>2. CASE b.years = [min |-> Unknown, max |-> Unknown]
      BY <2>2 DEF Source!MayBeAtMost
    <2>3. QED
      BY <2>1, <2>2
  <1>4. QED
    BY <1>1, <1>2, <1>3 DEF Source!Wanted

\* What is left of a posting without an attribute.
LEMMA WithoutIs ==
    ASSUME NEW job, {"words", "tags", "company", "provider"} \union Omittable \subseteq DOMAIN job,
           NEW attribute \in Omittable, NEW w, w = Without(job, attribute)
    PROVE  /\ DOMAIN w = DOMAIN job
           /\ w.words = job.words /\ w.tags = job.tags
           /\ w.company = job.company /\ w.provider = job.provider
           /\ w.mode = IF attribute = "mode" THEN "none" ELSE job.mode
           /\ w.place = IF attribute = "place" THEN Unknown ELSE job.place
           /\ w.pay = IF attribute = "pay" THEN Unknown ELSE job.pay
           /\ w.currency = IF attribute = "currency" THEN Unknown ELSE job.currency
           /\ w.age = IF attribute = "age" THEN Unknown ELSE job.age
           /\ w.years = IF attribute = "years" THEN [min |-> Unknown, max |-> Unknown] ELSE job.years
  <1> DEFINE left == CASE attribute = "mode" -> "none"
                       [] attribute = "years" -> [min |-> Unknown, max |-> Unknown]
                       [] OTHER -> Unknown
  <1>1. /\ attribute = "mode" => left = "none"
        /\ attribute = "years" => left = [min |-> Unknown, max |-> Unknown]
        /\ attribute \notin {"mode", "years"} => left = Unknown
    OBVIOUS
  <1>2. w = [job EXCEPT ![attribute] = left]
    BY DEF Without
  <1> HIDE DEF left
  <1>3. DOMAIN w = DOMAIN job
    BY <1>2
  <1>4. \A field \in DOMAIN job : w[field] = IF field = attribute THEN left ELSE job[field]
    BY <1>2
  <1>5. attribute \notin {"words", "tags", "company", "provider"}
    BY DEF Omittable
  <1>6. /\ w.words = job.words /\ w.tags = job.tags
        /\ w.company = job.company /\ w.provider = job.provider
    BY <1>4, <1>5
  <1>7. /\ w.mode = IF attribute = "mode" THEN left ELSE job.mode
        /\ w.place = IF attribute = "place" THEN left ELSE job.place
        /\ w.pay = IF attribute = "pay" THEN left ELSE job.pay
        /\ w.currency = IF attribute = "currency" THEN left ELSE job.currency
        /\ w.age = IF attribute = "age" THEN left ELSE job.age
        /\ w.years = IF attribute = "years" THEN left ELSE job.years
    BY <1>4 DEF Omittable
  <1>8. QED
    BY <1>1, <1>3, <1>6, <1>7

\* The filters keep a job that leaves an attribute out.
LEMMA UnknownIsKept ==
    ASSUME NEW job, {"words", "tags", "company", "provider"} \union Omittable \subseteq DOMAIN job,
           NEW query, Source!Wanted(job, query),
           NEW attribute \in Omittable,
           attribute = "mode" => /\ query.remote # "yes"
                                 /\ Source!WantedPlace(Without(job, "mode"), query),
           attribute = "currency" => query.currency \in {Unknown, job.currency}
    PROVE  Source!Wanted(Without(job, attribute), query)
  <1> DEFINE w == Without(job, attribute)
  <1>1. /\ w.company = job.company
        /\ w.mode = IF attribute = "mode" THEN "none" ELSE job.mode
        /\ w.place = IF attribute = "place" THEN Unknown ELSE job.place
        /\ w.pay = IF attribute = "pay" THEN Unknown ELSE job.pay
        /\ w.currency = IF attribute = "currency" THEN Unknown ELSE job.currency
        /\ w.age = IF attribute = "age" THEN Unknown ELSE job.age
        /\ w.years = IF attribute = "years" THEN [min |-> Unknown, max |-> Unknown] ELSE job.years
    BY WithoutIs
  <1>2. Source!WantedPlace(w, query)
    <2>1. CASE attribute = "mode"
      BY <2>1
    <2>2. CASE attribute # "mode"
      <3> HIDE DEF w
      <3>1. w.mode = job.mode /\ w.place \in {job.place, Unknown}
        BY <1>1, <2>2
      <3>2. QED
        BY <3>1 DEF Source!Wanted, Source!WantedPlace
    <2>3. QED
      BY <2>1, <2>2
  <1> HIDE DEF w
  <1>3. Source!WantedPay(w, query)
    BY <1>1 DEF Source!Wanted, Source!WantedPay, Source!MayBeAtMost
  <1>4. /\ w.age \in {job.age, Unknown}
        /\ w.years \in {job.years, [min |-> Unknown, max |-> Unknown]}
        /\ w.mode = job.mode \/ (w.mode = "none" /\ query.remote # "yes")
    BY <1>1
  <1>5. Source!Wanted(w, query)
    BY <1>1, <1>2, <1>3, <1>4, LessKnownIsKept, Zenon
  <1>6. QED
    BY <1>5 DEF w

\* A board brings a posting that leaves an attribute out.
LEMMA BoardKeeps ==
    ASSUME NEW job, {"words", "tags", "company", "provider"} \union Omittable \subseteq DOMAIN job,
           NEW query, Survives(job, "boards", query),
           NEW attribute \in Omittable,
           attribute = "mode" => /\ query.remote # "yes"
                                 /\ Source!WantedPlace(Without(job, "mode"), query)
    PROVE  Survives(Without(job, attribute), "boards", query)
  <1> DEFINE w == Without(job, attribute)
             n == Source!NormalizeBoard(job)
             o == Source!NormalizeBoard(w)
  <1>1. /\ DOMAIN w = DOMAIN job
        /\ w.words = job.words /\ w.company = job.company /\ w.provider = job.provider
        /\ w.mode = IF attribute = "mode" THEN "none" ELSE job.mode
        /\ w.place = IF attribute = "place" THEN Unknown ELSE job.place
        /\ w.age = IF attribute = "age" THEN Unknown ELSE job.age
    BY WithoutIs
  <1>2. attribute = "mode" => Source!WantedPlace(w, query)
    OBVIOUS
  <1> HIDE DEF w
  <1>3. Source!OnBoard(job, Source!Params(query)) /\ Source!Wanted(n, query)
    BY DEF Survives
  <1>4. Source!OnBoard(w, Source!Params(query))
    BY <1>1, <1>3 DEF Source!OnBoard, Source!TitleWords
  <1>5. ASSUME NEW p, Omittable \union {"company"} \subseteq DOMAIN p
        PROVE  LET b == Source!NormalizeBoard(p)
               IN  /\ b.company = p.company /\ b.place = p.place /\ b.age = p.age
                   /\ b.mode = IF p.mode = "hybrid" /\ p.provider = "greenhouse" THEN "none" ELSE p.mode
                   /\ b.years = [min |-> Unknown, max |-> Unknown]
                   /\ b.pay = Unknown /\ b.currency = Unknown
    BY <1>5 DEF Source!NormalizeBoard, Omittable
  <1>6. /\ n.company = job.company /\ n.place = job.place /\ n.age = job.age
        /\ n.mode = IF job.mode = "hybrid" /\ job.provider = "greenhouse" THEN "none" ELSE job.mode
        /\ n.years = [min |-> Unknown, max |-> Unknown]
    BY <1>5
  <1>7. /\ o.company = w.company /\ o.place = w.place /\ o.age = w.age
        /\ o.mode = IF w.mode = "hybrid" /\ w.provider = "greenhouse" THEN "none" ELSE w.mode
        /\ o.years = [min |-> Unknown, max |-> Unknown] /\ o.pay = Unknown
    BY <1>1, <1>5
  <1> HIDE DEF n, o
  <1>8. Source!WantedPlace(o, query)
    <2>1. CASE attribute = "mode"
      <3>1. o.mode = w.mode /\ o.place = w.place
        BY <1>1, <1>7, <2>1
      <3>2. QED
        BY <1>2, <2>1, <3>1 DEF Source!WantedPlace
    <2>2. CASE attribute # "mode"
      <3>1. o.mode = n.mode /\ o.place \in {n.place, Unknown}
        BY <1>1, <1>6, <1>7, <2>2
      <3>2. QED
        BY <1>3, <3>1 DEF Source!Wanted, Source!WantedPlace
    <2>3. QED
      BY <2>1, <2>2
  <1>9. Source!WantedPay(o, query)
    BY <1>7 DEF Source!WantedPay, Source!MayBeAtMost
  <1>10. /\ o.company = n.company /\ o.age \in {n.age, Unknown} /\ o.years = n.years
         /\ o.mode = n.mode \/ (o.mode = "none" /\ query.remote # "yes")
    BY <1>1, <1>6, <1>7
  <1>11. Source!Wanted(o, query)
    BY <1>3, <1>8, <1>9, <1>10, LessKnownIsKept
  <1>12. Survives(w, "boards", query)
    BY <1>4, <1>11 DEF Survives, o
  <1>13. QED
    BY <1>12 DEF w

\* What normalization makes of a posting of a feed.
Brought(posting, feed) ==
    IF feed = "feeds" THEN Source!NormalizeFeed(posting) ELSE Source!NormalizeRemoteOk(posting)

\* A feed brings a posting that leaves an attribute out, unless the age is limited
\* and it leaves out its date.
LEMMA FeedKeeps ==
    ASSUME NEW job, {"words", "tags", "company", "provider"} \union Omittable \subseteq DOMAIN job,
           NEW query, NEW feed \in {"remoteok", "feeds"}, Survives(job, feed, query),
           NEW attribute \in Omittable, attribute = "age" => query.days = Unknown
    PROVE  Survives(Without(job, attribute), feed, query)
  <1> DEFINE w == Without(job, attribute)
             n == Brought(job, feed)
             o == Brought(w, feed)
  <1>1. /\ DOMAIN w = DOMAIN job
        /\ w.words = job.words /\ w.tags = job.tags /\ w.company = job.company
        /\ w.place = IF attribute = "place" THEN Unknown ELSE job.place
        /\ w.pay = IF attribute = "pay" THEN Unknown ELSE job.pay
        /\ w.age = IF attribute = "age" THEN Unknown ELSE job.age
    BY WithoutIs
  <1> HIDE DEF w
  <1>2. ASSUME NEW p
        PROVE  Survives(p, feed, query) <=> /\ Source!InFeed(p, Source!Params(query))
                                            /\ Source!Wanted(Brought(p, feed), query)
    BY DEF Survives, Brought
  <1>3. Source!InFeed(job, Source!Params(query)) /\ Source!Wanted(n, query)
    BY <1>2
  <1>4. Source!InFeed(w, Source!Params(query))
    BY <1>1, <1>3 DEF Source!InFeed, Source!TitleWords, Source!Params
  <1>5. ASSUME NEW p, Omittable \union {"company"} \subseteq DOMAIN p
        PROVE  LET b == Brought(p, feed)
               IN  /\ b.company = p.company /\ b.place = p.place /\ b.age = p.age
                   /\ b.mode = "remote" /\ b.years = [min |-> Unknown, max |-> Unknown]
                   /\ b.pay = IF feed = "feeds" THEN Unknown ELSE p.pay
                   /\ b.currency = IF feed = "feeds" \/ p.pay = Unknown THEN Unknown ELSE "USD"
    BY <1>5 DEF Brought, Source!NormalizeFeed, Source!NormalizeRemoteOk, Omittable
  <1>6. /\ n.company = job.company /\ n.place = job.place /\ n.age = job.age
        /\ n.mode = "remote" /\ n.years = [min |-> Unknown, max |-> Unknown]
        /\ n.pay = IF feed = "feeds" THEN Unknown ELSE job.pay
        /\ n.currency = IF feed = "feeds" \/ job.pay = Unknown THEN Unknown ELSE "USD"
    BY <1>5
  <1>7. /\ o.company = w.company /\ o.place = w.place /\ o.age = w.age
        /\ o.mode = "remote" /\ o.years = [min |-> Unknown, max |-> Unknown]
        /\ o.pay = IF feed = "feeds" THEN Unknown ELSE w.pay
        /\ o.currency = IF feed = "feeds" \/ w.pay = Unknown THEN Unknown ELSE "USD"
    BY <1>1, <1>5
  <1> HIDE DEF n, o
  <1>8. Source!WantedPlace(o, query)
    BY <1>7 DEF Source!WantedPlace
  <1>9. Source!WantedPay(o, query)
    <2>1. CASE o.pay = Unknown
      BY <2>1 DEF Source!WantedPay, Source!MayBeAtMost
    <2>2. CASE o.pay # Unknown
      <3>1. o.pay = n.pay /\ o.currency = n.currency
        BY <1>1, <1>6, <1>7, <2>2
      <3>2. QED
        BY <1>3, <3>1 DEF Source!Wanted, Source!WantedPay
    <2>3. QED
      BY <2>1, <2>2
  <1>10. /\ o.company = n.company /\ o.age \in {n.age, Unknown} /\ o.years = n.years /\ o.mode = n.mode
    BY <1>1, <1>6, <1>7
  <1>11. Source!Wanted(o, query)
    BY <1>3, <1>8, <1>9, <1>10, LessKnownIsKept
  <1>12. Survives(w, feed, query)
    BY <1>2, <1>4, <1>11 DEF o
  <1>13. QED
    BY <1>12 DEF w

-------------------------------------------------------------------------------
(* The answer of a filter and of a source *)

AttemptsOf(f) ==
    [n \in DOMAIN f.answers |-> Source!Asked(Source!Boards(f.configured, f.watched), f.answers[n])]

Filtered ==
    /\ part = "filter" => input \in FilterInput
                          /\ output \in {Unknown, Source!Wanted(input.job, input.query)}
    /\ part = "fetch" =>
           /\ input \in FetchInput
           /\ output # Unknown => output.boards = Source!FromBoards(AttemptsOf(input), input.query)

LEMMA FilteredKeeps ==
    ASSUME Filtered, [ServicesNext]_servicesVars
    PROVE  Filtered'
  <1>1. ASSUME part' = part, input' = input, output' = output
        PROVE  Filtered'
    BY <1>1 DEF Filtered
  <1>2. CASE \/ UNCHANGED servicesVars \/ DetectDuplicate \/ Throttle \/ CountRequests
    BY <1>1, <1>2 DEF servicesVars, callVars, DetectDuplicate, Throttle, CountRequests
  <1>3. CASE \/ RankFeed \/ BrowseJobs \/ ScoreJob \/ CompareSkills \/ BuildReport
             \/ NormalizeTexts \/ AskModel
    <2>1. part' = part /\ part # "filter" /\ part # "fetch"
      BY <1>3, Zenon DEF RankFeed, BrowseJobs, ScoreJob, CompareSkills, BuildReport,
                  NormalizeTexts, AskModel, Answers
    <2>2. QED
      BY <2>1 DEF Filtered
  <1>4. CASE FilterJob
    <2>1. /\ part' = part /\ part = "filter" /\ input' = input
          /\ output' = Source!Wanted(input.job, input.query)
      BY <1>4 DEF FilterJob, Answers
    <2>2. QED
      BY <2>1 DEF Filtered
  <1>5. CASE FetchSource
    <2>1. /\ part' = part /\ part = "fetch" /\ input' = input
          /\ output'.boards = Source!FromBoards(BoardAttempts, input.query)
      BY <1>5 DEF FetchSource, Answers
    <2>2. BoardAttempts = AttemptsOf(input)
      BY DEF BoardAttempts, AttemptsOf
    <2>3. output'.boards = Source!FromBoards(AttemptsOf(input), input.query)
      BY <2>1, <2>2
    <2>4. part' = "fetch" /\ part' # "filter" /\ (input \in FetchInput <=> input' \in FetchInput)
      BY <2>1
    <2>5. Source!FromBoards(AttemptsOf(input'), input'.query)
              = Source!FromBoards(AttemptsOf(input), input.query)
      BY <2>1
    <2>6. QED
      BY <2>1, <2>3, <2>4, <2>5 DEF Filtered
  <1>6. QED
    BY <1>2, <1>3, <1>4, <1>5 DEF ServicesNext

\* What an attempt asks: boards with an answer that is a list.
LEMMA AttemptIs ==
    ASSUME NEW f \in FetchInput, NEW m \in DOMAIN AttemptsOf(f)
    PROVE  Listing(AttemptsOf(f)[m]) /\ \A b \in ToSet(AttemptsOf(f)[m]) : GoodBoard(b)
  <1> DEFINE boards == Source!Boards(f.configured, f.watched)
             answers == f.answers[m]
             asked == Source!Asked(boards, answers)
  <1>1. Listing(f.configured) /\ Listing(f.watched) /\ Listing(f.answers)
    BY FetchAssumption DEF Listing
  <1>2. Listing(boards)
    BY <1>1, BoardsAre
  <1>3. m \in DOMAIN f.answers /\ AttemptsOf(f)[m] = asked
    BY DEF AttemptsOf
  <1>4. answers \in ToSet(f.answers)
    BY <1>3 DEF ToSet
  <1>5. \A b \in ToSet(boards) : answers[b.token].body = Unknown \/ Listing(answers[b.token].body)
    BY <1>4, FetchAssumption, Zenon DEF Listing
  <1> HIDE DEF boards, answers
  <1>6. DOMAIN boards = 1 .. Len(boards) /\ Len(boards) \in Nat
    BY <1>2, LenProperties DEF Listing
  <1>7. /\ DOMAIN asked = 1 .. Len(boards)
        /\ asked = [n \in 1 .. Len(boards) |-> asked[n]]
        /\ \A n \in 1 .. Len(boards) : asked[n].response = answers[boards[n].token]
    BY <1>6 DEF Source!Asked
  <1> HIDE DEF asked
  <1>8. Listing(asked)
    <2>1. \A n \in 1 .. Len(boards) : asked[n] \in ToSet(asked)
      BY <1>7 DEF ToSet
    <2>2. asked \in Seq(ToSet(asked))
      BY <1>6, <1>7, <2>1
    <2>3. QED
      BY <2>2 DEF Listing
  <1>9. ASSUME NEW b \in ToSet(asked) PROVE GoodBoard(b)
    <2>1. PICK n \in 1 .. Len(boards) : asked[n] = b
      BY <1>7 DEF ToSet
    <2>2. boards[n] \in ToSet(boards)
      BY <1>6 DEF ToSet
    <2>3. b.response = answers[boards[n].token]
      BY <1>7, <2>1
    <2>4. QED
      BY <1>5, <2>2, <2>3 DEF GoodBoard
  <1>10. QED
    BY <1>3, <1>8, <1>9

LEMMA LimitIsNat ==
    ASSUME NEW f \in FetchInput
    PROVE  Source!Params(f.query).limit \in Nat
  <1>1. MaxPerSource \in Nat /\ f.query.limit \in Nat \union {Unknown}
    BY FetchAssumption
  <1>2. \A x, y \in Nat : Source!Min({x, y}) \in Nat
    BY TwoMinMax, SourceOps
  <1>3. QED
    BY <1>1, <1>2 DEF Source!Params

\* An attempt in which a board answers, or none is asked.
WorkingAttempt(attempt, p) ==
    LET c == Source!Chosen(attempt, p)
    IN  c = << >> \/ \E b \in ToSet(c) : Source!FetchBoard(b).error = "none"

\* The first attempt that works is the one whose postings are delivered, and if it
\* had room, all its boards are.
LEMMA NoneIsHidden ==
    ASSUME NEW f \in FetchInput, NEW m \in DOMAIN AttemptsOf(f), m <= Attempts,
           WorkingAttempt(AttemptsOf(f)[m], Source!Params(f.query)),
           \A n \in 1 .. m - 1 : ~WorkingAttempt(AttemptsOf(f)[n], Source!Params(f.query)),
           Len(Source!SearchBoards(AttemptsOf(f)[m], Source!Params(f.query)).jobs)
               # Source!Params(f.query).limit,
           NEW b \in ToSet(AttemptsOf(f)[m])
    PROVE  ToSet(Source!FromBoards(<< <<b>> >>, f.query))
               \subseteq ToSet(Source!FromBoards(AttemptsOf(f), f.query))
  <1> DEFINE attempts == AttemptsOf(f)
             p == Source!Params(f.query)
             answers == [n \in DOMAIN attempts |-> Source!SearchBoards(attempts[n], p)]
             L == Len(f.answers)
             c(n) == Source!Chosen(attempts[n], p)
  <1>1. p.limit \in Nat
    BY LimitIsNat
  <1>2. L \in Nat /\ DOMAIN attempts = 1 .. L /\ DOMAIN answers = 1 .. L /\ m \in 1 .. L
    <2>1. Listing(f.answers)
      BY FetchAssumption DEF Listing
    <2>2. DOMAIN f.answers = 1 .. L /\ L \in Nat
      BY <2>1, LenProperties DEF Listing
    <2>3. QED
      BY <2>2 DEF AttemptsOf
  <1>3. Len(answers) = L
    <2> HIDE DEF attempts, L
    <2>1. answers = [n \in 1 .. L |-> Source!SearchBoards(attempts[n], p)]
      BY <1>2
    <2>2. QED
      BY <1>2, <2>1
  <1>4. \A n \in 1 .. L : answers[n] = Source!SearchBoards(attempts[n], p)
    BY <1>2
  <1>5. ASSUME NEW n \in 1 .. L
        PROVE  /\ Listing(attempts[n]) /\ \A x \in ToSet(attempts[n]) : GoodBoard(x)
               /\ c(n) \in Seq(ToSet(attempts[n])) /\ ToSet(c(n)) \subseteq ToSet(attempts[n])
               /\ ToSet(c(n)) = {x \in ToSet(attempts[n]) :
                                     p.companies = {} \/ x.company \in p.companies}
    <2>1. n \in DOMAIN AttemptsOf(f)
      BY <1>2
    <2>2. Listing(attempts[n]) /\ \A x \in ToSet(attempts[n]) : GoodBoard(x)
      BY <2>1, AttemptIs
    <2> HIDE DEF p, attempts
    <2>3. /\ c(n) \in Seq(ToSet(attempts[n]))
          /\ ToSet(c(n)) = {x \in ToSet(attempts[n]) :
                                p.companies = {} \/ x.company \in p.companies}
      BY <2>2, ChosenIs, Zenon DEF Listing
    <2>4. QED
      BY <2>2, <2>3
  <1>6. /\ \A n \in 1 .. m - 1 : ~WorkingAttempt(attempts[n], p)
        /\ WorkingAttempt(attempts[m], p)
        /\ Len(Source!SearchBoards(attempts[m], p).jobs) # p.limit
        /\ b \in ToSet(attempts[m])
    OBVIOUS
  <1> HIDE DEF attempts, answers, p, L
  <1> DEFINE s == Source!SearchBoards(attempts[m], p)
  <1>7. /\ Listing(s.jobs) /\ Len(s.jobs) <= p.limit /\ s.error = "none"
        /\ \A x \in ToSet(c(m)) : ToSet(Suited(x, p)) \subseteq ToSet(s.jobs)
    <2> DEFINE d == c(m)
    <2>1. d \in Seq(ToSet(attempts[m])) /\ Source!Chosen(attempts[m], p) = d
          /\ \A x \in ToSet(d) : GoodBoard(x)
      BY <1>2, <1>5
    <2>2. d = << >> \/ \E x \in ToSet(d) : Replies(x)
      BY <1>6 DEF WorkingAttempt, Replies
    <2> HIDE DEF d
    <2>3. QED
      BY <1>1, <1>6, <2>1, <2>2, SearchIs DEF d
  <1>8. p.limit > 0
    <2>1. Len(s.jobs) \in Nat
      BY <1>7, LenProperties DEF Listing
    <2>2. QED
      BY <1>1, <1>6, <1>7, <2>1
  <1>9. Source!Retried(answers) = s
    <2>1. answers[m].error \notin Source!Retryable
      BY <1>2, <1>4, <1>7, Zenon DEF Source!Retryable
    <2>2. ASSUME NEW n \in 1 .. m - 1
          PROVE  answers[n].error \in Source!Retryable
      <3> DEFINE d == c(n)
      <3>1. n \in 1 .. L
        BY <1>2
      <3>2. d \in Seq(ToSet(attempts[n])) /\ Source!Chosen(attempts[n], p) = d
            /\ \A x \in ToSet(d) : GoodBoard(x)
        BY <1>5, <3>1
      <3>3. d # << >> /\ \A x \in ToSet(d) : ~Replies(x)
        BY <1>6 DEF WorkingAttempt, Replies
      <3> HIDE DEF d
      <3> DEFINE t == Source!SearchBoards(attempts[n], p)
      <3>4. t.error \in {"none", "unavailable"} /\ t.error # "none"
        BY <1>1, <1>8, <3>2, <3>3, SearchIs
      <3>5. answers[n] = t
        BY <1>4, <3>1
      <3>6. QED
        BY <3>4, <3>5, Zenon DEF Source!Retryable
    <2>3. Source!Retried(answers) = answers[m]
      BY <1>2, <1>3, <2>1, <2>2, FirstThatCounts
    <2>4. QED
      BY <1>2, <1>4, <2>3
  <1> DEFINE single == << <<b>> >>
             e == Source!Chosen(<<b>>, p)
             o == Source!SearchBoards(<<b>>, p)
  <1>10. Source!FromBoards(single, f.query) = Source!Delivered(o, f.query, "boards")
    <2> DEFINE ones == [n \in DOMAIN single |-> Source!SearchBoards(single[n], p)]
    <2>1. ones = [n \in 1 .. 1 |-> o] /\ Len(ones) = 1 /\ ones[1] = o
      OBVIOUS
    <2>2. Source!FromBoards(single, f.query)
              = Source!Delivered(Source!Retried(ones), f.query, "boards")
      BY DEF Source!FromBoards, p
    <2> HIDE DEF ones, o
    <2>3. Source!Retried(ones) = o
      BY <2>1, OnlyAnswer
    <2>4. QED
      BY <2>2, <2>3
  <1>11. Source!FromBoards(attempts, f.query) = Source!Delivered(s, f.query, "boards")
    BY <1>9 DEF Source!FromBoards, answers, p
  <1>12. /\ e \in Seq({b})
         /\ ToSet(e) = {x \in {b} : p.companies = {} \/ x.company \in p.companies}
    <2> DEFINE list == <<b>>
    <2>1. list \in Seq({b}) /\ ToSet(list) = {b}
      BY DEF ToSet
    <2> HIDE DEF list
    <2>2. /\ Source!Chosen(list, p) \in Seq({b})
          /\ ToSet(Source!Chosen(list, p))
                 = {x \in ToSet(list) : p.companies = {} \/ x.company \in p.companies}
      <3> DEFINE B == {b}
      <3>1. list \in Seq(B)
        BY <2>1
      <3> HIDE DEF B
      <3>2. /\ Source!Chosen(list, p) \in Seq(B)
            /\ ToSet(Source!Chosen(list, p))
                   = {x \in ToSet(list) : p.companies = {} \/ x.company \in p.companies}
        BY <3>1, ChosenIs, Zenon
      <3>3. QED
        BY <3>2 DEF B
    <2>3. QED
      BY <2>1, <2>2 DEF list
  <1>13. ToSet(e) \subseteq ToSet(c(m)) /\ \A x \in ToSet(e) : GoodBoard(x)
    BY <1>2, <1>5, <1>6, <1>12
  <1>14. Listing(o.jobs) /\ ToSet(o.jobs) \subseteq UNION {ToSet(Suited(x, p)) : x \in ToSet(e)}
    <2> DEFINE list == <<b>>
               d == e
    <2>1. d \in Seq({b}) /\ Source!Chosen(list, p) = d /\ \A x \in ToSet(d) : GoodBoard(x)
      BY <1>12, <1>13
    <2> HIDE DEF list, d
    <2> DEFINE t == Source!SearchBoards(list, p)
    <2>2. Listing(t.jobs) /\ ToSet(t.jobs) \subseteq UNION {ToSet(Suited(x, p)) : x \in ToSet(d)}
      BY <1>1, <2>1, SearchIs, Zenon
    <2>3. QED
      BY <2>2, Zenon DEF list, d
  <1> HIDE DEF o, e, s
  <1>15. ToSet(o.jobs) \subseteq ToSet(s.jobs)
    BY <1>7, <1>13, <1>14
  <1>16. ToSet(Source!Delivered(o, f.query, "boards"))
             \subseteq ToSet(Source!Delivered(s, f.query, "boards"))
    BY <1>7, <1>14, <1>15, MoreDelivered
  <1>17. QED
    BY <1>10, <1>11, <1>16 DEF attempts

\* What a posting leaves out hides it in no other way than the four the property
\* names (a mode under a search for remote jobs or for a place, a currency, the date
\* under a limit of age); a board is not hidden by another that fails, and what an
\* attempt that failed lost, the next attempt finds, for any postings, boards,
\* answers and filters; a board that is watched is read, and once where it is
\* configured too (normalization_service.py:16-19, 45-91, remoteok.py:96-99,
\* weworkremotely.py:108-111, company_careers.py:10-11, boards.py:60-72).
THEOREM NothingHiddenAlways == ServicesSpec => []NothingHidden
  <1>1. ServicesInit => Filtered
    BY DEF ServicesInit, InputOf, Filtered
  <1>2. Filtered /\ [ServicesNext]_servicesVars => Filtered'
    BY FilteredKeeps
  <1>3. Filtered => NothingHidden
    <2> SUFFICES ASSUME Filtered PROVE NothingHidden
      OBVIOUS
    <2>1. ASSUME Answered("filter"), NEW attribute \in Omittable
          PROVE  LET job == input.job
                     query == input.query
                     Unmarked ==
                         attribute = "mode" /\ (query.remote = "yes"
                                                \/ ~Source!WantedPlace(Without(job, "mode"), query))
                 IN  /\ output => \/ Source!Wanted(Without(job, attribute), query)
                                  \/ Unmarked
                                  \/ attribute = "currency" /\ query.currency \notin {Unknown, job.currency}
                     /\ Survives(job, "boards", query) =>
                            Survives(Without(job, attribute), "boards", query) \/ Unmarked
                     /\ \A feed \in {"remoteok", "feeds"} : Survives(job, feed, query) =>
                            \/ Survives(Without(job, attribute), feed, query)
                            \/ attribute = "age" /\ query.days # Unknown
      <3>1. input \in FilterInput /\ (output => Source!Wanted(input.job, input.query))
        BY <2>1, Zenon DEF Filtered, Answered
      <3>2. {"words", "tags", "company", "provider"} \union Omittable \subseteq DOMAIN input.job
        BY <3>1, FetchAssumption
      <3>3. QED
        BY <2>1, <3>1, <3>2, UnknownIsKept, BoardKeeps, FeedKeeps
    <2>2. ASSUME Answered("fetch")
          PROVE  /\ input \in FetchInput /\ BoardAttempts = AttemptsOf(input)
                 /\ output.boards = Source!FromBoards(AttemptsOf(input), input.query)
      BY <2>2 DEF Filtered, Answered, BoardAttempts, AttemptsOf
    <2>3. ASSUME Answered("fetch")
          PROVE  LET boards == Source!Boards(input.configured, input.watched)
                 IN  \A w \in ToSet(input.watched) :
                     \A b \in ToSet(Source!BoardOf(w.company, w.url)) :
                         \E n \in DOMAIN boards : \A k \in DOMAIN boards :
                             Same(boards[k], b) <=> k = n
      <3>1. Listing(input.configured) /\ Listing(input.watched)
        BY <2>2, <2>3, FetchAssumption DEF Listing
      <3>2. QED
        BY <3>1, BoardsAre
    <2>4. ASSUME Answered("fetch")
          PROVE  LET p == Source!Params(input.query)
                     works == {n \in DOMAIN BoardAttempts :
                                   n <= Attempts /\ WorkingAttempt(BoardAttempts[n], p)}
                 IN  works # {} =>
                      \/ Len(Source!SearchBoards(BoardAttempts[Min(works)], p).jobs) = p.limit
                      \/ \A b \in ToSet(BoardAttempts[Min(works)]) :
                             ToSet(Source!FromBoards(<< <<b>> >>, input.query))
                                 \subseteq ToSet(output.boards)
      <3> DEFINE f == input
                 p == Source!Params(f.query)
                 works == {n \in DOMAIN AttemptsOf(f) :
                               n <= Attempts /\ WorkingAttempt(AttemptsOf(f)[n], p)}
      <3>1. /\ f \in FetchInput /\ BoardAttempts = AttemptsOf(f)
            /\ output.boards = Source!FromBoards(AttemptsOf(f), f.query)
        BY <2>2, <2>4
      <3> SUFFICES ASSUME works # {},
                          Len(Source!SearchBoards(AttemptsOf(f)[Min(works)], p).jobs) # p.limit,
                          NEW b \in ToSet(AttemptsOf(f)[Min(works)])
                   PROVE  ToSet(Source!FromBoards(<< <<b>> >>, f.query))
                              \subseteq ToSet(Source!FromBoards(AttemptsOf(f), f.query))
        BY <3>1, Zenon
      <3> DEFINE m == Min(works)
      <3> HIDE DEF f
      <3>2. /\ DOMAIN AttemptsOf(f) = 1 .. Len(f.answers) /\ 1 \in Int /\ Len(f.answers) \in Int
        <4>1. Listing(f.answers)
          BY <3>1, FetchAssumption DEF Listing
        <4>2. Len(f.answers) \in Nat /\ DOMAIN f.answers = 1 .. Len(f.answers)
          BY <4>1, LenProperties DEF Listing
        <4>3. DOMAIN AttemptsOf(f) = DOMAIN f.answers
          BY Zenon DEF AttemptsOf
        <4>4. QED
          BY <4>2, <4>3
      <3>3. m \in works /\ \A n \in works : m <= n
        <4>1. works \subseteq 1 .. Len(f.answers)
          BY <3>2
        <4> HIDE DEF works
        <4>2. QED
          BY <3>2, <4>1, MinMaxIs, Zenon
      <3>4. m \in DOMAIN AttemptsOf(f) /\ m <= Attempts /\ WorkingAttempt(AttemptsOf(f)[m], p)
        BY <3>3
      <3>5. ASSUME NEW n \in 1 .. m - 1 PROVE ~WorkingAttempt(AttemptsOf(f)[n], p)
        <4> HIDE DEF m, p
        <4>1. m \in 1 .. Len(f.answers) /\ Attempts \in Int /\ m <= Attempts
          BY <3>2, <3>4, FetchAssumption
        <4>2. n \in DOMAIN AttemptsOf(f) /\ n <= Attempts /\ ~(m <= n)
          BY <3>2, <4>1
        <4>3. QED
          BY <3>3, <4>2
      <3> HIDE DEF m, works
      <3>6. QED
        BY <3>1, <3>4, <3>5, NoneIsHidden DEF m
    <2>5. QED
      BY <2>1, <2>2, <2>3, <2>4 DEF NothingHidden, Same, WorkingAttempt
  <1>4. QED
    BY <1>1, <1>2, <1>3, PTL DEF ServicesSpec

-------------------------------------------------------------------------------
(* Places in a total order *)

\* A total order R of S, as a set of pairs.
TotalOrder(R, S) ==
    /\ \A a, b \in S : <<a, b>> \in R \/ <<b, a>> \in R
    /\ \A a, b \in S : <<a, b>> \in R /\ <<b, a>> \in R => a = b
    /\ \A a, b, c \in S : <<a, b>> \in R /\ <<b, c>> \in R => <<a, c>> \in R

\* How many come no later than a.
PlaceIn(R, S, a) == Cardinality({b \in S : <<b, a>> \in R})

LEMMA PlacesAre ==
    ASSUME NEW S, IsFiniteSet(S), NEW R, TotalOrder(R, S)
    PROVE  /\ Cardinality(S) \in Nat
           /\ \A a \in S : PlaceIn(R, S, a) \in 1 .. Cardinality(S)
           /\ \A a, b \in S : PlaceIn(R, S, a) <= PlaceIn(R, S, b) <=> <<a, b>> \in R
           /\ \A a, b \in S : PlaceIn(R, S, a) = PlaceIn(R, S, b) => a = b
           /\ \A k \in 1 .. Cardinality(S) : \E a \in S : PlaceIn(R, S, a) = k
  <1> DEFINE upTo(x) == {y \in S : <<y, x>> \in R}
             place(x) == PlaceIn(R, S, x)
  <1>1. \A x \in S : IsFiniteSet(upTo(x)) /\ upTo(x) \in SUBSET S /\ x \in upTo(x)
    <2> SUFFICES ASSUME NEW x \in S PROVE IsFiniteSet(upTo(x)) /\ upTo(x) \in SUBSET S /\ x \in upTo(x)
      BY Zenon
    <2>1. upTo(x) \in SUBSET S /\ x \in upTo(x)
      BY DEF TotalOrder
    <2>2. QED
      BY <2>1, FS_Subset, Zenon
  <1>2. Cardinality(S) \in Nat
    BY FS_CardinalityType
  <1>3. \A x \in S : place(x) = Cardinality(upTo(x))
    BY DEF PlaceIn
  <1> HIDE DEF place
  <1>4. ASSUME NEW x \in S PROVE place(x) \in 1 .. Cardinality(S)
    <2>1. IsFiniteSet(upTo(x)) /\ upTo(x) \in SUBSET S /\ upTo(x) # {}
      BY <1>1, Zenon
    <2> HIDE DEF upTo
    <2>2. Cardinality(upTo(x)) <= Cardinality(S) /\ Cardinality(upTo(x)) \in Nat
      BY <2>1, FS_Subset, FS_CardinalityType
    <2>3. Cardinality(upTo(x)) # 0
      BY <2>1, FS_EmptySet
    <2>4. QED
      BY <1>2, <1>3, <2>2, <2>3
  <1>5. ASSUME NEW x \in S, NEW y \in S, <<x, y>> \in R, x # y PROVE place(x) < place(y)
    <2>1. upTo(x) \in SUBSET upTo(y)
      BY <1>5 DEF TotalOrder
    <2>2. y \in upTo(y) /\ y \notin upTo(x)
      BY <1>1, <1>5 DEF TotalOrder
    <2>3. IsFiniteSet(upTo(x)) /\ IsFiniteSet(upTo(y))
      BY <1>1, Zenon
    <2> HIDE DEF upTo
    <2>4. Cardinality(upTo(x)) <= Cardinality(upTo(y)) /\ Cardinality(upTo(x)) # Cardinality(upTo(y))
      BY <2>1, <2>2, <2>3, FS_Subset
    <2>5. Cardinality(upTo(x)) \in Nat /\ Cardinality(upTo(y)) \in Nat
      BY <2>3, FS_CardinalityType
    <2>6. QED
      BY <1>3, <2>4, <2>5
  <1>6. ASSUME NEW x \in S, NEW y \in S
        PROVE  (place(x) <= place(y) <=> <<x, y>> \in R) /\ (place(x) = place(y) => x = y)
    <2>1. place(x) \in Int /\ place(y) \in Int
      BY <1>4
    <2>2. CASE x = y
      <3>1. <<x, y>> \in R
        BY <2>2 DEF TotalOrder
      <3>2. QED
        BY <2>1, <2>2, <3>1
    <2>3. CASE x # y
      <3>1. <<x, y>> \in R \/ <<y, x>> \in R
        BY DEF TotalOrder
      <3>2. ~(<<x, y>> \in R /\ <<y, x>> \in R)
        BY <2>3 DEF TotalOrder
      <3>3. CASE <<x, y>> \in R
        BY <1>5, <2>1, <2>3, <3>3
      <3>4. CASE <<y, x>> \in R
        <4>1. place(y) < place(x) /\ <<x, y>> \notin R
          BY <1>5, <2>3, <3>2, <3>4
        <4>2. QED
          BY <2>1, <4>1
      <3>5. QED
        BY <3>1, <3>3, <3>4
    <2>4. QED
      BY <2>2, <2>3
  <1>7. ASSUME NEW k \in 1 .. Cardinality(S) PROVE \E x \in S : place(x) = k
    <2> DEFINE f == [x \in S |-> place(x)]
               ranks == 1 .. Cardinality(S)
    <2>1. f \in [S -> ranks]
      BY <1>4
    <2>2. \A x, y \in S : f[x] = f[y] => x = y
      BY <1>6, Zenon
    <2>3. f \in Injection(S, ranks)
      BY <2>1, <2>2 DEF Injection, IsInjective
    <2>4. IsFiniteSet(ranks) /\ Cardinality(ranks) = Cardinality(S)
      BY <1>2, FS_Interval
    <2> HIDE DEF ranks, f
    <2>5. f \in Surjection(S, ranks)
      BY <2>3, <2>4, FS_Injection
    <2>6. \E x \in S : f[x] = k
      BY <2>5 DEF Surjection, ranks
    <2>7. QED
      BY <2>6 DEF f
  <1>8. QED
    BY <1>2, <1>4, <1>6, <1>7, Zenon DEF place

\* As many as there are, when each has something of its own.
LEMMA ImageSize ==
    ASSUME NEW S, IsFiniteSet(S), NEW f, \A a, b \in S : f[a] = f[b] => a = b
    PROVE  IsFiniteSet({f[a] : a \in S}) /\ Cardinality({f[a] : a \in S}) = Cardinality(S)
  <1> DEFINE image == {f[a] : a \in S}
             g == [a \in S |-> f[a]]
  <1>1. g \in Bijection(S, image)
    <2>1. g \in Surjection(S, image)
      BY DEF Surjection
    <2>2. \A a, b \in S : g[a] = g[b] => a = b
      OBVIOUS
    <2>3. QED
      BY <2>1, <2>2 DEF Bijection, Injection, IsInjective, Surjection
  <1> HIDE DEF image, g
  <1>2. ExistsBijection(S, image)
    BY <1>1 DEF ExistsBijection
  <1>3. IsFiniteSet(image) /\ Cardinality(image) = Cardinality(S)
    BY <1>2, FS_Bijection, FS_Surjection, <1>1 DEF Bijection
  <1>4. QED
    BY <1>3 DEF image

-------------------------------------------------------------------------------
(* Sorting *)

\* Of two positions, the one with the greater key comes first, of equal ones the first.
NoLater(key, k, n) == key[k] > key[n] \/ (key[k] = key[n] /\ k <= n)

\* p tells, of each place, the position it comes from.
SortedBy(p, key, N) ==
    /\ p \in [1 .. N -> 1 .. N]
    /\ \A n, k \in 1 .. N : p[n] = p[k] => n = k
    /\ \A k \in 1 .. N : \E n \in 1 .. N : p[n] = k
    /\ \A n, k \in 1 .. N : n <= k => NoLater(key, p[n], p[k])
    /\ \A n \in 1 .. N : Cardinality({k \in 1 .. N : NoLater(key, k, p[n])}) = n

LEMMA SortedIs ==
    ASSUME NEW T, NEW seq \in Seq(T), NEW key, \A n \in DOMAIN seq : key[n] \in Int
    PROVE  /\ Feed!SortDown(seq, key) \in Seq(T) /\ Len(Feed!SortDown(seq, key)) = Len(seq)
           /\ \E p : /\ SortedBy(p, key, Len(seq))
                    /\ \A n \in 1 .. Len(seq) : Feed!SortDown(seq, key)[n] = seq[p[n]]
  <1> DEFINE N == Len(seq)
             S == 1 .. N
             R == {r \in S \X S : NoLater(key, r[1], r[2])}
             pair == [n \in S |-> <<key[n], n>>]
             numbered == {<<key[n], n>> : n \in DOMAIN seq}
             Before(a, b) == a[1] > b[1] \/ (a[1] = b[1] /\ a[2] <= b[2])
             Nth(n) == CHOOSE q \in numbered : Feed!Cardinality({a \in numbered : Before(a, q)}) = n
             sorted == Feed!SortDown(seq, key)
  <1>1. DOMAIN seq = S /\ N \in Nat /\ IsFiniteSet(S) /\ Cardinality(S) = N
        /\ \A n \in S : seq[n] \in T /\ key[n] \in Int /\ n \in Int
    <2>1. DOMAIN seq = S /\ N \in Nat
      BY LenProperties
    <2>2. IsFiniteSet(S) /\ Cardinality(S) = N
      <3>1. N \in Nat
        BY <2>1
      <3> HIDE DEF N
      <3>2. QED
        BY <3>1, FS_Interval
    <2>3. \A n \in S : seq[n] \in T
      BY ElementOfSeq
    <2>4. QED
      BY <2>1, <2>2, <2>3
  <1>2. sorted = [n \in S |-> seq[Nth(n)[2]]]
    BY <1>1 DEF Feed!SortDown
  <1>3. \A a, b \in S : <<a, b>> \in R <=> NoLater(key, a, b)
    OBVIOUS
  <1>4. TotalOrder(R, S)
    <2>1. \A a, b \in S : NoLater(key, a, b) \/ NoLater(key, b, a)
      BY <1>1 DEF NoLater
    <2>2. \A a, b \in S : NoLater(key, a, b) /\ NoLater(key, b, a) => a = b
      BY <1>1 DEF NoLater
    <2>3. \A a, b, c \in S : NoLater(key, a, b) /\ NoLater(key, b, c) => NoLater(key, a, c)
      BY <1>1 DEF NoLater
    <2> HIDE DEF R, S
    <2>4. QED
      BY <1>3, <2>1, <2>2, <2>3 DEF TotalOrder
  <1>5. /\ \A a \in S : PlaceIn(R, S, a) \in S
        /\ \A a, b \in S : PlaceIn(R, S, a) <= PlaceIn(R, S, b) <=> <<a, b>> \in R
        /\ \A a, b \in S : PlaceIn(R, S, a) = PlaceIn(R, S, b) => a = b
        /\ \A k \in S : \E a \in S : PlaceIn(R, S, a) = k
    <2>1. 1 .. Cardinality(S) = S
      BY <1>1
    <2>2. IsFiniteSet(S)
      BY <1>1
    <2> HIDE DEF R, S
    <2>3. /\ \A a \in S : PlaceIn(R, S, a) \in 1 .. Cardinality(S)
          /\ \A a, b \in S : PlaceIn(R, S, a) <= PlaceIn(R, S, b) <=> <<a, b>> \in R
          /\ \A a, b \in S : PlaceIn(R, S, a) = PlaceIn(R, S, b) => a = b
          /\ \A k \in 1 .. Cardinality(S) : \E a \in S : PlaceIn(R, S, a) = k
      BY <1>4, <2>2, PlacesAre
    <2>4. QED
      BY <2>1, <2>3, Zenon
  <1> DEFINE p == [n \in S |-> CHOOSE a \in S : PlaceIn(R, S, a) = n]
  <1>6. \A n \in S : p[n] \in S /\ PlaceIn(R, S, p[n]) = n
    <2> SUFFICES ASSUME NEW n \in S PROVE p[n] \in S /\ PlaceIn(R, S, p[n]) = n
      BY Zenon
    <2>1. \E a \in S : PlaceIn(R, S, a) = n
      BY <1>5, Zenon
    <2> HIDE DEF R, S
    <2>2. QED
      BY <2>1
  <1>7. p \in [S -> S]
    BY <1>6, Zenon
  <1>8. \A n \in S : PlaceIn(R, S, n) = Cardinality({k \in S : NoLater(key, k, n)})
    <2> SUFFICES ASSUME NEW n \in S
                 PROVE  PlaceIn(R, S, n) = Cardinality({k \in S : NoLater(key, k, n)})
      OBVIOUS
    <2>1. {k \in S : <<k, n>> \in R} = {k \in S : NoLater(key, k, n)}
      BY <1>3
    <2>2. QED
      BY <2>1, Zenon DEF PlaceIn
  <1>9. ASSUME NEW n \in S
        PROVE  Feed!Cardinality({a \in numbered : Before(a, pair[n])}) = PlaceIn(R, S, n)
    <2> DEFINE A == {k \in S : NoLater(key, k, n)}
               image == {pair[k] : k \in A}
    <2>1. {a \in numbered : Before(a, pair[n])} = image
      BY <1>1 DEF NoLater
    <2>2. \A k, l \in A : pair[k] = pair[l] => k = l
      OBVIOUS
    <2>3. IsFiniteSet(A)
      BY <1>1, FS_Subset
    <2> HIDE DEF A, pair
    <2>4. Cardinality(image) = Cardinality(A)
      BY <2>2, <2>3, ImageSize
    <2>5. PlaceIn(R, S, n) = Cardinality(A)
      BY <1>8 DEF A
    <2> HIDE DEF image
    <2>6. QED
      BY <2>1, <2>4, <2>5, FeedCardinality, Zenon
  <1>10. ASSUME NEW n \in S PROVE Nth(n) = pair[p[n]]
    <2>1. pair[p[n]] \in numbered
      BY <1>1, <1>6, Zenon
    <2>2. Feed!Cardinality({a \in numbered : Before(a, pair[p[n]])}) = n
      BY <1>6, <1>9, Zenon
    <2>3. ASSUME NEW q \in numbered, Feed!Cardinality({a \in numbered : Before(a, q)}) = n
          PROVE  q = pair[p[n]]
      <3>1. PICK k \in S : q = pair[k]
        BY <1>1
      <3>2. PlaceIn(R, S, k) = n
        BY <1>9, <2>3, <3>1
      <3>3. k = p[n]
        BY <1>5, <1>6, <3>2
      <3>4. QED
        BY <3>1, <3>3
    <2> HIDE DEF numbered, Before, pair, p, S, R
    <2>4. QED
      BY <2>1, <2>2, <2>3
  <1>11. \A n \in S : sorted[n] = seq[p[n]]
    <2> SUFFICES ASSUME NEW n \in S PROVE sorted[n] = seq[p[n]]
      BY Zenon
    <2>1. sorted[n] = seq[Nth(n)[2]]
      BY <1>2
    <2>2. Nth(n)[2] = p[n]
      <3>1. \A k \in S : pair[k][2] = k
        OBVIOUS
      <3>2. p[n] \in S /\ Nth(n) = pair[p[n]]
        BY <1>6, <1>10, Zenon
      <3> HIDE DEF p, pair, Nth
      <3>3. QED
        BY <3>1, <3>2
    <2>3. QED
      BY <2>1, <2>2, Zenon
  <1>12. SortedBy(p, key, N)
    <2>1. \A n, k \in S : p[n] = p[k] => n = k
      BY <1>6, Zenon
    <2>2. ASSUME NEW k \in S PROVE \E n \in S : p[n] = k
      <3>1. PlaceIn(R, S, k) \in S /\ p[PlaceIn(R, S, k)] = k
        BY <1>5, <1>6
      <3>2. QED
        BY <3>1, Zenon
    <2>3. ASSUME NEW n \in S, NEW k \in S, n <= k PROVE NoLater(key, p[n], p[k])
      <3>1. <<p[n], p[k]>> \in R
        <4>1. /\ p[n] \in S /\ p[k] \in S
              /\ PlaceIn(R, S, p[n]) = n /\ PlaceIn(R, S, p[k]) = k
          BY <1>6, Zenon
        <4> HIDE DEF p, R
        <4>2. PlaceIn(R, S, p[n]) <= PlaceIn(R, S, p[k])
          BY <2>3, <4>1
        <4>3. QED
          BY <1>5, <4>1, <4>2, Zenon
      <3>2. QED
        BY <1>3, <1>6, <3>1, Zenon
    <2>4. \A n \in S : Cardinality({k \in S : NoLater(key, k, p[n])}) = n
      BY <1>6, <1>8, Zenon
    <2> HIDE DEF p
    <2>5. QED
      BY <1>7, <2>1, <2>2, <2>3, <2>4, Zenon DEF SortedBy
  <1>13. sorted \in Seq(T) /\ Len(sorted) = N
    <2>1. DOMAIN sorted = S /\ sorted = [n \in DOMAIN sorted |-> sorted[n]]
      BY <1>2
    <2>2. \A n \in S : sorted[n] \in T
      BY <1>1, <1>6, <1>11, Zenon
    <2> HIDE DEF sorted
    <2>3. sorted \in [1 .. N -> T]
      BY <2>1, <2>2
    <2>4. QED
      BY <1>1, <2>3
  <1> HIDE DEF p
  <1>14. QED
    BY <1>11, <1>12, <1>13

-------------------------------------------------------------------------------
(* Lists of what there is, each once *)

\* The elements of S, each once.
Whole(list, S) == list \in Seq(S) /\ ToSet(list) = S /\ IsInjective(list)

LEMMA WholeIs ==
    ASSUME NEW S, NEW list \in Seq(S)
    PROVE  Whole(list, S) <=> /\ \A x \in S : \E n \in 1 .. Len(list) : list[n] = x
                              /\ \A n, k \in 1 .. Len(list) : list[n] = list[k] => n = k
  <1>1. DOMAIN list = 1 .. Len(list) /\ \A n \in 1 .. Len(list) : list[n] \in S
    BY LenProperties, ElementOfSeq
  <1>2. QED
    BY <1>1 DEF Whole, ToSet, IsInjective

LEMMA WholeSize ==
    ASSUME NEW S, NEW list, Whole(list, S)
    PROVE  Len(list) = Cardinality(S) /\ IsFiniteSet(S) /\ Len(list) \in Nat
  <1>1. list \in Seq(S) /\ DOMAIN list = 1 .. Len(list) /\ Len(list) \in Nat
    BY LenProperties DEF Whole
  <1>2. IsFiniteSet(1 .. Len(list)) /\ Cardinality(1 .. Len(list)) = Len(list)
    BY <1>1, FS_Interval
  <1> DEFINE D == 1 .. Len(list)
  <1>3. S = {list[n] : n \in D}
    BY <1>1 DEF Whole, ToSet
  <1>4. \A n, k \in D : list[n] = list[k] => n = k
    BY <1>1, WholeIs, Zenon DEF Whole
  <1> HIDE DEF D
  <1>5. IsFiniteSet({list[n] : n \in D}) /\ Cardinality({list[n] : n \in D}) = Cardinality(D)
    BY <1>2, <1>4, ImageSize DEF D
  <1>6. QED
    BY <1>1, <1>2, <1>3, <1>5, Zenon DEF D

\* Of two elements of kept, the first comes first among these places of the list too.
Follows(kept, list, places) ==
    \A n, k \in 1 .. Len(kept) :
        n <= k => \E x, y \in places : x <= y /\ kept[n] = list[x] /\ kept[k] = list[y]

\* What is kept of it is there once, in the order it had.
LEMMA WholeKept ==
    ASSUME NEW S, NEW list, Whole(list, S), NEW at_ \in SUBSET DOMAIN list
    PROVE  /\ Whole(Kept(list, at_), {list[x] : x \in at_})
           /\ Len(Kept(list, at_)) <= Len(list)
           /\ Follows(Kept(list, at_), list, at_)
  <1> DEFINE kept == Kept(list, at_)
             U == {list[x] : x \in at_}
             c == Cardinality(at_)
  <1>1. list \in Seq(S) /\ DOMAIN list = 1 .. Len(list) /\ Len(list) \in Nat
    BY LenProperties DEF Whole
  <1>2. /\ kept \in Seq(S) /\ Len(kept) = c /\ c \in Nat
        /\ \A k \in 1 .. c : \E x \in at_ : Rank(at_, x) = k /\ kept[k] = list[x]
        /\ \A x \in at_ : Rank(at_, x) \in 1 .. c /\ kept[Rank(at_, x)] = list[x]
    BY <1>1, PickedFacts
  <1>3. IsFiniteSet(at_) /\ \A x, y \in at_ : x < y => Rank(at_, x) < Rank(at_, y)
    BY <1>1, RankIsPlace, Zenon
  <1>4. \A x, y \in at_ : list[x] = list[y] => x = y
    BY <1>1, WholeIs, Zenon
  <1> HIDE DEF kept, c
  <1>5. DOMAIN kept = 1 .. c
    BY <1>2, LenProperties
  <1>6. \A k \in 1 .. c : kept[k] \in U
    BY <1>2
  <1>7. kept \in Seq(U)
    <2>1. kept = [k \in 1 .. c |-> kept[k]]
      BY <1>2, <1>5
    <2> HIDE DEF U
    <2>2. kept \in [1 .. c -> U]
      BY <1>6, <2>1
    <2>3. QED
      BY <1>2, <2>2
  <1>8. \A x \in U : \E k \in 1 .. c : kept[k] = x
    BY <1>2
  <1>9. \A n, k \in 1 .. c : kept[n] = kept[k] => n = k
    BY <1>2, <1>4
  <1>10. Whole(kept, U)
    BY <1>2, <1>7, <1>8, <1>9, WholeIs
  <1>11. c <= Len(list)
    <2>1. IsFiniteSet(1 .. Len(list)) /\ Cardinality(1 .. Len(list)) = Len(list)
      <3> DEFINE N == Len(list)
      <3>1. N \in Nat
        BY <1>1
      <3> HIDE DEF N
      <3>2. IsFiniteSet(1 .. N) /\ Cardinality(1 .. N) = N
        BY <3>1, FS_Interval
      <3>3. QED
        BY <3>2 DEF N
    <2>2. at_ \in SUBSET (1 .. Len(list))
      BY <1>1
    <2>3. QED
      BY <2>1, <2>2, FS_Subset DEF c
  <1>12. ASSUME NEW n \in 1 .. c, NEW k \in 1 .. c, n <= k
         PROVE  \E x, y \in at_ : x <= y /\ kept[n] = list[x] /\ kept[k] = list[y]
    <2>1. PICK x \in at_ : Rank(at_, x) = n /\ kept[n] = list[x]
      BY <1>2
    <2>2. PICK y \in at_ : Rank(at_, y) = k /\ kept[k] = list[y]
      BY <1>2
    <2>3. x \in Int /\ y \in Int
      BY <1>1
    <2>4. ~(y < x)
      BY <1>2, <1>3, <1>12, <2>1, <2>2
    <2>5. QED
      BY <2>1, <2>2, <2>3, <2>4
  <1>13. Follows(kept, list, at_)
    BY <1>2, <1>12, Zenon DEF Follows
  <1>14. QED
    BY <1>2, <1>10, <1>11, <1>13 DEF kept

\* What comes first by one number, and of equals by the other.
InOrderOf(list, v, b) ==
    \A n, k \in 1 .. Len(list) :
        n <= k => v[list[n]] > v[list[k]] \/ (v[list[n]] = v[list[k]] /\ b[list[n]] >= b[list[k]])

\* Sorted, it is still there, in the new order and in the old one where that says nothing.
LEMMA WholeSorted ==
    ASSUME NEW S, NEW list, Whole(list, S), NEW v, NEW b, \A x \in S : v[x] \in Int /\ b[x] \in Int,
           NEW key, \A n \in 1 .. Len(list) : key[n] = v[list[n]],
           \A n, k \in 1 .. Len(list) : n <= k => b[list[n]] >= b[list[k]]
    PROVE  /\ Whole(Feed!SortDown(list, key), S) /\ Len(Feed!SortDown(list, key)) = Len(list)
           /\ InOrderOf(Feed!SortDown(list, key), v, b)
  <1> DEFINE sorted == Feed!SortDown(list, key)
             N == Len(list)
  <1>1. list \in Seq(S) /\ DOMAIN list = 1 .. N /\ N \in Nat /\ \A n \in 1 .. N : list[n] \in S
    BY LenProperties, ElementOfSeq DEF Whole
  <1>2. \A n \in DOMAIN list : key[n] \in Int
    BY <1>1
  <1>3. /\ sorted \in Seq(S) /\ Len(sorted) = N
        /\ \E p : SortedBy(p, key, N) /\ \A n \in 1 .. N : sorted[n] = list[p[n]]
    BY <1>1, <1>2, SortedIs
  <1>4. PICK p : SortedBy(p, key, N) /\ \A n \in 1 .. N : sorted[n] = list[p[n]]
    BY <1>3
  <1> HIDE DEF sorted
  <1>5. /\ \A n \in 1 .. N : p[n] \in 1 .. N
        /\ \A n, k \in 1 .. N : p[n] = p[k] => n = k
        /\ \A k \in 1 .. N : \E n \in 1 .. N : p[n] = k
        /\ \A n, k \in 1 .. N : n <= k => NoLater(key, p[n], p[k])
    BY <1>4, Zenon DEF SortedBy
  <1>6. /\ \A x \in S : \E n \in 1 .. N : list[n] = x
        /\ \A n, k \in 1 .. N : list[n] = list[k] => n = k
    BY <1>1, WholeIs, Zenon
  <1> HIDE DEF N
  <1>7. Whole(sorted, S)
    <2>1. ASSUME NEW x \in S PROVE \E n \in 1 .. N : sorted[n] = x
      <3>1. PICK k \in 1 .. N : list[k] = x
        BY <1>6
      <3>2. PICK n \in 1 .. N : p[n] = k
        BY <1>5
      <3>3. sorted[n] = x
        BY <1>4, <3>1, <3>2
      <3>4. QED
        BY <3>3
    <2>2. ASSUME NEW n \in 1 .. N, NEW k \in 1 .. N, sorted[n] = sorted[k] PROVE n = k
      <3>1. p[n] \in 1 .. N /\ p[k] \in 1 .. N /\ list[p[n]] = list[p[k]]
        BY <1>4, <1>5, <2>2
      <3>2. p[n] = p[k]
        BY <1>6, <3>1
      <3>3. QED
        BY <1>5, <3>2
    <2>3. QED
      BY <1>3, <2>1, <2>2, WholeIs
  <1>8. InOrderOf(sorted, v, b)
    <2> SUFFICES ASSUME NEW n \in 1 .. N, NEW k \in 1 .. N, n <= k
                 PROVE  \/ v[sorted[n]] > v[sorted[k]]
                        \/ v[sorted[n]] = v[sorted[k]] /\ b[sorted[n]] >= b[sorted[k]]
      BY <1>3, Zenon DEF InOrderOf
    <2>1. NoLater(key, p[n], p[k]) /\ p[n] \in 1 .. N /\ p[k] \in 1 .. N
      BY <1>5, Zenon
    <2>2. key[p[n]] = v[sorted[n]] /\ key[p[k]] = v[sorted[k]]
      BY <1>4, <2>1 DEF N
    <2>3. p[n] <= p[k] => b[sorted[n]] >= b[sorted[k]]
      BY <1>4, <2>1 DEF N
    <2>4. QED
      BY <2>1, <2>2, <2>3 DEF NoLater
  <1>9. QED
    BY <1>3, <1>7, <1>8 DEF sorted, N

LEMMA TakeIs ==
    ASSUME NEW T, NEW list \in Seq(T), NEW offset \in Nat, NEW limit \in Nat,
           NEW e, e = IF offset + limit <= Len(list) THEN offset + limit ELSE Len(list)
    PROVE  Feed!Take(list, offset, limit) = SubSeq(list, offset + 1, e)
  <1> DEFINE a == offset + limit
             S == {a, Len(list)}
  <1>1. Len(list) \in Nat /\ a \in Nat /\ e \in S /\ \A x \in S : e <= x
    BY LenProperties
  <1>2. S \subseteq 0 .. (a + Len(list)) /\ S # {} /\ a + Len(list) \in Int
    BY <1>1
  <1> HIDE DEF a
  <1>3. Min(S) \in S /\ \A x \in S : Min(S) <= x
    <2> DEFINE m == a + Len(list)
    <2>1. S \subseteq 0 .. m /\ S # {} /\ m \in Int /\ 0 \in Int
      BY <1>2
    <2> HIDE DEF S, m
    <2>2. QED
      BY <2>1, MinMaxIs, Zenon
  <1>4. Min(S) = e
    BY <1>1, <1>3
  <1>5. Feed!Min({offset + limit, Len(list)}) = e
    BY <1>4, FeedMin DEF a
  <1>6. QED
    BY <1>5, Zenon DEF Feed!Take

\* The first of a list.
LEMMA FirstOf ==
    ASSUME NEW T, NEW list \in Seq(T), NEW limit \in Nat,
           NEW e, e = IF limit <= Len(list) THEN limit ELSE Len(list)
    PROVE  /\ Feed!Take(list, 0, limit) \in Seq(T) /\ Len(Feed!Take(list, 0, limit)) = e /\ e \in Nat
           /\ \A n \in 1 .. e : Feed!Take(list, 0, limit)[n] = list[n]
  <1>1. Len(list) \in Nat /\ e \in 0 .. Len(list) /\ 0 + limit = limit /\ 0 + 1 = 1
    BY LenProperties
  <1>2. Feed!Take(list, 0, limit) = SubSeq(list, 1, e)
    BY <1>1, TakeIs
  <1>3. QED
    BY <1>1, <1>2

LEMMA WholeFirst ==
    ASSUME NEW S, NEW list, Whole(list, S), NEW limit \in Nat,
           NEW e, e = IF limit <= Len(list) THEN limit ELSE Len(list)
    PROVE  LET first == Feed!Take(list, 0, limit)
           IN  /\ Len(first) = e /\ e \in Nat /\ e <= limit /\ e <= Len(list)
               /\ \A n \in 1 .. e : first[n] = list[n]
               /\ Whole(first, {list[n] : n \in 1 .. e})
  <1> DEFINE first == Feed!Take(list, 0, limit)
             U == {list[n] : n \in 1 .. e}
  <1>1. list \in Seq(S) /\ Len(list) \in Nat
    BY LenProperties DEF Whole
  <1>2. first \in Seq(S) /\ Len(first) = e /\ e \in Nat /\ \A n \in 1 .. e : first[n] = list[n]
    BY <1>1, FirstOf, ZenonT(30)
  <1>3. e <= limit /\ e <= Len(list)
    BY <1>1
  <1>4. \A n, k \in 1 .. Len(list) : list[n] = list[k] => n = k
    BY <1>1, WholeIs
  <1> HIDE DEF first
  <1>5. first \in Seq(U)
    <2>1. first = [n \in 1 .. e |-> first[n]]
      BY <1>2, LenProperties
    <2>2. \A n \in 1 .. e : first[n] \in U
      BY <1>2
    <2> HIDE DEF U
    <2>3. first \in [1 .. e -> U]
      BY <2>1, <2>2
    <2>4. QED
      BY <1>2, <2>3
  <1>6. Whole(first, U)
    <2>1. \A x \in U : \E n \in 1 .. e : first[n] = x
      BY <1>2
    <2>2. \A n, k \in 1 .. e : first[n] = first[k] => n = k
      BY <1>1, <1>2, <1>3, <1>4
    <2> HIDE DEF U
    <2>3. QED
      BY <1>2, <1>5, <2>1, <2>2, WholeIs
  <1>7. QED
    BY <1>2, <1>3, <1>6 DEF first

-------------------------------------------------------------------------------
(* The foremost *)

\* Of the rows l and k, l has the better base score or is the first of equals.
Earlier(rows, l, k) ==
    rows[l].base > rows[k].base \/ (rows[l].base = rows[k].base /\ l < k)

Leading(rows, counted) ==
    {rows[k] : k \in {n \in counted : Cardinality({l \in counted : Earlier(rows, l, n)}) < CandidateLimit}}

\* The n-th of the sorted has n - 1 before it.
LEMMA PlaceAmong ==
    ASSUME NEW S, NEW rows, Whole(rows, S), NEW counted \in SUBSET DOMAIN rows,
           \A n \in counted : rows[n].base \in Int,
           NEW p, SortedBy(p, Feed!Base(Kept(rows, counted)), Cardinality(counted)),
           NEW n \in 1 .. Cardinality(counted), NEW x \in counted, Rank(counted, x) = p[n]
    PROVE  Cardinality({l \in counted : Earlier(rows, l, x)}) = n - 1
  <1> DEFINE found == Kept(rows, counted)
             key == Feed!Base(found)
             c == Cardinality(counted)
             rank(l) == Rank(counted, l)
             A == {l \in counted : Earlier(rows, l, x)}
             B == {l \in counted : Earlier(rows, l, x) \/ l = x}
             K == {k \in 1 .. c : NoLater(key, k, p[n])}
  <1>1. rows \in Seq(S) /\ DOMAIN rows = 1 .. Len(rows) /\ Len(rows) \in Nat
    BY LenProperties DEF Whole
  <1>2. /\ found \in Seq(S) /\ Len(found) = c /\ c \in Nat
        /\ \A k \in 1 .. c : \E l \in counted : rank(l) = k /\ found[k] = rows[l]
        /\ \A l \in counted : rank(l) \in 1 .. c /\ found[rank(l)] = rows[l]
    BY <1>1, PickedFacts
  <1>3. IsFiniteSet(counted) /\ \A l, k \in counted : l < k => rank(l) < rank(k)
    BY <1>1, RankIsPlace
  <1>4. DOMAIN found = 1 .. c
    BY <1>2, LenProperties
  <1>5. \A l \in counted : key[rank(l)] = rows[l].base
    BY <1>2, <1>4 DEF Feed!Base
  <1>6. \A l, k \in counted : /\ l \in Int /\ k \in Int /\ rank(l) \in Int /\ rank(k) \in Int
                              /\ (rank(l) = rank(k) => l = k)
    BY <1>1, <1>2, <1>3
  <1>7. Cardinality(K) = n
    BY Zenon DEF SortedBy
  <1> HIDE DEF found, key, c, rank
  <1>8. K = {rank(l) : l \in B}
    <2>1. \A l \in counted : NoLater(key, rank(l), rank(x)) <=> Earlier(rows, l, x) \/ l = x
      <3> SUFFICES ASSUME NEW l \in counted
                   PROVE  NoLater(key, rank(l), rank(x)) <=> Earlier(rows, l, x) \/ l = x
        OBVIOUS
      <3>1. rows[l].base \in Int /\ rows[x].base \in Int
        OBVIOUS
      <3>2. rank(l) <= rank(x) <=> l < x \/ l = x
        BY <1>3, <1>6
      <3>3. QED
        BY <1>5, <3>1, <3>2 DEF NoLater, Earlier
    <2>2. rank(x) = p[n]
      BY DEF rank
    <2>3. QED
      BY <1>2, <2>1, <2>2
  <1>9. IsFiniteSet(B) /\ IsFiniteSet(A)
    BY <1>3, FS_Subset
  <1>10. \A l, k \in B : rank(l) = rank(k) => l = k
    BY <1>6
  <1>11. Cardinality(B) = n
    <2> HIDE DEF K, B
    <2>1. Cardinality({rank(l) : l \in B}) = Cardinality(B)
      <3> DEFINE f == [l \in B |-> rank(l)]
      <3>1. \A l, k \in B : f[l] = f[k] => l = k
        BY <1>10
      <3>2. {f[l] : l \in B} = {rank(l) : l \in B}
        OBVIOUS
      <3> HIDE DEF f
      <3>3. Cardinality({f[l] : l \in B}) = Cardinality(B)
        BY <1>9, <3>1, ImageSize
      <3>4. QED
        BY <3>2, <3>3, Zenon
    <2>2. QED
      BY <1>7, <1>8, <2>1
  <1>12. x \notin A /\ B = A \union {x}
    <2>1. ~Earlier(rows, x, x)
      BY <1>6 DEF Earlier
    <2>2. QED
      BY <2>1
  <1>13. Cardinality(A) \in Nat /\ Cardinality(A \union {x}) = Cardinality(A) + 1
    <2> HIDE DEF A, B
    <2>1. QED
      BY <1>9, <1>12, FS_AddElement, FS_CardinalityType
  <1>14. n = Cardinality(A) + 1
    BY <1>11, <1>12, <1>13, Zenon
  <1> HIDE DEF A, B, K
  <1>15. QED
    BY <1>13, <1>14 DEF A

\* The best by base score, as many as there may be.
LEMMA LeadingAre ==
    ASSUME CandidateLimit \in Nat, NEW S, NEW rows, Whole(rows, S), NEW counted \in SUBSET DOMAIN rows,
           \A n \in counted : rows[n].base \in Int
    PROVE  LET found == Kept(rows, counted)
               top == Feed!Take(Feed!SortDown(found, Feed!Base(found)), 0, CandidateLimit)
           IN  /\ Whole(top, Leading(rows, counted)) /\ Len(top) <= Len(rows)
               /\ \A n \in 1 .. Len(top) : top[n].base \in Int
               /\ \A n, k \in 1 .. Len(top) : n <= k => top[n].base >= top[k].base
  <1> DEFINE found == Kept(rows, counted)
             key == Feed!Base(found)
             c == Cardinality(counted)
             sorted == Feed!SortDown(found, key)
             top == Feed!Take(sorted, 0, CandidateLimit)
             e == IF CandidateLimit <= c THEN CandidateLimit ELSE c
             size(k) == Cardinality({l \in counted : Earlier(rows, l, k)})
             U == {rows[x] : x \in counted}
  <1>1. rows \in Seq(S) /\ DOMAIN rows = 1 .. Len(rows) /\ Len(rows) \in Nat
    BY LenProperties DEF Whole
  <1>2. /\ found \in Seq(S) /\ Len(found) = c /\ c \in Nat
        /\ \A k \in 1 .. c : \E l \in counted : Rank(counted, l) = k /\ found[k] = rows[l]
        /\ \A l \in counted : Rank(counted, l) \in 1 .. c /\ found[Rank(counted, l)] = rows[l]
    BY <1>1, PickedFacts
  <1>3. Whole(found, U) /\ c <= Len(rows)
    <2>1. Whole(found, U) /\ Len(found) <= Len(rows)
      BY WholeKept
    <2>2. QED
      BY <1>2, <2>1
  <1>4. DOMAIN found = 1 .. c /\ found \in Seq(U)
    BY <1>2, <1>3, LenProperties DEF Whole
  <1>5. \A k \in 1 .. c : key[k] = found[k].base /\ key[k] \in Int
    BY <1>2, <1>4 DEF Feed!Base
  <1>6. /\ sorted \in Seq(U) /\ Len(sorted) = c
        /\ \E p : SortedBy(p, key, c) /\ \A n \in 1 .. c : sorted[n] = found[p[n]]
    <2> HIDE DEF key, U, found, sorted
    <2>1. QED
      BY <1>2, <1>4, <1>5, SortedIs DEF sorted
  <1>7. PICK p : SortedBy(p, key, c) /\ \A n \in 1 .. c : sorted[n] = found[p[n]]
    BY <1>6
  <1>8. ASSUME NEW n \in 1 .. c, NEW x \in counted, Rank(counted, x) = p[n]
        PROVE  sorted[n] = rows[x] /\ size(x) = n - 1
    <2>1. sorted[n] = rows[x]
      <3> HIDE DEF sorted, found
      <3>1. QED
        BY <1>2, <1>7, <1>8
    <2>2. SortedBy(p, Feed!Base(Kept(rows, counted)), Cardinality(counted))
      BY <1>7
    <2>3. n \in 1 .. Cardinality(counted)
      OBVIOUS
    <2>4. size(x) = n - 1
      BY <1>8, <2>2, <2>3, PlaceAmong
    <2>5. QED
      BY <2>1, <2>4
  <1>9. /\ \A n \in 1 .. c : p[n] \in 1 .. c
        /\ \A n, k \in 1 .. c : p[n] = p[k] => n = k
        /\ \A k \in 1 .. c : \E n \in 1 .. c : p[n] = k
        /\ \A n, k \in 1 .. c : n <= k => NoLater(key, p[n], p[k])
    BY <1>7 DEF SortedBy
  <1> HIDE DEF found, sorted, key, c
  <1>10. \A n \in 1 .. c : \E x \in counted : sorted[n] = rows[x] /\ size(x) = n - 1
    <2> SUFFICES ASSUME NEW n \in 1 .. c
                 PROVE  \E x \in counted : sorted[n] = rows[x] /\ size(x) = n - 1
      OBVIOUS
    <2>1. PICK x \in counted : Rank(counted, x) = p[n]
      BY <1>2, <1>9, Zenon
    <2> HIDE DEF size
    <2>2. sorted[n] = rows[x] /\ size(x) = n - 1
      BY <1>8, <2>1
    <2>3. QED
      BY <2>2
  <1>11. \A x \in counted : \E n \in 1 .. c : sorted[n] = rows[x] /\ size(x) = n - 1
    <2> SUFFICES ASSUME NEW x \in counted
                 PROVE  \E n \in 1 .. c : sorted[n] = rows[x] /\ size(x) = n - 1
      OBVIOUS
    <2>1. PICK n \in 1 .. c : p[n] = Rank(counted, x)
      BY <1>2, <1>9, Zenon
    <2> HIDE DEF size
    <2>2. sorted[n] = rows[x] /\ size(x) = n - 1
      BY <1>8, <2>1
    <2>3. QED
      BY <2>2
  <1>12. Whole(sorted, U)
    <2>1. \A x \in U : \E n \in 1 .. c : sorted[n] = x
      BY <1>11, Zenon
    <2>2. \A n, k \in 1 .. c : found[n] = found[k] => n = k
      BY <1>2, <1>3, <1>4, WholeIs, Zenon
    <2>3. \A n, k \in 1 .. c : sorted[n] = sorted[k] => n = k
      BY <1>7, <1>9, <2>2
    <2> HIDE DEF U
    <2>4. QED
      BY <1>6, <2>1, <2>3, WholeIs
  <1>13. /\ Len(top) = e /\ e \in Nat /\ e <= CandidateLimit /\ e <= c
         /\ \A n \in 1 .. e : top[n] = sorted[n]
         /\ Whole(top, {sorted[n] : n \in 1 .. e})
    <2>1. e = IF CandidateLimit <= Len(sorted) THEN CandidateLimit ELSE Len(sorted)
      BY <1>6
    <2> HIDE DEF e, U, top
    <2>2. /\ Len(Feed!Take(sorted, 0, CandidateLimit)) = e /\ e \in Nat
          /\ e <= CandidateLimit /\ e <= Len(sorted)
          /\ \A n \in 1 .. e : Feed!Take(sorted, 0, CandidateLimit)[n] = sorted[n]
          /\ Whole(Feed!Take(sorted, 0, CandidateLimit), {sorted[n] : n \in 1 .. e})
      BY <1>12, <2>1, WholeFirst, Zenon
    <2>3. QED
      BY <1>6, <2>2 DEF top
  <1>14. \A n \in 1 .. c : n \in 1 .. e <=> n - 1 < CandidateLimit
    BY <1>2
  <1> HIDE DEF top, e, size, U
  <1>15. {sorted[n] : n \in 1 .. e} = {rows[k] : k \in {x \in counted : size(x) < CandidateLimit}}
    <2>1. ASSUME NEW n \in 1 .. e
          PROVE  \E k \in counted : size(k) < CandidateLimit /\ sorted[n] = rows[k]
      <3>1. n \in 1 .. c
        BY <1>2, <1>13
      <3>2. n - 1 < CandidateLimit
        BY <1>14, <2>1, <3>1
      <3>3. PICK x \in counted : sorted[n] = rows[x] /\ size(x) = n - 1
        BY <1>10, <3>1
      <3>4. QED
        BY <3>2, <3>3
    <2>2. ASSUME NEW k \in counted, size(k) < CandidateLimit
          PROVE  \E n \in 1 .. e : sorted[n] = rows[k]
      <3>1. PICK n \in 1 .. c : sorted[n] = rows[k] /\ size(k) = n - 1
        BY <1>11
      <3>2. n \in 1 .. e
        BY <1>14, <2>2, <3>1
      <3>3. QED
        BY <3>1, <3>2
    <2>3. QED
      BY <2>1, <2>2
  <1>16. Whole(top, Leading(rows, counted))
    BY <1>13, <1>15, Zenon DEF Leading, size
  <1>17. ASSUME NEW n \in 1 .. e, NEW k \in 1 .. e, n <= k
         PROVE  top[n].base \in Int /\ top[n].base >= top[k].base
    <2>1. n \in 1 .. c /\ k \in 1 .. c
      BY <1>2, <1>13
    <2>2. NoLater(key, p[n], p[k]) /\ p[n] \in 1 .. c /\ p[k] \in 1 .. c
      BY <1>9, <1>17, <2>1
    <2>3. top[n] = found[p[n]] /\ top[k] = found[p[k]]
      BY <1>7, <1>13, <2>1
    <2>4. key[p[n]] = top[n].base /\ key[p[k]] = top[k].base /\ key[p[n]] \in Int /\ key[p[k]] \in Int
      BY <1>5, <2>2, <2>3
    <2>5. QED
      BY <2>2, <2>4 DEF NoLater
  <1>18. \A n \in 1 .. e : top[n].base \in Int
    BY <1>13, <1>17
  <1>19. e <= Len(rows)
    BY <1>1, <1>2, <1>3, <1>13
  <1>20. QED
    BY <1>13, <1>16, <1>17, <1>18, <1>19 DEF top, found, sorted, key

-------------------------------------------------------------------------------
(* Page by page *)

LEMMA TwoParts ==
    ASSUME NEW T, NEW list \in Seq(T), NEW a \in 0 .. Len(list), NEW b \in a .. Len(list)
    PROVE  SubSeq(list, 1, a) \o SubSeq(list, a + 1, b) = SubSeq(list, 1, b)
  <1> DEFINE one == SubSeq(list, 1, a)
             two == SubSeq(list, a + 1, b)
             all == SubSeq(list, 1, b)
  <1>1. Len(list) \in Nat /\ a \in Nat /\ b \in Nat /\ a <= b /\ b <= Len(list)
    BY LenProperties
  <1>2. one \in Seq(T) /\ Len(one) = a /\ \A n \in 1 .. a : one[n] = list[n]
    BY <1>1
  <1>3. two \in Seq(T) /\ Len(two) = b - a /\ \A n \in 1 .. b - a : two[n] = list[a + n]
    BY <1>1
  <1>4. all \in Seq(T) /\ Len(all) = b /\ \A n \in 1 .. b : all[n] = list[n]
    BY <1>1
  <1> HIDE DEF one, two, all
  <1>5. /\ one \o two \in Seq(T) /\ Len(one \o two) = b
        /\ \A n \in 1 .. b : (one \o two)[n] = IF n <= a THEN one[n] ELSE two[n - a]
    <2>1. Len(one) + Len(two) = b
      BY <1>1, <1>2, <1>3
    <2>2. QED
      BY <1>1, <1>2, <1>3, <2>1
  <1>6. \A n \in 1 .. b : (one \o two)[n] = all[n]
    <2> SUFFICES ASSUME NEW n \in 1 .. b PROVE (one \o two)[n] = all[n]
      BY Zenon
    <2>1. CASE n <= a
      BY <1>1, <1>2, <1>4, <1>5, <2>1
    <2>2. CASE ~(n <= a)
      <3>1. n - a \in 1 .. b - a /\ a + (n - a) = n
        BY <1>1, <2>2
      <3>2. two[n - a] = list[n]
        BY <1>3, <3>1
      <3>3. QED
        BY <1>4, <1>5, <2>2, <3>2, Zenon
    <2>3. QED
      BY <2>1, <2>2, Zenon
  <1> DEFINE both == one \o two
  <1>7. /\ both \in Seq(T) /\ Len(both) = b /\ all \in Seq(T) /\ Len(all) = b
        /\ \A n \in 1 .. b : both[n] = all[n]
    BY <1>4, <1>5, <1>6
  <1> HIDE DEF both
  <1>8. both = all
    BY <1>7
  <1>9. QED
    BY <1>8 DEF both, one, two, all

LEMMA PageIs ==
    ASSUME NEW T, NEW list \in Seq(T)
    PROVE  \A o, l \in Nat :
               Feed!Take(list, o, l)
                   = SubSeq(list, o + 1, IF o + l <= Len(list) THEN o + l ELSE Len(list))
  <1> SUFFICES ASSUME NEW o \in Nat, NEW l \in Nat,
                      NEW e, e = IF o + l <= Len(list) THEN o + l ELSE Len(list)
               PROVE  Feed!Take(list, o, l) = SubSeq(list, o + 1, e)
    BY Zenon
  <1>1. QED
    BY TakeIs, Zenon

\* Read in pages that are enough, a list is read once.
LEMMA PagesAre ==
    ASSUME NEW T, NEW list \in Seq(T), NEW L \in Nat, Len(list) <= L, NEW limit \in 1 .. L,
           NEW pages, DOMAIN pages = 1 .. L \div limit + 1,
           \A n \in 1 .. L \div limit + 1 : pages[n].items = Feed!Take(list, (n - 1) * limit, limit)
    PROVE  Items(pages) = list
  <1> DEFINE K == L \div limit + 1
             N == Len(list)
             m(n) == IF n * limit <= N THEN n * limit ELSE N
             g == [n \in 0 .. K |-> SubSeq(list, 1, m(n))]
             seqs == [n \in DOMAIN pages |-> pages[n].items]
  <1>1. limit \in Nat \ {0} /\ N \in Nat /\ N <= L
    BY LenProperties
  <1>2. K \in Nat /\ N < K * limit
    <2> DEFINE q == L \div limit
               r == L % limit
    <2>1. q \in Nat /\ r \in 0 .. limit - 1 /\ L = limit * q + r
      BY <1>1, DivIs, Zenon
    <2> HIDE DEF q, r
    <2>2. (q + 1) * limit = limit * q + limit /\ limit * q \in Int /\ q + 1 \in Nat
      BY <1>1, <2>1
    <2>3. N < (q + 1) * limit
      <3> DEFINE x == limit * q
                 y == (q + 1) * limit
      <3>1. x \in Int /\ y = x + limit /\ L = x + r /\ r < limit /\ r \in Int /\ limit \in Int /\ L \in Int
        BY <1>1, <2>1, <2>2
      <3> HIDE DEF x, y
      <3>2. N < y
        BY <1>1, <3>1
      <3>3. QED
        BY <3>2 DEF y
    <2>4. QED
      BY <2>2, <2>3 DEF q
  <1> HIDE DEF K
  <1>3. \A n \in 0 .. K : n * limit \in Nat
    BY <1>1, <1>2
  <1>4. \A n \in 1 .. K : /\ (n - 1) * limit \in Nat /\ n * limit \in Nat
                          /\ (n - 1) * limit + limit = n * limit /\ n - 1 \in 0 .. K
    BY <1>1, <1>2
  <1>5. \A n \in 0 .. K : m(n) \in 0 .. N
    BY <1>1, <1>3
  <1>6. \A n \in 1 .. K : seqs[n] = SubSeq(list, (n - 1) * limit + 1, m(n))
    <2> SUFFICES ASSUME NEW n \in 1 .. K
                 PROVE  seqs[n] = SubSeq(list, (n - 1) * limit + 1, m(n))
      BY Zenon
    <2> DEFINE o == (n - 1) * limit
    <2>1. o \in Nat /\ o + limit = n * limit
      BY <1>4
    <2>2. m(n) = IF o + limit <= Len(list) THEN o + limit ELSE Len(list)
      BY <2>1
    <2>3. seqs[n] = Feed!Take(list, o, limit)
      BY DEF K
    <2> DEFINE e == m(n)
    <2> HIDE DEF o, m, seqs, e
    <2>4. e = IF o + limit <= Len(list) THEN o + limit ELSE Len(list)
      BY <2>2 DEF e
    <2>5. Feed!Take(list, o, limit) = SubSeq(list, o + 1, e)
      <3>1. o \in Nat /\ limit \in Nat
        BY <1>1, <2>1
      <3>2. \A a, l \in Nat :
                Feed!Take(list, a, l)
                    = SubSeq(list, a + 1, IF a + l <= Len(list) THEN a + l ELSE Len(list))
        BY PageIs, Zenon
      <3>3. Feed!Take(list, o, limit)
                = SubSeq(list, o + 1, IF o + limit <= Len(list) THEN o + limit ELSE Len(list))
        BY <3>1, <3>2, Zenon
      <3>4. QED
        BY <2>4, <3>3, Zenon
    <2>6. QED
      BY <2>3, <2>5 DEF o, e
  <1>7. \A n \in 1 .. K : seqs[n] \in Seq(T) /\ g[n] \in Seq(T) /\ g[n] = g[n - 1] \o seqs[n]
    <2> SUFFICES ASSUME NEW n \in 1 .. K
                 PROVE  seqs[n] \in Seq(T) /\ g[n] \in Seq(T) /\ g[n] = g[n - 1] \o seqs[n]
      BY Zenon
    <2> DEFINE o == (n - 1) * limit
    <2>1. /\ g[n] = SubSeq(list, 1, m(n)) /\ g[n - 1] = SubSeq(list, 1, m(n - 1))
          /\ seqs[n] = SubSeq(list, o + 1, m(n)) /\ m(n) \in 0 .. N /\ m(n - 1) \in 0 .. N
          /\ o \in Nat /\ m(n - 1) = (IF o <= N THEN o ELSE N)
          /\ m(n) = (IF o + limit <= N THEN o + limit ELSE N)
      <3>1. n \in 0 .. K /\ n - 1 \in 0 .. K
        BY <1>2
      <3>2. g[n] = SubSeq(list, 1, m(n)) /\ g[n - 1] = SubSeq(list, 1, m(n - 1))
        <4> HIDE DEF m
        <4>1. QED
          BY <3>1, Zenon
      <3>3. o \in Nat /\ o + limit = n * limit
        BY <1>4
      <3>4. m(n - 1) = (IF o <= N THEN o ELSE N)
        OBVIOUS
      <3>5. m(n) = (IF o + limit <= N THEN o + limit ELSE N)
        BY <3>3
      <3>6. seqs[n] = SubSeq(list, o + 1, m(n)) /\ m(n) \in 0 .. N /\ m(n - 1) \in 0 .. N
        <4> HIDE DEF m, seqs
        <4>1. QED
          BY <1>5, <1>6, <3>1
      <3>7. QED
        BY <3>2, <3>3, <3>4, <3>5, <3>6, Zenon
    <2> HIDE DEF o, m, g, seqs
    <2>2. CASE o <= N
      <3>1. m(n - 1) = o /\ o \in 0 .. Len(list) /\ m(n) \in o .. Len(list)
        BY <1>1, <2>1, <2>2
      <3>2. SubSeq(list, 1, o) \o SubSeq(list, o + 1, m(n)) = SubSeq(list, 1, m(n))
        BY <3>1, TwoParts, Zenon
      <3>3. SubSeq(list, 1, m(n)) \in Seq(T) /\ SubSeq(list, o + 1, m(n)) \in Seq(T)
        BY <1>1, <3>1
      <3>4. QED
        BY <2>1, <3>1, <3>2, <3>3, Zenon
    <2>3. CASE ~(o <= N)
      <3>1. m(n - 1) = N /\ m(n) = N /\ N < o + 1
        BY <1>1, <2>1, <2>3
      <3>2. SubSeq(list, 1, N) = list
        BY <1>1
      <3>3. SubSeq(list, o + 1, N) = << >>
        BY <1>1, <2>1, <3>1
      <3>4. list \o << >> = list /\ << >> \in Seq(T)
        OBVIOUS
      <3>5. QED
        BY <2>1, <3>1, <3>2, <3>3, <3>4, Zenon
    <2>4. QED
      BY <2>2, <2>3, Zenon
  <1>8. seqs \in Seq(Seq(T)) /\ Len(seqs) = K
    <2>1. seqs = [n \in 1 .. K |-> seqs[n]]
      BY DEF K
    <2> HIDE DEF seqs
    <2>2. seqs \in [1 .. K -> Seq(T)]
      BY <1>7, <2>1, Zenon
    <2>3. QED
      BY <1>2, <2>2
  <1>9. g[0] = << >> /\ g[K] = list
    <2>1. m(0) = 0 /\ m(K) = N /\ 0 \in 0 .. K /\ K \in 0 .. K
      <3>1. 0 * limit = 0 /\ K * limit \in Int /\ ~(K * limit <= N)
        BY <1>1, <1>2
      <3>2. QED
        BY <1>1, <1>2, <3>1
    <2>2. SubSeq(list, 1, 0) = << >> /\ SubSeq(list, 1, N) = list
      BY <1>1
    <2> HIDE DEF m
    <2>3. QED
      BY <2>1, <2>2
  <1> HIDE DEF seqs, g, m
  <1>10. FlattenSeq(seqs) = g[K]
    <2>1. \A n \in 1 .. Len(seqs) : g[n] \in Seq(T) /\ g[n] = g[n - 1] \o seqs[n]
      BY <1>7, <1>8, Zenon
    <2>2. FlattenSeq(seqs) = g[Len(seqs)]
      BY <1>8, <1>9, <2>1, FlattenIs, Zenon
    <2>3. QED
      BY <1>8, <2>2
  <1>11. QED
    BY <1>9, <1>10 DEF Items, seqs

-------------------------------------------------------------------------------
(* Scores are integers *)

FiniteRoles(s) == \A n \in DOMAIN s : IsFiniteSet(s[n].job.role)

LEMMA RolePartCounts ==
    ASSUME NEW s, Learnable(s), FiniteRoles(s), NEW m, IsFiniteSet(m.job.role)
    PROVE  \E c, p, gain : PartIs(Feed!RolePart(m, s), c, p, gain)
  <1> DEFINE role == m.job.role
             k == CHOOSE key \in Feed!RoleFor(s, role) : TRUE
             w == Feed!WeightOf(s, "role", k)
             c == role # {} /\ Feed!RoleFor(s, role) # {}
             x == 12 * Feed!Strength(w) * Feed!Cardinality(k \intersect role)
             d == Feed!Cardinality(k \union role)
             p == [delta |-> x \div d, says |-> Feed!Says(w)]
             gain == IF c THEN p.delta ELSE 0
  <1>1. Feed!RolePart(m, s) = Feed!Optional(c, p)
    BY DEF Feed!RolePart
  <1>2. ASSUME c PROVE x \div d \in Int
    <2>1. k \in Feed!RoleFor(s, role) /\ role # {}
      BY <1>2
    <2>2. k \in Feed!Roles(s)
      BY <2>1 DEF Feed!RoleFor
    <2> HIDE DEF k
    <2>3. \E n \in DOMAIN s : k = s[n].job.role
      BY <2>2 DEF Feed!Roles, Feed!Keys, Feed!Taught
    <2>4. IsFiniteSet(k)
      BY <2>3 DEF FiniteRoles
    <2>5. IsFiniteSet(k \intersect role) /\ IsFiniteSet(k \union role) /\ k \union role # {}
      BY <2>1, <2>4, FS_Union, FS_Subset, Zenon
    <2>6. Cardinality(k \intersect role) \in Nat /\ Cardinality(k \union role) \in Nat \ {0}
      BY <2>5, FS_CardinalityType, FS_EmptySet, Zenon
    <2>7. Feed!Strength(w) \in Int
      BY WeightIs, StrengthIs
    <2>8. d \in Nat \ {0} /\ x \in Int
      BY <2>6, <2>7, FeedCardinality
    <2> HIDE DEF d, x
    <2>9. QED
      BY <2>8, FloorIs
  <1>3. p.delta = x \div d
    OBVIOUS
  <1> HIDE DEF x, d, p
  <1>4. gain \in Int /\ (c => p.delta \in Int)
    BY <1>2, <1>3
  <1> HIDE DEF c
  <1>5. PartIs(Feed!RolePart(m, s), c, p, gain)
    BY <1>1, <1>4 DEF PartIs, Summand
  <1>6. QED
    BY <1>5

LEMMA LearnedCounts ==
    ASSUME NEW s, Learnable(s), FiniteRoles(s), NEW m, IsFiniteSet(m.job.role), IsFiniteSet(m.job.skills)
    PROVE  Feed!SumOf(Feed!LearnedParts(m, s)) \in Int
  <1> DEFINE role == Feed!RolePart(m, s)
             skill == Feed!SkillPart(m, s)
             company == Feed!KeyPart(s, "company", {m.job.company} \intersect Feed!Keys(s, "company"), 4)
             place == Feed!KeyPart(s, "location", Feed!PlaceFor(s, m.job.location), 3)
             mode == Feed!KeyPart(s, "mode", {m.job.mode} \intersect Feed!Keys(s, "mode"), 3)
  <1>1. Feed!LearnedParts(m, s) = role \o skill \o company \o place \o mode
    BY DEF Feed!LearnedParts
  <1>2. /\ \E c, p, gain : PartIs(role, c, p, gain)
        /\ \E c, p : PartIs(skill, c, p, SkillGain(m, s))
    BY RolePartCounts, SkillPartIs
  <1>3. /\ \E c, p : PartIs(company, c, p, CompanyGain(m, s))
        /\ \E c, p : PartIs(place, c, p, PlaceGain(m, s))
        /\ \E c, p : PartIs(mode, c, p, ModeGain(m, s))
    BY KeyPartIs DEF CompanyGain, PlaceGain, ModeGain
  <1> HIDE DEF role, skill, company, place, mode
  <1>4. Parted(role)
    <2>1. PICK gain : \E c, p : PartIs(role, c, p, gain)
      BY <1>2
    <2>2. QED
      BY <2>1, NoParts, PartAdds, Zenon
  <1> DEFINE two == role \o skill
  <1>5. Parted(two)
    BY <1>2, <1>4, PartAdds, Zenon
  <1> HIDE DEF two
  <1> DEFINE three == two \o company
  <1>6. Parted(three)
    BY <1>3, <1>5, PartAdds, Zenon
  <1> HIDE DEF three
  <1> DEFINE four == three \o place
  <1>7. Parted(four)
    BY <1>3, <1>6, PartAdds
  <1> HIDE DEF four
  <1>8. Parted(four \o mode)
    BY <1>3, <1>7, PartAdds
  <1>9. Feed!LearnedParts(m, s) = four \o mode
    BY <1>1 DEF two, three, four
  <1>10. QED
    BY <1>8, <1>9, PartedTotal

\* What is shown of a match, its final score in tenths.
Shown(s, m) == Feed!Tenths(Feed!FinalScore(m, s))

LEMMA ShownIs ==
    ASSUME NEW s, Learnable(s), FiniteRoles(s), NEW m, m.base \in Int,
           IsFiniteSet(m.job.role), IsFiniteSet(m.job.skills)
    PROVE  Shown(s, m) \in Int
  <1> DEFINE learned == Feed!SumOf(Feed!LearnedParts(m, s))
             x == Feed!Preference(m, s)
             a == Feed!SumOf(Feed!FreshnessPart(m))
             b == Feed!Clamp(Feed!SumOf(Feed!CompanyParts(m)), -10 * Feed!Point, 5 * Feed!Point)
             c == Feed!SumOf(Feed!FeedbackPart(m))
             final == Feed!FinalScore(m, s)
  <1>1. learned \in Int
    BY LearnedCounts
  <1>2. x = Feed!Clamp(learned, -15 * Feed!Point, 15 * Feed!Point)
    BY DEF Feed!Preference
  <1> HIDE DEF learned, x
  <1>3. x \in Int
    BY <1>1, <1>2 DEF Feed!Clamp, Feed!Point
  <1>4. a \in Int /\ b \in Int /\ c \in Int
    BY FactsAre DEF Feed!Clamp, Feed!Point
  <1>5. final = Feed!Clamp(m.base + x + a + b + c, 0, 100 * Feed!Point)
    BY DEF Feed!FinalScore, x
  <1> HIDE DEF a, b, c, final
  <1>6. m.base + x + a + b + c \in Int
    BY <1>3, <1>4
  <1>7. final \in Int
    BY <1>5, <1>6 DEF Feed!Clamp, Feed!Point
  <1>8. final \div 6 \in Int
    BY <1>7
  <1>9. Feed!Tenths(final) \in Int
    BY <1>8 DEF Feed!Tenths
  <1>10. QED
    BY <1>9 DEF Shown, final

-------------------------------------------------------------------------------
(* The recommendations *)

LEMMA FeedKept == \A seq, at_ : Feed!Kept(seq, at_) = Kept(seq, at_)
  BY DEF Feed!Kept, Kept, Feed!Cardinality, Cardinality

\* What is known of the rows and signals that are read.
Readable(f) ==
    /\ Whole(f.rows, ToSet(f.rows)) /\ Len(f.rows) \in Nat /\ DOMAIN f.rows = 1 .. Len(f.rows)
    /\ \A k, n \in DOMAIN f.rows : f.rows[k].job = f.rows[n].job => k = n
    /\ Learnable(f.signals) /\ FiniteRoles(f.signals)
    /\ \A m \in ToSet(f.rows) : IsFiniteSet(m.job.role) /\ IsFiniteSet(m.job.skills)

LEMMA InputIsReadable ==
    ASSUME NEW f \in FeedInput \union BrowseInput
    PROVE  Readable(f)
  <1>1. /\ f.signals \in Seq(ToSet(f.signals)) /\ f.rows \in Seq(ToSet(f.rows))
        /\ \A s \in ToSet(f.signals) :
               s.weight \in Int /\ IsFiniteSet(s.job.role) /\ IsFiniteSet(s.job.skills)
        /\ \A k, n \in DOMAIN f.rows : f.rows[k].job = f.rows[n].job => k = n
        /\ \A m \in ToSet(f.rows) : IsFiniteSet(m.job.role) /\ IsFiniteSet(m.job.skills)
    BY FeedAssumption
  <1>2. \A k \in DOMAIN f.signals : f.signals[k] \in ToSet(f.signals)
    BY DEF ToSet
  <1>3. Learnable(f.signals) /\ FiniteRoles(f.signals)
    BY <1>1, <1>2 DEF Learnable, FiniteRoles
  <1>4. IsInjective(f.rows)
    BY <1>1 DEF IsInjective
  <1>5. Whole(f.rows, ToSet(f.rows))
    BY <1>1, <1>4 DEF Whole
  <1>6. Len(f.rows) \in Nat /\ DOMAIN f.rows = 1 .. Len(f.rows)
    BY <1>1, LenProperties
  <1>7. QED
    BY <1>1, <1>3, <1>5, <1>6 DEF Readable

\* The best of these comes first.
BestFirst(s, list) ==
    \A n, k \in 1 .. Len(list) :
        n <= k => \/ Shown(s, list[n]) > Shown(s, list[k])
                  \/ Shown(s, list[n]) = Shown(s, list[k]) /\ list[n].base >= list[k].base

LEMMA RankedAre ==
    ASSUME NEW s, NEW S, NEW list, Whole(list, S),
           \A x \in S : Shown(s, x) \in Int /\ x.base \in Int,
           \A n, k \in 1 .. Len(list) : n <= k => list[n].base >= list[k].base
    PROVE  /\ Whole(Feed!Rank(list, s), S) /\ Len(Feed!Rank(list, s)) = Len(list)
           /\ BestFirst(s, Feed!Rank(list, s))
  <1> DEFINE v == [x \in S |-> Shown(s, x)]
             b == [x \in S |-> x.base]
             key == [n \in DOMAIN list |-> Feed!Tenths(Feed!FinalScore(list[n], s))]
             sorted == Feed!SortDown(list, key)
  <1>1. /\ list \in Seq(S) /\ DOMAIN list = 1 .. Len(list) /\ Len(list) \in Nat
        /\ \A n \in 1 .. Len(list) : list[n] \in S
    BY LenProperties, ElementOfSeq DEF Whole
  <1>2. Feed!Rank(list, s) = sorted
    BY DEF Feed!Rank
  <1>3. \A n \in 1 .. Len(list) : key[n] = v[list[n]]
    BY <1>1 DEF Shown
  <1>4. \A x \in S : v[x] = Shown(s, x) /\ b[x] = x.base /\ v[x] \in Int /\ b[x] \in Int
    OBVIOUS
  <1>5. \A n, k \in 1 .. Len(list) : n <= k => b[list[n]] >= b[list[k]]
    BY <1>1
  <1> HIDE DEF v, b, key, sorted
  <1>6. Whole(sorted, S) /\ Len(sorted) = Len(list) /\ InOrderOf(sorted, v, b)
    BY <1>3, <1>4, <1>5, WholeSorted, Zenon DEF sorted
  <1>7. \A n \in 1 .. Len(sorted) : sorted[n] \in S
    BY <1>6, ElementOfSeq DEF Whole
  <1>8. BestFirst(s, sorted)
    BY <1>4, <1>6, <1>7 DEF InOrderOf, BestFirst
  <1>9. QED
    BY <1>2, <1>6, <1>8

\* Those that are recommended, in their order.
CandidatesOf(f) ==
    {n \in DOMAIN f.rows : /\ f.rows[n].base >= f.minScore
                           /\ f.rows[n].feedback # "NOT_RELEVANT" /\ ~f.rows[n].applied}
EligibleOf(f) == {m \in Leading(f.rows, CandidatesOf(f)) : ~Feed!Excluded(m, f.signals)}
RankedOf(f) ==
    Feed!Rank(Feed!KeptIf(Feed!Candidates(f.rows, f.minScore), LAMBDA m : ~Feed!Excluded(m, f.signals)),
              f.signals)

LEMMA LeadingOf ==
    ASSUME NEW rows, NEW counted \in SUBSET DOMAIN rows
    PROVE  Leading(rows, counted) \in SUBSET ToSet(rows)
  BY Zenon DEF Leading, ToSet

LEMMA RecommendedAre ==
    ASSUME NEW f \in FeedInput
    PROVE  /\ Whole(RankedOf(f), EligibleOf(f)) /\ Len(RankedOf(f)) <= Len(f.rows)
           /\ BestFirst(f.signals, RankedOf(f))
           /\ \A m \in EligibleOf(f) : m \in ToSet(f.rows)
  <1> DEFINE rows == f.rows
             s == f.signals
             counted == CandidatesOf(f)
             found == Kept(rows, counted)
             top == Feed!Take(Feed!SortDown(found, Feed!Base(found)), 0, CandidateLimit)
             wanted == {n \in DOMAIN top : ~Feed!Excluded(top[n], s)}
             list == Kept(top, wanted)
  <1>1. Readable(f) /\ CandidateLimit \in Nat /\ \A m \in ToSet(rows) : m.base \in Int
    BY InputIsReadable, FeedAssumption
  <1>2. counted \in SUBSET DOMAIN rows /\ \A n \in counted : rows[n].base \in Int
    BY <1>1 DEF CandidatesOf, ToSet
  <1>3. Feed!Candidates(rows, f.minScore) = top
    <2>1. Feed!KeptIf(rows, LAMBDA m : /\ m.base >= f.minScore
                                       /\ m.feedback # "NOT_RELEVANT" /\ ~m.applied) = found
      BY FeedKept DEF Feed!KeptIf, CandidatesOf
    <2> HIDE DEF found
    <2>2. QED
      BY <2>1 DEF Feed!Candidates
  <1>4. Feed!KeptIf(top, LAMBDA m : ~Feed!Excluded(m, s)) = list
    <2> HIDE DEF top
    <2>1. QED
      BY FeedKept DEF Feed!KeptIf
  <1>5. RankedOf(f) = Feed!Rank(list, s)
    <2> HIDE DEF top, list
    <2>1. QED
      BY <1>3, <1>4 DEF RankedOf
  <1>6. /\ Whole(top, Leading(rows, counted)) /\ Len(top) <= Len(rows)
        /\ \A n \in 1 .. Len(top) : top[n].base \in Int
        /\ \A n, k \in 1 .. Len(top) : n <= k => top[n].base >= top[k].base
    <2>1. Whole(rows, ToSet(rows))
      BY <1>1 DEF Readable
    <2> DEFINE S == ToSet(rows)
    <2> HIDE DEF S, rows, counted
    <2>2. QED
      BY <1>1, <1>2, <2>1, LeadingAre DEF S
  <1> HIDE DEF top
  <1>7. DOMAIN top = 1 .. Len(top) /\ Len(top) \in Nat
    BY <1>6, LenProperties DEF Whole
  <1>8. wanted \in SUBSET DOMAIN top
    OBVIOUS
  <1>9. {top[x] : x \in wanted} = EligibleOf(f)
    <2>1. ToSet(top) = Leading(rows, counted)
      BY <1>6 DEF Whole
    <2>2. QED
      BY <2>1 DEF EligibleOf, ToSet
  <1>10. /\ Whole(list, EligibleOf(f)) /\ Len(list) <= Len(top)
         /\ Follows(list, top, wanted)
    <2> DEFINE S == Leading(rows, counted)
    <2>a. Whole(top, S) /\ wanted \in SUBSET DOMAIN top
      BY <1>6, <1>8
    <2> HIDE DEF S, wanted, rows, counted, list
    <2>1. /\ Whole(Kept(top, wanted), {top[x] : x \in wanted}) /\ Len(Kept(top, wanted)) <= Len(top)
          /\ Follows(Kept(top, wanted), top, wanted)
      BY <2>a, WholeKept
    <2>2. QED
      BY <1>9, <2>1, Zenon DEF list
  <1> HIDE DEF list, wanted
  <1>11. \A m \in EligibleOf(f) : m \in ToSet(rows)
    <2> HIDE DEF rows, counted
    <2>1. Leading(rows, counted) \in SUBSET ToSet(rows)
      BY <1>2, LeadingOf
    <2>2. QED
      BY <2>1 DEF EligibleOf, rows, counted
  <1>12. \A x \in EligibleOf(f) : Shown(s, x) \in Int /\ x.base \in Int
    BY <1>1, <1>11, ShownIs DEF Readable
  <1>13. \A n, k \in 1 .. Len(list) : n <= k => list[n].base >= list[k].base
    <2> SUFFICES ASSUME NEW n \in 1 .. Len(list), NEW k \in 1 .. Len(list), n <= k
                 PROVE  list[n].base >= list[k].base
      OBVIOUS
    <2>1. PICK x \in wanted, y \in wanted : x <= y /\ list[n] = top[x] /\ list[k] = top[y]
      BY <1>10 DEF Follows
    <2>2. x \in 1 .. Len(top) /\ y \in 1 .. Len(top)
      BY <1>7, <1>8
    <2>3. QED
      BY <1>6, <2>1, <2>2
  <1> DEFINE S == EligibleOf(f)
  <1>14. /\ Whole(Feed!Rank(list, s), S) /\ Len(Feed!Rank(list, s)) = Len(list)
         /\ BestFirst(s, Feed!Rank(list, s))
    <2> HIDE DEF S, s, rows
    <2>1. QED
      BY <1>10, <1>12, <1>13, RankedAre DEF S
  <1>15. Len(list) <= Len(rows)
    <2>1. Len(list) \in Nat /\ Len(rows) \in Nat
      BY <1>1, <1>10, WholeSize DEF Readable
    <2>2. QED
      BY <1>6, <1>7, <1>10, <2>1
  <1>16. QED
    BY <1>5, <1>11, <1>14, <1>15

-------------------------------------------------------------------------------
(* The digest *)

LEMMA TwoLists ==
    ASSUME NEW T, NEW a \in Seq(T), NEW b \in Seq(T)
    PROVE  /\ a \o b \in Seq(T) /\ Len(a \o b) = Len(a) + Len(b)
           /\ \A n \in 1 .. Len(a) : (a \o b)[n] = a[n]
           /\ \A n \in 1 .. Len(b) : (a \o b)[Len(a) + n] = b[n]
  <1>1. Len(a) \in Nat /\ Len(b) \in Nat
    BY LenProperties
  <1>2. /\ a \o b \in Seq(T) /\ Len(a \o b) = Len(a) + Len(b)
        /\ \A n \in 1 .. Len(a) + Len(b) :
               (a \o b)[n] = IF n <= Len(a) THEN a[n] ELSE b[n - Len(a)]
    BY <1>1
  <1>3. ASSUME NEW n \in 1 .. Len(b) PROVE (a \o b)[Len(a) + n] = b[n]
    <2>1. Len(a) + n \in 1 .. Len(a) + Len(b) /\ ~(Len(a) + n <= Len(a)) /\ Len(a) + n - Len(a) = n
      BY <1>1
    <2>2. QED
      BY <1>2, <2>1
  <1>4. ASSUME NEW n \in 1 .. Len(a) PROVE (a \o b)[n] = a[n]
    BY <1>1, <1>2
  <1>5. QED
    BY <1>2, <1>3, <1>4

\* One after the other, of these lengths.
Joined(all, seqs, x, y, z) ==
    /\ Len(all) = x + y + z
    /\ \A n \in 1 .. x : all[n] = seqs[1][n]
    /\ \A n \in 1 .. y : all[x + n] = seqs[2][n]
    /\ \A n \in 1 .. z : all[x + y + n] = seqs[3][n]

LEMMA ThreeLists ==
    ASSUME NEW T, NEW seqs \in Seq(Seq(T)), Len(seqs) = 3, NEW x \in Nat, NEW y \in Nat, NEW z \in Nat,
           Len(seqs[1]) = x, Len(seqs[2]) = y, Len(seqs[3]) = z
    PROVE  FlattenSeq(seqs) \in Seq(T) /\ Joined(FlattenSeq(seqs), seqs, x, y, z)
  <1> DEFINE a == seqs[1]
             b == seqs[2]
             c == seqs[3]
             two == a \o b
             three == two \o c
             g == [n \in 0 .. 3 |-> IF n = 0 THEN << >> ELSE IF n = 1 THEN a
                                    ELSE IF n = 2 THEN two ELSE three]
  <1>1. a \in Seq(T) /\ b \in Seq(T) /\ c \in Seq(T)
    <2>1. \A n \in 1 .. Len(seqs) : seqs[n] \in Seq(T)
      BY ElementOfSeq, Zenon
    <2>2. 1 \in 1 .. Len(seqs) /\ 2 \in 1 .. Len(seqs) /\ 3 \in 1 .. Len(seqs)
      OBVIOUS
    <2>3. QED
      BY <2>1, <2>2, Zenon
  <1> HIDE DEF a, b, c
  <1>2. /\ two \in Seq(T) /\ Len(two) = x + y /\ \A n \in 1 .. x : two[n] = a[n]
        /\ \A n \in 1 .. y : two[x + n] = b[n]
    <2>1. Len(a) = x /\ Len(b) = y
      BY DEF a, b
    <2>2. /\ a \o b \in Seq(T) /\ Len(a \o b) = Len(a) + Len(b)
          /\ \A n \in 1 .. Len(a) : (a \o b)[n] = a[n]
          /\ \A n \in 1 .. Len(b) : (a \o b)[Len(a) + n] = b[n]
      BY <1>1, TwoLists
    <2>3. QED
      BY <2>1, <2>2, Zenon
  <1> HIDE DEF two
  <1>3. /\ three \in Seq(T) /\ Len(three) = x + y + z /\ \A n \in 1 .. x + y : three[n] = two[n]
        /\ \A n \in 1 .. z : three[x + y + n] = c[n]
    <2>1. Len(c) = z
      BY DEF c
    <2>2. /\ two \o c \in Seq(T) /\ Len(two \o c) = Len(two) + Len(c)
          /\ \A n \in 1 .. Len(two) : (two \o c)[n] = two[n]
          /\ \A n \in 1 .. Len(c) : (two \o c)[Len(two) + n] = c[n]
      <3>1. two \in Seq(T) /\ c \in Seq(T)
        BY <1>1, <1>2
      <3>2. QED
        BY <3>1, TwoLists
    <2>3. QED
      BY <1>2, <2>1, <2>2, Zenon
  <1>4. << >> \o a = a
    BY <1>1
  <1> HIDE DEF three
  <1>5. FlattenSeq(seqs) = three
    <2>1. g[0] = << >> /\ g[1] = a /\ g[2] = two /\ g[3] = three
      OBVIOUS
    <2>2. /\ \A n \in 1 .. 3 : n = 1 \/ n = 2 \/ n = 3
          /\ 1 - 1 = 0 /\ 2 - 1 = 1 /\ 3 - 1 = 2
      OBVIOUS
    <2>3. \A n \in 1 .. 3 : g[n] \in Seq(T) /\ g[n] = g[n - 1] \o seqs[n]
      <3> HIDE DEF g
      <3>1. g[1] \in Seq(T) /\ g[1] = g[1 - 1] \o seqs[1]
        BY <1>1, <1>4, <2>1, SMTT(30) DEF a
      <3>2. g[2] \in Seq(T) /\ g[2] = g[2 - 1] \o seqs[2]
        BY <1>2, <2>1, <2>2, Zenon DEF two, b
      <3>3. g[3] \in Seq(T) /\ g[3] = g[3 - 1] \o seqs[3]
        BY <1>3, <2>1, <2>2, Zenon DEF three, c
      <3>4. QED
        BY <2>2, <3>1, <3>2, <3>3, Zenon
    <2> HIDE DEF g
    <2>4. FlattenSeq(seqs) = g[Len(seqs)]
      <3>1. \A n \in 1 .. Len(seqs) : g[n] \in Seq(T) /\ g[n] = g[n - 1] \o seqs[n]
        BY <2>3, Zenon
      <3>2. QED
        BY <2>1, <3>1, FlattenIs, Zenon
    <2>5. QED
      BY <2>1, <2>4
  <1>6. \A n \in 1 .. x : three[n] = a[n]
    BY <1>2, <1>3
  <1>7. \A n \in 1 .. y : three[x + n] = b[n]
    <2> SUFFICES ASSUME NEW n \in 1 .. y PROVE three[x + n] = b[n]
      OBVIOUS
    <2>1. x + n \in 1 .. x + y
      OBVIOUS
    <2>2. QED
      BY <1>2, <1>3, <2>1
  <1>8. Joined(three, seqs, x, y, z)
    BY <1>3, <1>6, <1>7 DEF a, b, c, Joined
  <1>9. QED
    BY <1>3, <1>5, <1>8

\* The section of the mail, of three.
Grade(base) == IF base >= 85 * 60 THEN 1 ELSE IF base >= 70 * 60 THEN 2 ELSE 3
Graded(F, j) == {n \in DOMAIN F : Grade(F[n].base) = j}

\* The mail is of these, in the order of their grades and of the list.
PairByGrade(mail, F, item, q, r) ==
    \E j, l \in 1 .. Len(F) :
        /\ mail[q] = item[F[j]] /\ mail[r] = item[F[l]]
        /\ \/ Grade(F[j].base) < Grade(F[l].base)
           \/ Grade(F[j].base) = Grade(F[l].base) /\ j <= l
ByGrade(mail, F, item) == \A q, r \in 1 .. Len(F) : q <= r => PairByGrade(mail, F, item, q, r)

LEMMA BandIs ==
    ASSUME NEW x \in Int, NEW j \in 1 .. 3
    PROVE  Feed!Band(x) = <<"excellent", "strong", "potential">>[j] <=> Grade(x) = j
  <1>1. j = 1 \/ j = 2 \/ j = 3
    OBVIOUS
  <1>2. Grade(x) \in 1 .. 3 /\ Feed!Band(x) = <<"excellent", "strong", "potential">>[Grade(x)]
    BY DEF Feed!Band, Feed!Point, Grade
  <1>3. QED
    BY <1>1, <1>2

\* The items of these places of F, in their order.
Lists(list, F, item, places) ==
    /\ Len(list) = Cardinality(places) /\ Cardinality(places) \in Nat
    /\ \A k \in 1 .. Cardinality(places) : \E n \in places :
           Rank(places, n) = k /\ list[k] = item[F[n]]
    /\ \A n \in places : /\ Rank(places, n) \in 1 .. Cardinality(places)
                         /\ list[Rank(places, n)] = item[F[n]]

LEMMA SectionIs ==
    ASSUME NEW S, NEW F, Whole(F, S), \A x \in S : x.base \in Int,
           NEW item, DOMAIN item = S, NEW j \in 1 .. 3
    PROVE  /\ Feed!RenderBody(F, item)[j] \in Seq({item[x] : x \in S})
           /\ Lists(Feed!RenderBody(F, item)[j], F, item, Graded(F, j))
  <1> DEFINE names == <<"excellent", "strong", "potential">>
             places == Graded(F, j)
             kept == Kept(F, places)
             list == [k \in DOMAIN kept |-> item[kept[k]]]
             I == {item[x] : x \in S}
             c == Cardinality(places)
  <1>1. F \in Seq(S) /\ DOMAIN F = 1 .. Len(F) /\ \A n \in DOMAIN F : F[n] \in S
    BY LenProperties, ElementOfSeq DEF Whole
  <1>2. {n \in DOMAIN F : Feed!Band(F[n].base) = names[j]} = places
    BY <1>1, BandIs DEF Graded
  <1>3. Feed!KeptIf(F, LAMBDA m : Feed!Band(m.base) = names[j]) = kept
    BY <1>2, FeedKept DEF Feed!KeptIf
  <1>4. Feed!RenderBody(F, item)[j] = list
    <2> HIDE DEF kept
    <2>1. QED
      BY <1>3, Zenon DEF Feed!RenderBody
  <1>5. places \in SUBSET DOMAIN F
    BY DEF Graded
  <1>6. /\ kept \in Seq(S) /\ Len(kept) = c /\ c \in Nat
        /\ \A k \in 1 .. c : \E x \in places : Rank(places, x) = k /\ kept[k] = F[x]
        /\ \A x \in places : Rank(places, x) \in 1 .. c /\ kept[Rank(places, x)] = F[x]
    <2> HIDE DEF places
    <2>1. QED
      BY <1>1, <1>5, PickedFacts, ZenonT(30)
  <1> HIDE DEF kept, places, c
  <1>7. DOMAIN kept = 1 .. c
    BY <1>6, LenProperties
  <1>8. \A k \in 1 .. c : list[k] = item[kept[k]] /\ kept[k] \in S /\ list[k] \in I
    BY <1>6, <1>7, ElementOfSeq
  <1>9. list = [k \in 1 .. c |-> list[k]]
    BY <1>7
  <1> HIDE DEF list, I
  <1>10. list \in Seq(I) /\ Len(list) = c
    <2>1. list \in [1 .. c -> I]
      BY <1>8, <1>9
    <2>2. QED
      BY <1>6, <2>1
  <1>11. \A k \in 1 .. c : \E n \in places : Rank(places, n) = k /\ list[k] = item[F[n]]
    BY <1>6, <1>8
  <1>12. \A n \in places : Rank(places, n) \in 1 .. c /\ list[Rank(places, n)] = item[F[n]]
    BY <1>6, <1>8
  <1>13. Lists(list, F, item, places)
    BY <1>6, <1>10, <1>11, <1>12 DEF Lists, c
  <1>14. QED
    BY <1>4, <1>10, <1>13 DEF places, I

LEMMA GradesPart ==
    ASSUME NEW S, NEW F, Whole(F, S), \A x \in S : x.base \in Int
    PROVE  /\ \A j \in 1 .. 3 : Cardinality(Graded(F, j)) \in Nat
           /\ Cardinality(Graded(F, 1)) + Cardinality(Graded(F, 2)) + Cardinality(Graded(F, 3)) = Len(F)
  <1> DEFINE D == DOMAIN F
             a == Graded(F, 1)
             b == Graded(F, 2)
             c == Graded(F, 3)
  <1>1. DOMAIN F = 1 .. Len(F) /\ Len(F) \in Nat /\ \A n \in DOMAIN F : F[n].base \in Int
    BY LenProperties, ElementOfSeq DEF Whole
  <1>2. IsFiniteSet(D) /\ Cardinality(D) = Len(F)
    <2> DEFINE N == Len(F)
    <2>1. N \in Nat
      BY <1>1
    <2> HIDE DEF N
    <2>2. IsFiniteSet(1 .. N) /\ Cardinality(1 .. N) = N
      BY <2>1, FS_Interval
    <2>3. QED
      BY <1>1, <2>2 DEF N
  <1>3. \A j \in 1 .. 3 : IsFiniteSet(Graded(F, j)) /\ Cardinality(Graded(F, j)) \in Nat
    <2> SUFFICES ASSUME NEW j \in 1 .. 3
                 PROVE  IsFiniteSet(Graded(F, j)) /\ Cardinality(Graded(F, j)) \in Nat
      OBVIOUS
    <2>1. Graded(F, j) \in SUBSET D
      BY DEF Graded
    <2>2. QED
      BY <1>2, <2>1, FS_Subset, FS_CardinalityType
  <1>4. D = a \union b \union c /\ a \intersect b = {} /\ (a \union b) \intersect c = {}
    BY <1>1 DEF Graded, Grade
  <1>5. IsFiniteSet(a) /\ IsFiniteSet(b) /\ IsFiniteSet(c)
    BY <1>3
  <1> HIDE DEF D, a, b, c
  <1>6. Cardinality({}) = 0
    BY FS_EmptySet
  <1>7. IsFiniteSet(a \union b) /\ Cardinality(a \union b) = Cardinality(a) + Cardinality(b)
    <2>1. /\ Cardinality(a) \in Nat /\ Cardinality(b) \in Nat
          /\ IsFiniteSet(a \union b)
          /\ Cardinality(a \union b) = Cardinality(a) + Cardinality(b) - Cardinality(a \intersect b)
      BY <1>5, FS_Union, FS_CardinalityType
    <2>2. Cardinality(a \intersect b) = 0
      BY <1>4, <1>6, Zenon
    <2>3. QED
      BY <2>1, <2>2
  <1>8. Cardinality(D) = Cardinality(a) + Cardinality(b) + Cardinality(c)
    <2>1. /\ Cardinality(a \union b) \in Nat /\ Cardinality(c) \in Nat
          /\ Cardinality((a \union b) \union c)
                 = Cardinality(a \union b) + Cardinality(c) - Cardinality((a \union b) \intersect c)
      BY <1>5, <1>7, FS_Union, FS_CardinalityType
    <2>2. Cardinality((a \union b) \intersect c) = 0 /\ (a \union b) \union c = D
      BY <1>4, <1>6, Zenon
    <2> DEFINE x == Cardinality(a \union b)
               y == Cardinality(c)
    <2>3. x \in Nat /\ y \in Nat /\ Cardinality(D) = x + y - 0 /\ x = Cardinality(a) + Cardinality(b)
      BY <1>7, <2>1, <2>2, Zenon
    <2> HIDE DEF x, y
    <2>4. Cardinality(D) = x + y
      BY <2>3
    <2>5. QED
      BY <2>3, <2>4, Zenon DEF y
  <1>9. QED
    BY <1>2, <1>3, <1>8 DEF a, b, c

\* All of these are in the mail.
AllIn(mail, F, item) == \A k \in 1 .. Len(F) : \E q \in 1 .. Len(F) : mail[q] = item[F[k]]

LEMMA MailIs ==
    ASSUME NEW S, NEW F, Whole(F, S), \A x \in S : x.base \in Int, NEW item, DOMAIN item = S
    PROVE  LET body == Feed!RenderBody(F, item)
               mail == FlattenSeq(body)
               I == {item[x] : x \in S}
           IN  /\ body \in Seq(Seq(I)) /\ mail \in Seq(I) /\ Len(mail) = Len(F)
               /\ AllIn(mail, F, item) /\ ByGrade(mail, F, item)
  <1> DEFINE body == Feed!RenderBody(F, item)
             mail == FlattenSeq(body)
             I == {item[x] : x \in S}
             c(j) == Cardinality(Graded(F, j))
             x == c(1)
             y == c(2)
             z == c(3)
             M == Len(F)
             off == [j \in 1 .. 3 |-> IF j = 1 THEN 0 ELSE IF j = 2 THEN x ELSE x + y]
             rank(j, n) == Rank(Graded(F, j), n)
  <1>1. \A j \in 1 .. 3 : /\ body[j] \in Seq(I) /\ Len(body[j]) = c(j) /\ c(j) \in Nat
                          /\ \A k \in 1 .. c(j) : \E n \in Graded(F, j) :
                                 rank(j, n) = k /\ body[j][k] = item[F[n]]
                          /\ \A n \in Graded(F, j) : /\ rank(j, n) \in 1 .. c(j)
                                                     /\ body[j][rank(j, n)] = item[F[n]]
    <2> SUFFICES ASSUME NEW j \in 1 .. 3
                 PROVE  body[j] \in Seq(I) /\ Lists(body[j], F, item, Graded(F, j))
      BY Zenon DEF Lists
    <2>1. QED
      BY SectionIs
  <1>2. body = [j \in 1 .. 3 |-> body[j]]
    BY DEF Feed!RenderBody
  <1>3. x + y + z = M
    BY GradesPart
  <1>4. DOMAIN F = 1 .. M /\ M \in Nat
    BY LenProperties DEF Whole
  <1>5. \A j \in 1 .. 3 : \A n \in Graded(F, j) : n \in 1 .. M /\ Grade(F[n].base) = j
    BY <1>4 DEF Graded
  <1>6. \A j \in 1 .. 3 : \A n, k \in Graded(F, j) : n < k => rank(j, n) < rank(j, k)
    BY <1>4, <1>5, RankIsPlace, Zenon
  <1> HIDE DEF body, I, c, M, rank
  <1>7. body \in Seq(Seq(I)) /\ Len(body) = 3
    <2> DEFINE K == 3
               A == Seq(I)
    <2>1. body \in [1 .. K -> A] /\ K \in Nat
      BY <1>1, <1>2
    <2> HIDE DEF K, A
    <2>2. body \in Seq(A) /\ Len(body) = K
      BY <2>1
    <2>3. QED
      BY <2>2 DEF K, A
  <1>8. x \in Nat /\ y \in Nat /\ z \in Nat /\ Len(body[1]) = x /\ Len(body[2]) = y /\ Len(body[3]) = z
    BY <1>1
  <1>9. /\ mail \in Seq(I) /\ Len(mail) = x + y + z
        /\ \A n \in 1 .. x : mail[n] = body[1][n]
        /\ \A n \in 1 .. y : mail[x + n] = body[2][n]
        /\ \A n \in 1 .. z : mail[x + y + n] = body[3][n]
    <2> DEFINE u == x
               v == y
               w == z
    <2>1. u \in Nat /\ v \in Nat /\ w \in Nat /\ Len(body[1]) = u /\ Len(body[2]) = v /\ Len(body[3]) = w
      BY <1>8
    <2> HIDE DEF u, v, w
    <2>2. mail \in Seq(I) /\ Joined(mail, body, u, v, w)
      BY <1>7, <2>1, ThreeLists
    <2> HIDE DEF mail
    <2>3. QED
      BY <2>2 DEF u, v, w, Joined
  <1> HIDE DEF mail
  <1>10. \A j \in 1 .. 3 : \A k \in 1 .. c(j) : mail[off[j] + k] = body[j][k] /\ off[j] + k \in 1 .. M
    <2> SUFFICES ASSUME NEW j \in 1 .. 3, NEW k \in 1 .. c(j)
                 PROVE  mail[off[j] + k] = body[j][k] /\ off[j] + k \in 1 .. M
      OBVIOUS
    <2>1. CASE j = 1
      <3>1. off[j] + k = k /\ k \in 1 .. x
        BY <2>1
      <3>2. k \in 1 .. M
        BY <1>3, <1>4, <1>8, <3>1
      <3>3. QED
        BY <1>9, <2>1, <3>1, <3>2
    <2>2. CASE j = 2
      <3>1. off[j] + k = x + k /\ k \in 1 .. y
        BY <2>2
      <3>2. x + k \in 1 .. M
        BY <1>3, <1>4, <1>8, <3>1
      <3>3. QED
        BY <1>9, <2>2, <3>1, <3>2
    <2>3. CASE j = 3
      <3>1. off[j] + k = x + y + k /\ k \in 1 .. z
        BY <2>3
      <3>2. x + y + k \in 1 .. M
        BY <1>3, <1>4, <1>8, <3>1
      <3>3. QED
        BY <1>9, <2>3, <3>1, <3>2
    <2>4. QED
      BY <2>1, <2>2, <2>3
  <1>11. ASSUME NEW q \in 1 .. M
         PROVE  \E j \in 1 .. 3 : \E k \in 1 .. c(j) : q = off[j] + k
    <2>1. CASE q <= x
      <3>1. q \in 1 .. c(1) /\ q = off[1] + q /\ 1 \in 1 .. 3
        BY <1>4, <1>8, <2>1
      <3>2. QED
        BY <3>1
    <2>2. CASE x < q /\ q <= x + y
      <3>1. q - x \in 1 .. c(2) /\ q = off[2] + (q - x) /\ 2 \in 1 .. 3
        BY <1>4, <1>8, <2>2
      <3>2. QED
        BY <3>1
    <2>3. CASE x + y < q
      <3>1. q - (x + y) \in 1 .. c(3) /\ q = off[3] + (q - (x + y)) /\ 3 \in 1 .. 3
        BY <1>3, <1>4, <1>8, <2>3
      <3>2. QED
        BY <3>1
    <2>4. QED
      BY <1>4, <1>8, <2>1, <2>2, <2>3
  <1>12. ASSUME NEW q \in 1 .. M
         PROVE  \E j \in 1 .. 3 : \E n \in Graded(F, j) : q = off[j] + rank(j, n) /\ mail[q] = item[F[n]]
    <2>1. PICK j \in 1 .. 3 : \E k \in 1 .. c(j) : q = off[j] + k
      BY <1>11
    <2>2. PICK k \in 1 .. c(j) : q = off[j] + k
      BY <2>1
    <2> HIDE DEF off
    <2>3. PICK n \in Graded(F, j) : rank(j, n) = k /\ body[j][k] = item[F[n]]
      BY <1>1, Zenon
    <2>4. mail[q] = item[F[n]]
      BY <1>10, <2>2, <2>3
    <2>5. QED
      BY <2>2, <2>3, <2>4
  <1>13. ASSUME NEW k \in 1 .. M PROVE \E q \in 1 .. M : mail[q] = item[F[k]]
    <2>1. Grade(F[k].base) \in 1 .. 3 /\ k \in Graded(F, Grade(F[k].base))
      BY <1>4 DEF Grade, Graded
    <2> DEFINE j == Grade(F[k].base)
    <2>2. j \in 1 .. 3 /\ k \in Graded(F, j)
      BY <2>1
    <2> HIDE DEF j, off
    <2>3. rank(j, k) \in 1 .. c(j) /\ body[j][rank(j, k)] = item[F[k]]
      BY <1>1, <2>2
    <2>4. /\ off[j] + rank(j, k) \in 1 .. M
          /\ mail[off[j] + rank(j, k)] = item[F[k]]
      BY <1>10, <2>2, <2>3
    <2>5. QED
      BY <2>4
  <1>14. \A j, l \in 1 .. 3 : l < j => off[l] + c(l) <= off[j]
    <2>1. \A j \in 1 .. 3 : j = 1 \/ j = 2 \/ j = 3
      OBVIOUS
    <2>2. off[1] = 0 /\ off[2] = x /\ off[3] = x + y
      OBVIOUS
    <2> HIDE DEF off
    <2>3. QED
      BY <1>8, <2>1, <2>2
  <1>15. \A j \in 1 .. 3 : off[j] \in Nat
    BY <1>8
  <1> HIDE DEF off
  <1>16. ByGrade(mail, F, item)
    <2> SUFFICES ASSUME NEW q \in 1 .. M, NEW r \in 1 .. M, q <= r
                 PROVE  \E j, l \in 1 .. M :
                            /\ mail[q] = item[F[j]] /\ mail[r] = item[F[l]]
                            /\ \/ Grade(F[j].base) < Grade(F[l].base)
                               \/ Grade(F[j].base) = Grade(F[l].base) /\ j <= l
      BY Zenon DEF ByGrade, PairByGrade, M
    <2>1. PICK j \in 1 .. 3 : \E n \in Graded(F, j) : q = off[j] + rank(j, n) /\ mail[q] = item[F[n]]
      BY <1>12
    <2>2. PICK n \in Graded(F, j) : q = off[j] + rank(j, n) /\ mail[q] = item[F[n]]
      BY <2>1
    <2>3. PICK l \in 1 .. 3 : \E k \in Graded(F, l) : r = off[l] + rank(l, k) /\ mail[r] = item[F[k]]
      BY <1>12
    <2>4. PICK k \in Graded(F, l) : r = off[l] + rank(l, k) /\ mail[r] = item[F[k]]
      BY <2>3
    <2>5. n \in 1 .. M /\ k \in 1 .. M /\ Grade(F[n].base) = j /\ Grade(F[k].base) = l
      BY <1>5
    <2>6. rank(j, n) \in 1 .. c(j) /\ rank(l, k) \in 1 .. c(l) /\ c(j) \in Nat /\ c(l) \in Nat
      BY <1>1, Zenon
    <2>7. ~(l < j)
      BY <1>14, <1>15, <2>2, <2>4, <2>6
    <2>8. j = l => n <= k
      <3> SUFFICES ASSUME j = l, k < n PROVE FALSE
        BY <1>4, <2>5
      <3>1. rank(j, k) < rank(j, n)
        BY <1>6
      <3>2. q = off[j] + rank(j, n) /\ r = off[j] + rank(j, k)
        BY <2>2, <2>4
      <3>3. off[j] \in Nat /\ rank(j, n) \in Int /\ rank(j, k) \in Int
        BY <1>15, <2>6
      <3>4. QED
        BY <3>1, <3>2, <3>3
    <2>9. QED
      BY <2>2, <2>4, <2>5, <2>7, <2>8
  <1>17. Len(mail) = M
    BY <1>3, <1>9
  <1>18. AllIn(mail, F, item)
    BY <1>13, Zenon DEF AllIn, M
  <1>19. QED
    BY <1>7, <1>9, <1>16, <1>17, <1>18 DEF body, mail, I, M

LEMMA ItemIs ==
    ASSUME NEW m, NEW s
    PROVE  LET item == Feed!ItemFromMatch(m, s)
           IN  item.job = m.job /\ item.score = m.base /\ item.band = Feed!Band(m.base)
  BY DEF Feed!ItemFromMatch

PlaceOn(first, item) == Min({n \in DOMAIN first : first[n] = item.job})

\* The better band first, in the order of the list within a band.
MailInOrder(mail, first) ==
    \A n \in 2 .. Len(mail) :
        \/ mail[n - 1].score > mail[n].score /\ mail[n - 1].band # mail[n].band
        \/ mail[n - 1].band = mail[n].band /\ PlaceOn(first, mail[n - 1]) <= PlaceOn(first, mail[n])

MailWhole(mail, first) ==
    /\ Len(mail) = Len(first) /\ {item.job : item \in ToSet(mail)} = ToSet(first)
    /\ MailInOrder(mail, first)

\* The scores of these are known, and a job is that of one of them.
Telling(S) == (\A x \in S : x.base \in Int) /\ \A x, y \in S : x.job = y.job => x = y

MailFor(F, S, s) == Feed!RenderBody(F, [m \in S |-> Feed!ItemFromMatch(m, s)])
MailsFrom(S, s) == {Feed!ItemFromMatch(m, s) : m \in S}

LEMMA MailIsWhole ==
    ASSUME NEW S, NEW F, Whole(F, S), Telling(S), NEW s,
           NEW first, first = [n \in 1 .. Len(F) |-> F[n].job]
    PROVE  /\ MailFor(F, S, s) \in Seq(Seq(MailsFrom(S, s)))
           /\ MailWhole(FlattenSeq(MailFor(F, S, s)), first)
  <1> DEFINE item == [m \in S |-> Feed!ItemFromMatch(m, s)]
             body == Feed!RenderBody(F, item)
             mail == FlattenSeq(body)
             I == {item[x] : x \in S}
             M == Len(F)
  <1>0. (\A x \in S : x.base \in Int) /\ \A x, y \in S : x.job = y.job => x = y
    BY DEF Telling
  <1>1. DOMAIN item = S /\ I = {Feed!ItemFromMatch(m, s) : m \in S}
    OBVIOUS
  <1>2. \A x \in S : item[x].job = x.job /\ item[x].score = x.base /\ item[x].band = Feed!Band(x.base)
    BY ItemIs
  <1> HIDE DEF item
  <1>3. /\ body \in Seq(Seq(I)) /\ mail \in Seq(I) /\ Len(mail) = M
        /\ AllIn(mail, F, item) /\ ByGrade(mail, F, item)
    <2>a. Whole(F, S) /\ (\A x \in S : x.base \in Int) /\ DOMAIN item = S
      BY <1>0, <1>1
    <2> HIDE DEF item, M
    <2>1. /\ Feed!RenderBody(F, item) \in Seq(Seq({item[x] : x \in S}))
          /\ FlattenSeq(Feed!RenderBody(F, item)) \in Seq({item[x] : x \in S})
          /\ Len(FlattenSeq(Feed!RenderBody(F, item))) = Len(F)
          /\ AllIn(FlattenSeq(Feed!RenderBody(F, item)), F, item)
          /\ ByGrade(FlattenSeq(Feed!RenderBody(F, item)), F, item)
      BY <2>a, MailIs
    <2>2. QED
      BY <2>1, Zenon DEF M
  <1> HIDE DEF body, mail, I
  <1>4. DOMAIN F = 1 .. M /\ M \in Nat /\ \A n \in 1 .. M : F[n] \in S /\ F[n].base \in Int
    BY <1>0, LenProperties, ElementOfSeq DEF Whole
  <1>5. DOMAIN first = 1 .. M /\ \A n \in 1 .. M : first[n] = F[n].job
    OBVIOUS
  <1>6. Len(first) = M
    BY <1>4
  <1>7. DOMAIN mail = 1 .. M
    BY <1>3, LenProperties
  <1>8. \A q \in 1 .. M : \E k \in 1 .. M : mail[q] = item[F[k]]
    <2> SUFFICES ASSUME NEW q \in 1 .. M PROVE \E k \in 1 .. M : mail[q] = item[F[k]]
      OBVIOUS
    <2>1. q <= q
      BY <1>4
    <2>2. QED
      BY <1>3, <2>1 DEF ByGrade, PairByGrade
  <1>9. {i_.job : i_ \in ToSet(mail)} = ToSet(first)
    <2>1. ToSet(mail) = {mail[q] : q \in 1 .. M} /\ ToSet(first) = {first[k] : k \in 1 .. M}
      BY <1>5, <1>7 DEF ToSet
    <2>2. ASSUME NEW q \in 1 .. M PROVE \E k \in 1 .. M : mail[q].job = first[k]
      <3>1. PICK k \in 1 .. M : mail[q] = item[F[k]]
        BY <1>8
      <3>2. mail[q].job = first[k]
        BY <1>2, <1>4, <1>5, <3>1
      <3>3. QED
        BY <3>2
    <2>3. ASSUME NEW k \in 1 .. M PROVE \E q \in 1 .. M : mail[q].job = first[k]
      <3>1. PICK q \in 1 .. M : mail[q] = item[F[k]]
        BY <1>3 DEF AllIn
      <3>2. mail[q].job = first[k]
        BY <1>2, <1>4, <1>5, <3>1
      <3>3. QED
        BY <3>2
    <2> DEFINE A == {i_.job : i_ \in ToSet(mail)}
               B == ToSet(first)
    <2>4. A = {mail[q].job : q \in 1 .. M}
      BY <2>1
    <2>5. B = {first[k] : k \in 1 .. M}
      BY <2>1
    <2>6. {mail[q].job : q \in 1 .. M} = {first[k] : k \in 1 .. M}
      <3> DEFINE job(q) == mail[q].job
                 D == 1 .. M
      <3>1. /\ \A q \in D : \E k \in D : job(q) = first[k]
            /\ \A k \in D : \E q \in D : job(q) = first[k]
        BY <2>2, <2>3
      <3> HIDE DEF job, D
      <3>2. ASSUME NEW q \in D PROVE job(q) \in {first[k] : k \in D}
        BY <3>1
      <3>3. ASSUME NEW k \in D PROVE first[k] \in {job(q) : q \in D}
        BY <3>1, Zenon
      <3>4. {job(q) : q \in D} \subseteq {first[k] : k \in D}
        BY <3>2
      <3>5. {first[k] : k \in D} \subseteq {job(q) : q \in D}
        BY <3>3
      <3>6. QED
        BY <3>4, <3>5, Zenon DEF job, D
    <2>7. QED
      BY <2>4, <2>5, <2>6, Zenon
  <1>10. \A n, k \in 1 .. M : F[n].job = F[k].job => n = k
    <2>1. \A n, k \in 1 .. M : F[n] = F[k] => n = k
      BY WholeIs DEF Whole
    <2>2. QED
      BY <1>0, <1>4, <2>1
  <1>11. ASSUME NEW j \in 1 .. M PROVE PlaceOn(first, item[F[j]]) = j
    <2> DEFINE A == {n \in DOMAIN first : first[n] = item[F[j]].job}
    <2>1. item[F[j]].job = F[j].job
      BY <1>2, <1>4
    <2>2. A = {j}
      BY <1>5, <1>10, <2>1
    <2> HIDE DEF A
    <2>3. j \in Int /\ A # {} /\ A \subseteq j .. j
      BY <1>4, <2>2
    <2>4. Min(A) \in A
      BY <2>3, MinMaxIs, Zenon
    <2>5. Min(A) = j
      BY <2>2, <2>4
    <2>6. QED
      BY <2>5 DEF PlaceOn, A
  <1>12. MailInOrder(mail, first)
    <2> SUFFICES ASSUME NEW n \in 2 .. M
                 PROVE  \/ mail[n - 1].score > mail[n].score /\ mail[n - 1].band # mail[n].band
                        \/ /\ mail[n - 1].band = mail[n].band
                           /\ PlaceOn(first, mail[n - 1]) <= PlaceOn(first, mail[n])
      BY <1>3 DEF MailInOrder
    <2>1. n - 1 \in 1 .. M /\ n \in 1 .. M /\ n - 1 <= n
      BY <1>4
    <2>2. PICK j \in 1 .. M, l \in 1 .. M :
              /\ mail[n - 1] = item[F[j]] /\ mail[n] = item[F[l]]
              /\ \/ Grade(F[j].base) < Grade(F[l].base)
                 \/ Grade(F[j].base) = Grade(F[l].base) /\ j <= l
      <3>1. PairByGrade(mail, F, item, n - 1, n)
        BY <1>3, <2>1, Zenon DEF ByGrade
      <3>2. QED
        BY <3>1 DEF PairByGrade
    <2>3. /\ mail[n - 1].score = F[j].base /\ mail[n - 1].band = Feed!Band(F[j].base)
          /\ mail[n].score = F[l].base /\ mail[n].band = Feed!Band(F[l].base)
          /\ F[j].base \in Int /\ F[l].base \in Int
      BY <1>2, <1>4, <2>2
    <2>4. PlaceOn(first, mail[n - 1]) = j /\ PlaceOn(first, mail[n]) = l
      BY <1>11, <2>2
    <2>5. CASE Grade(F[j].base) < Grade(F[l].base)
      <3>1. F[j].base > F[l].base /\ Feed!Band(F[j].base) # Feed!Band(F[l].base)
        BY <2>3, <2>5 DEF Grade, Feed!Band, Feed!Point
      <3>2. QED
        BY <2>3, <3>1
    <2>6. CASE Grade(F[j].base) = Grade(F[l].base) /\ j <= l
      <3>1. Feed!Band(F[j].base) = Feed!Band(F[l].base)
        BY <2>3, <2>6 DEF Grade, Feed!Band, Feed!Point
      <3>2. QED
        BY <2>3, <2>4, <2>6, <3>1
    <2>7. QED
      BY <2>2, <2>5, <2>6
  <1>13. MailWhole(mail, first)
    BY <1>3, <1>6, <1>9, <1>12, Zenon DEF MailWhole
  <1>14. QED
    <2>1. MailFor(F, S, s) = body /\ MailsFrom(S, s) = I
      BY <1>1 DEF MailFor, MailsFrom, body, item
    <2>2. QED
      BY <1>3, <1>13, <2>1, Zenon DEF mail

-------------------------------------------------------------------------------
(* The recommendations that are answered *)

FeedAnswer(f, limit) ==
    [pages |-> Pages(LAMBDA offset, l : Feed!Recommended(f.rows, f.signals, f.minScore, offset, l),
                     f.rows, limit),
     digest |-> Feed!BuildDigest(Feed!Shortlist(f.rows, f.signals, f.minScore, limit), f.signals),
     mentions |-> limit]

LEMMA RecommendedIs ==
    \A f, o, l : Feed!Recommended(f.rows, f.signals, f.minScore, o, l)
                     = [items |-> Feed!Take(RankedOf(f), o, l), total |-> Len(RankedOf(f))]
  BY DEF Feed!Recommended, RankedOf

\* As FeedIsWhole says it of the best first.
Descends(s, list) ==
    \A n \in 2 .. Len(list) : \/ Shown(s, list[n - 1]) > Shown(s, list[n])
                              \/ /\ Shown(s, list[n - 1]) = Shown(s, list[n])
                                 /\ list[n - 1].base >= list[n].base

LEMMA BestDescends ==
    ASSUME NEW s, NEW list, BestFirst(s, list), Len(list) \in Nat
    PROVE  Descends(s, list)
  <1> SUFFICES ASSUME NEW n \in 2 .. Len(list)
               PROVE  \/ Shown(s, list[n - 1]) > Shown(s, list[n])
                      \/ /\ Shown(s, list[n - 1]) = Shown(s, list[n])
                         /\ list[n - 1].base >= list[n].base
    BY DEF Descends
  <1>1. n - 1 \in 1 .. Len(list) /\ n \in 1 .. Len(list) /\ n - 1 <= n
    OBVIOUS
  <1>2. QED
    BY <1>1 DEF BestFirst

\* The pages of a list of n rows at most.
Paged(pages, list, n, limit) ==
    /\ DOMAIN pages = 1 .. n \div limit + 1
    /\ \A k \in 1 .. n \div limit + 1 : /\ pages[k].items = Feed!Take(list, (k - 1) * limit, limit)
                                         /\ pages[k].total = Len(list)

LEMMA PagedIs ==
    ASSUME NEW n, NEW limit, NEW list, NEW pages, DOMAIN pages = 1 .. n \div limit + 1,
           \A k \in 1 .. n \div limit + 1 :
               pages[k] = [items |-> Feed!Take(list, (k - 1) * limit, limit), total |-> Len(list)]
    PROVE  Paged(pages, list, n, limit)
  <1> DEFINE D == 1 .. n \div limit + 1
             items(k) == Feed!Take(list, (k - 1) * limit, limit)
             total == Len(list)
  <1>1. DOMAIN pages = D /\ \A k \in D : pages[k] = [items |-> items(k), total |-> total]
    OBVIOUS
  <1> HIDE DEF D, items, total
  <1>2. ASSUME NEW k \in D PROVE pages[k].items = items(k) /\ pages[k].total = total
    <2> DEFINE some == items(k)
               page == [items |-> some, total |-> total]
    <2>1. pages[k] = page
      BY <1>1
    <2> HIDE DEF some
    <2>2. page.items = some /\ page.total = total
      OBVIOUS
    <2> HIDE DEF page
    <2>3. QED
      BY <2>1, <2>2 DEF some
  <1>3. QED
    BY <1>1, <1>2 DEF D, items, total, Paged

LEMMA PagesShow ==
    ASSUME NEW S, NEW list, Whole(list, S), NEW L \in Nat, Len(list) <= L, NEW limit \in 1 .. L,
           NEW pages, Paged(pages, list, L, limit)
    PROVE  Items(pages) = list /\ Shows(pages, S)
  <1>1. list \in Seq(S)
    BY DEF Whole
  <1>2. Items(pages) = list
    BY <1>1, PagesAre DEF Paged
  <1>3. Len(list) = Cardinality(S)
    BY WholeSize
  <1>4. QED
    BY <1>2, <1>3 DEF Shows, Whole, Paged

LEMMA FeedShows ==
    ASSUME NEW f \in FeedInput, NEW limit \in 1 .. Len(f.rows)
    PROVE  LET pages == FeedAnswer(f, limit).pages
           IN  Items(pages) = RankedOf(f) /\ Shows(pages, EligibleOf(f))
  <1> DEFINE pages == FeedAnswer(f, limit).pages
             L == Len(f.rows)
             list == RankedOf(f)
             S == EligibleOf(f)
             List(o, l) == Feed!Recommended(f.rows, f.signals, f.minScore, o, l)
  <1>1. L \in Nat /\ Whole(list, S) /\ Len(list) <= L
    BY InputIsReadable, RecommendedAre DEF Readable
  <1>2. /\ DOMAIN pages = 1 .. L \div limit + 1
        /\ \A k \in 1 .. L \div limit + 1 : pages[k] = List((k - 1) * limit, limit)
    BY Zenon DEF FeedAnswer, Pages
  <1>3. \A o, l : List(o, l) = [items |-> Feed!Take(list, o, l), total |-> Len(list)]
    BY RecommendedIs, Zenon
  <1> HIDE DEF pages, list, S, List
  <1>4. Paged(pages, list, L, limit)
    <2> HIDE DEF L
    <2>1. /\ DOMAIN pages = 1 .. L \div limit + 1
          /\ \A k \in 1 .. L \div limit + 1 :
                 pages[k] = [items |-> Feed!Take(list, (k - 1) * limit, limit), total |-> Len(list)]
      BY <1>2, <1>3, Zenon
    <2>2. QED
      BY <2>1, PagedIs, Zenon
  <1> HIDE DEF L
  <1>5. limit \in 1 .. L
    BY DEF L
  <1>6. QED
    BY <1>1, <1>4, <1>5, PagesShow DEF pages, list, S

LEMMA EmptyIs ==
    ASSUME NEW list, NEW N \in Nat, N = 0, list = [n \in 1 .. N |-> list[n]]
    PROVE  list = << >>
  <1> DEFINE T == {list[n] : n \in 1 .. N}
  <1>1. \A n \in 1 .. N : list[n] \in T
    OBVIOUS
  <1> HIDE DEF T
  <1>2. list \in [1 .. N -> T]
    BY <1>1
  <1>3. list \in Seq(T) /\ Len(list) = N
    BY <1>2
  <1> DEFINE none == << >>
  <1>4. none \in Seq(T) /\ Len(none) = 0
    OBVIOUS
  <1> HIDE DEF none
  <1>5. \A n \in 1 .. N : list[n] = none[n]
    OBVIOUS
  <1>6. list = none
    BY <1>3, <1>4, <1>5
  <1>7. QED
    BY <1>6 DEF none

MailOf(f, limit) ==
    LET digest == FeedAnswer(f, limit).digest
    IN  IF digest = Unknown THEN << >> ELSE FlattenSeq(digest)

LEMMA DigestIsWhole ==
    ASSUME NEW f \in FeedInput, NEW limit \in 1 .. Len(f.rows),
           NEW first, first = [n \in 1 .. Min({limit, Len(RankedOf(f))}) |-> RankedOf(f)[n].job]
    PROVE  MailWhole(MailOf(f, limit), first)
  <1> DEFINE feed == RankedOf(f)
             S == EligibleOf(f)
             rows == f.rows
             F == Feed!Take(feed, 0, limit)
             e == IF limit <= Len(feed) THEN limit ELSE Len(feed)
             U == {feed[n] : n \in 1 .. e}
             digest == FeedAnswer(f, limit).digest
  <1>1. /\ Whole(feed, S) /\ Len(feed) \in Nat /\ limit \in Nat /\ 1 <= limit
        /\ \A m \in S : m \in ToSet(rows)
    BY RecommendedAre, InputIsReadable, WholeSize DEF Readable
  <1>2. Min({limit, Len(feed)}) = e
    BY <1>1, TwoMinMax, Zenon
  <1>3. Feed!Shortlist(f.rows, f.signals, f.minScore, limit) = F
    <2> DEFINE page == [items |-> F, total |-> Len(feed)]
    <2>1. (IF limit < 1 THEN 1 ELSE limit) = limit
      BY <1>1
    <2>2. Feed!Shortlist(f.rows, f.signals, f.minScore, limit)
              = Feed!Recommended(f.rows, f.signals, f.minScore, 0, limit).items
      BY <2>1, Zenon DEF Feed!Shortlist
    <2>3. Feed!Recommended(f.rows, f.signals, f.minScore, 0, limit) = page
      BY RecommendedIs, Zenon
    <2> HIDE DEF F, feed
    <2>4. page.items = F
      OBVIOUS
    <2> HIDE DEF page
    <2>5. QED
      BY <2>2, <2>3, <2>4, Zenon
  <1>4. digest = IF F = << >> THEN Unknown
                 ELSE Feed!RenderBody(F, [m \in ToSet(F) |-> Feed!ItemFromMatch(m, f.signals)])
    <2> HIDE DEF F
    <2> DEFINE all == Pages(LAMBDA offset, l : Feed!Recommended(f.rows, f.signals, f.minScore, offset, l),
                            f.rows, limit)
               mail == Feed!BuildDigest(Feed!Shortlist(f.rows, f.signals, f.minScore, limit), f.signals)
    <2>1. FeedAnswer(f, limit) = [pages |-> all, digest |-> mail, mentions |-> limit]
      BY DEF FeedAnswer
    <2> HIDE DEF all, mail
    <2>2. digest = mail
      BY <2>1
    <2>3. mail = Feed!BuildDigest(F, f.signals)
      BY <1>3, Zenon DEF mail
    <2> HIDE DEF digest
    <2>4. QED
      BY <2>2, <2>3 DEF Feed!BuildDigest, Feed!ToSet, ToSet
  <1> HIDE DEF F, S, feed, rows, digest
  <1>5. /\ Len(F) = e /\ e \in Nat /\ e <= Len(feed) /\ \A n \in 1 .. e : F[n] = feed[n]
        /\ Whole(F, U)
    BY <1>1, WholeFirst, ZenonT(30) DEF F
  <1> HIDE DEF e
  <1>6. \A n \in 1 .. e : feed[n] \in ToSet(rows)
    BY <1>1, <1>5, ElementOfSeq DEF Whole
  <1>7. U \subseteq ToSet(rows)
    BY <1>6
  <1>8. first = [n \in 1 .. Len(F) |-> F[n].job]
    BY <1>2, <1>5, Zenon DEF feed
  <1> HIDE DEF U
  <1>9. \A m \in U : m.base \in Int
    BY <1>7, FeedAssumption DEF rows
  <1>10. \A x, y \in U : x.job = y.job => x = y
    <2>1. \A k, n \in DOMAIN f.rows : f.rows[k].job = f.rows[n].job => k = n
      BY FeedAssumption
    <2>2. \A x, y \in ToSet(rows) : x.job = y.job => x = y
      BY <2>1 DEF rows, ToSet
    <2>3. QED
      BY <1>7, <2>2
  <1>11. ToSet(F) = U
    BY <1>5 DEF Whole
  <1> DEFINE s == f.signals
             body == Feed!RenderBody(F, [m \in U |-> Feed!ItemFromMatch(m, s)])
  <1>12. body \in Seq(Seq(MailsFrom(U, s))) /\ MailWhole(FlattenSeq(body), first)
    <2>a. Whole(F, U) /\ Telling(U) /\ first = [n \in 1 .. Len(F) |-> F[n].job]
      BY <1>5, <1>8, <1>9, <1>10, Zenon DEF Telling
    <2> HIDE DEF s
    <2>1. /\ MailFor(F, U, s) \in Seq(Seq(MailsFrom(U, s)))
          /\ MailWhole(FlattenSeq(MailFor(F, U, s)), first)
      BY <2>a, MailIsWhole, Zenon
    <2>2. body = MailFor(F, U, s)
      BY DEF MailFor
    <2> HIDE DEF body
    <2>3. QED
      BY <2>1, <2>2
  <1> HIDE DEF body
  <1>13. body # Unknown
    <2> DEFINE I == {Feed!ItemFromMatch(m, s) : m \in U}
               J == {Feed!ItemFromMatch(m, s) : m \in ToSet(rows)}
    <2>1. I \subseteq J
      BY <1>7
    <2>2. Unknown \notin Seq(Seq(J))
      BY DigestAssumption, Zenon DEF rows
    <2>3. body \in Seq(Seq(I))
      BY <1>12 DEF MailsFrom
    <2> HIDE DEF I, J
    <2>4. Seq(I) \subseteq Seq(J)
      BY <2>1
    <2>5. body \in Seq(Seq(J))
      <3> DEFINE A == Seq(I)
                 B == Seq(J)
      <3>1. A \subseteq B /\ body \in Seq(A)
        BY <2>3, <2>4
      <3> HIDE DEF A, B
      <3>2. body \in Seq(B)
        BY <3>1
      <3>3. QED
        BY <3>2 DEF B
    <2>6. QED
      BY <2>2, <2>5
  <1>14. CASE F = << >>
    <2>1. digest = Unknown /\ MailOf(f, limit) = << >>
      BY <1>4, <1>14 DEF MailOf, digest
    <2>2. Len(F) = 0
      BY <1>14
    <2>3. first = << >>
      <3> DEFINE N == Len(F)
      <3>1. N = 0 /\ first = [n \in 1 .. N |-> first[n]]
        BY <1>8, <2>2, Zenon
      <3> HIDE DEF N
      <3>2. N \in Nat
        BY <3>1
      <3>3. QED
        BY <3>1, <3>2, EmptyIs, Zenon
    <2>4. MailWhole(<< >>, first)
      <3>1. Len(<< >>) = 0 /\ ToSet(<< >>) = {} /\ 2 .. 0 = {}
        BY DEF ToSet
      <3>2. {item.job : item \in ToSet(<< >>)} = ToSet(<< >>)
        BY <3>1
      <3>3. MailInOrder(<< >>, << >>)
        BY <3>1 DEF MailInOrder
      <3>4. QED
        BY <2>3, <3>2, <3>3, Zenon DEF MailWhole
    <2>5. QED
      BY <2>1, <2>4
  <1>15. CASE F # << >>
    <2>1. digest = body
      BY <1>4, <1>11, <1>15 DEF body
    <2>2. MailOf(f, limit) = FlattenSeq(body)
      BY <1>13, <2>1 DEF MailOf, digest
    <2>3. QED
      BY <1>12, <2>2
  <1>16. QED
    BY <1>14, <1>15

\* The part of FeedIsWhole about the recommendations.
FeedWhole(f, limit) ==
    LET feed == Items(FeedAnswer(f, limit).pages)
    IN  /\ Shows(FeedAnswer(f, limit).pages, EligibleOf(f)) /\ Descends(f.signals, feed)
        /\ MailWhole(MailOf(f, limit), [n \in 1 .. Min({limit, Len(feed)}) |-> feed[n].job])

LEMMA FeedIs ==
    ASSUME NEW f \in FeedInput, NEW limit \in 1 .. Len(f.rows)
    PROVE  FeedWhole(f, limit)
  <1>1. /\ Items(FeedAnswer(f, limit).pages) = RankedOf(f)
        /\ Shows(FeedAnswer(f, limit).pages, EligibleOf(f))
    BY FeedShows
  <1>2. Descends(f.signals, RankedOf(f))
    <2>1. Whole(RankedOf(f), EligibleOf(f)) /\ BestFirst(f.signals, RankedOf(f))
      BY RecommendedAre
    <2>2. QED
      BY <2>1, WholeSize, BestDescends
  <1>3. MailWhole(MailOf(f, limit),
                  [n \in 1 .. Min({limit, Len(RankedOf(f))}) |-> RankedOf(f)[n].job])
    BY DigestIsWhole
  <1>4. QED
    BY <1>1, <1>2, <1>3 DEF FeedWhole

-------------------------------------------------------------------------------
(* The jobs page, the saved jobs and those of companies *)

AskedOf(f) == [f.filter EXCEPT !.skills = Feed!Take(@, 0, Feed!MaxTerms)]
LeastOf(f) == IF f.minScore = Unknown THEN 0 ELSE f.minScore
IsByScore(f) == f.sort = "score" \/ f.minScore # Unknown

BrowseAnswer(f, limit) ==
    [pages |-> Pages(LAMBDA offset, l : Feed!ListJobs(f.rows, f.signals, f.filter, f.minScore, f.sort,
                                                      offset, l), f.rows, limit),
     saved |-> Pages(LAMBDA offset, l : Feed!ListSaved(f.rows, offset, l), f.rows, limit),
     atCompanies |-> Pages(LAMBDA offset, l : Feed!ListByCompanies(f.rows, f.companies, offset, l),
                           f.rows, limit),
     open |-> Feed!CountOpenByCompany(f.rows, f.companies)]

\* The places of the rows on these lists.
PassingOf(f) == {n \in DOMAIN f.rows : Feed!Where(f.rows[n], AskedOf(f))}
CountedOf(f) ==
    {n \in DOMAIN f.rows : f.rows[n].base # Unknown /\ f.rows[n].base >= LeastOf(f)
                           /\ Feed!Where(f.rows[n], AskedOf(f))}
SavedOf(f) == {n \in DOMAIN f.rows : f.rows[n].job.saved # Unknown /\ ~f.rows[n].job.deleted}
OpenOf(f) == {n \in DOMAIN f.rows : ~f.rows[n].job.deleted /\ f.rows[n].job.companyId \in f.companies}

TopOf(f) ==
    LET found == Kept(f.rows, CountedOf(f))
    IN  Feed!Take(Feed!SortDown(found, Feed!Base(found)), 0, CandidateLimit)
SavedList(f) ==
    LET found == Kept(f.rows, SavedOf(f))
    IN  Feed!SortDown(found, [n \in DOMAIN found |-> found[n].job.saved])

LEMMA PageOf == \A rows, o, l : Feed!Page(rows, o, l) = [items |-> Feed!Take(rows, o, l), total |-> Len(rows)]
  BY DEF Feed!Page

LEMMA ListsAre ==
    ASSUME NEW f, NEW o, NEW l
    PROVE  /\ ~IsByScore(f) => Feed!ListJobs(f.rows, f.signals, f.filter, f.minScore, f.sort, o, l)
                                   = Feed!Page(Kept(f.rows, PassingOf(f)), o, l)
           /\ IsByScore(f) => Feed!ListJobs(f.rows, f.signals, f.filter, f.minScore, f.sort, o, l).items
                                   = Feed!Take(Feed!Rank(TopOf(f), f.signals), o, l)
           /\ Feed!ListSaved(f.rows, o, l) = Feed!Page(SavedList(f), o, l)
           /\ Feed!ListByCompanies(f.rows, f.companies, o, l) = Feed!Page(Kept(f.rows, OpenOf(f)), o, l)
  <1> DEFINE rows == f.rows
             asked == AskedOf(f)
             least == LeastOf(f)
  <1>1. Feed!KeptIf(rows, LAMBDA m : Feed!Where(m, asked)) = Kept(rows, PassingOf(f))
    BY FeedKept DEF Feed!KeptIf, PassingOf
  <1>2. Feed!KeptIf(rows, LAMBDA m : m.base # Unknown /\ m.base >= least /\ Feed!Where(m, asked))
            = Kept(rows, CountedOf(f))
    BY FeedKept DEF Feed!KeptIf, CountedOf
  <1>3. Feed!KeptIf(rows, LAMBDA m : m.job.saved # Unknown /\ ~m.job.deleted) = Kept(rows, SavedOf(f))
    BY FeedKept DEF Feed!KeptIf, SavedOf
  <1>4. Feed!KeptIf(rows, LAMBDA m : ~m.job.deleted /\ m.job.companyId \in f.companies)
            = Kept(rows, OpenOf(f))
    BY FeedKept DEF Feed!KeptIf, OpenOf
  <1>5. Feed!ListFiltered(rows, asked, o, l) = Feed!Page(Kept(rows, PassingOf(f)), o, l)
    BY <1>1, Zenon DEF Feed!ListFiltered
  <1>6. Feed!ListByScore(rows, asked, least, 0, CandidateLimit).items = TopOf(f)
    <2> DEFINE found == Kept(rows, CountedOf(f))
               sorted == Feed!SortDown(found, Feed!Base(found))
    <2>1. Feed!ListByScore(rows, asked, least, 0, CandidateLimit) = Feed!Page(sorted, 0, CandidateLimit)
      BY <1>2, Zenon DEF Feed!ListByScore
    <2> HIDE DEF sorted
    <2>2. Feed!Page(sorted, 0, CandidateLimit).items = Feed!Take(sorted, 0, CandidateLimit)
      BY DEF Feed!Page
    <2>3. TopOf(f) = Feed!Take(sorted, 0, CandidateLimit)
      BY DEF TopOf, sorted
    <2>4. QED
      BY <2>1, <2>2, <2>3, Zenon
  <1>7. Feed!ListSaved(rows, o, l) = Feed!Page(SavedList(f), o, l)
    BY <1>3, Zenon DEF Feed!ListSaved, SavedList
  <1>8. Feed!ListByCompanies(rows, f.companies, o, l) = Feed!Page(Kept(rows, OpenOf(f)), o, l)
    BY <1>4, Zenon DEF Feed!ListByCompanies
  <1>9. Feed!ListJobs(rows, f.signals, f.filter, f.minScore, f.sort, o, l)
            = IF IsByScore(f) THEN Feed!RankedJobs(rows, f.signals, asked, least, o, l)
              ELSE Feed!ListFiltered(rows, asked, o, l)
    BY DEF Feed!ListJobs, IsByScore, AskedOf, LeastOf
  <1>10. Feed!RankedJobs(rows, f.signals, asked, least, o, l).items
             = Feed!Take(Feed!Rank(TopOf(f), f.signals), o, l)
    <2> DEFINE found == Feed!ListByScore(rows, asked, least, 0, CandidateLimit)
               items == Feed!Take(Feed!Rank(found.items, f.signals), o, l)
    <2>1. Feed!RankedJobs(rows, f.signals, asked, least, o, l) = [items |-> items, total |-> found.total]
      BY DEF Feed!RankedJobs
    <2>2. items = Feed!Take(Feed!Rank(TopOf(f), f.signals), o, l)
      BY <1>6, Zenon
    <2> HIDE DEF items, found
    <2>3. QED
      BY <2>1, <2>2
  <1> HIDE DEF rows, asked, least
  <1>11. QED
    BY <1>5, <1>7, <1>8, <1>9, <1>10 DEF rows

\* What is picked of the rows, each once.
LEMMA PickedOf ==
    ASSUME NEW f \in FeedInput \union BrowseInput, NEW places \in SUBSET DOMAIN f.rows
    PROVE  /\ Whole(Kept(f.rows, places), {f.rows[x] : x \in places})
           /\ Len(Kept(f.rows, places)) <= Len(f.rows)
           /\ {f.rows[x] : x \in places} \subseteq ToSet(f.rows)
  <1> DEFINE rows == f.rows
             S == ToSet(rows)
  <1>1. Whole(rows, S)
    BY InputIsReadable DEF Readable
  <1>2. {rows[x] : x \in places} \subseteq S
    BY DEF ToSet
  <1>3. places \in SUBSET DOMAIN rows
    OBVIOUS
  <1> HIDE DEF S, rows
  <1>4. /\ Whole(Kept(rows, places), {rows[x] : x \in places})
        /\ Len(Kept(rows, places)) <= Len(rows)
    BY <1>1, <1>3, WholeKept
  <1>5. QED
    BY <1>2, <1>4 DEF rows, S

LEMMA SavedAre ==
    ASSUME NEW f \in BrowseInput
    PROVE  /\ Whole(SavedList(f), {f.rows[x] : x \in SavedOf(f)})
           /\ Len(SavedList(f)) <= Len(f.rows)
  <1> DEFINE found == Kept(f.rows, SavedOf(f))
             S == {f.rows[x] : x \in SavedOf(f)}
             v == [x \in S |-> x.job.saved]
             b == [x \in S |-> 0]
             key == [n \in DOMAIN found |-> found[n].job.saved]
  <1>1. Whole(found, S) /\ Len(found) <= Len(f.rows)
    <2>1. SavedOf(f) \in SUBSET DOMAIN f.rows
      BY DEF SavedOf
    <2>2. QED
      BY <2>1, PickedOf, Zenon
  <1>2. \A x \in S : x.job.saved \in Int
    <2>1. \A n \in DOMAIN f.rows : f.rows[n].job.saved \in Int \union {Unknown}
      BY FeedAssumption, Zenon DEF ToSet
    <2>2. QED
      BY <2>1 DEF SavedOf
  <1>3. SavedList(f) = Feed!SortDown(found, key)
    BY DEF SavedList
  <1> HIDE DEF found, S
  <1>4. DOMAIN found = 1 .. Len(found) /\ \A n \in 1 .. Len(found) : found[n] \in S
    BY <1>1, LenProperties, ElementOfSeq DEF Whole
  <1>5. \A x \in S : v[x] \in Int /\ b[x] \in Int
    BY <1>2
  <1>6. \A n \in 1 .. Len(found) : key[n] = v[found[n]]
    BY <1>4
  <1>7. \A n, k \in 1 .. Len(found) : n <= k => b[found[n]] >= b[found[k]]
    BY <1>4
  <1> HIDE DEF v, b, key
  <1>8. Whole(Feed!SortDown(found, key), S) /\ Len(Feed!SortDown(found, key)) = Len(found)
    BY <1>1, <1>5, <1>6, <1>7, WholeSorted
  <1>9. QED
    BY <1>1, <1>3, <1>8 DEF S

LEMMA TopsAre ==
    ASSUME NEW f \in BrowseInput
    PROVE  LET list == Feed!Rank(TopOf(f), f.signals)
           IN  /\ Whole(list, Leading(f.rows, CountedOf(f))) /\ Len(list) <= Len(f.rows)
               /\ BestFirst(f.signals, list)
  <1> DEFINE rows == f.rows
             s == f.signals
             counted == CountedOf(f)
             top == TopOf(f)
             S == Leading(rows, counted)
             R == ToSet(rows)
  <1>1. Readable(f) /\ CandidateLimit \in Nat
    BY InputIsReadable, FeedAssumption
  <1>2. counted \in SUBSET DOMAIN rows /\ \A n \in counted : rows[n].base \in Int
    <2>1. \A n \in DOMAIN rows : rows[n].base \in Int \union {Unknown}
      BY FeedAssumption, Zenon DEF ToSet
    <2>2. QED
      BY <2>1 DEF CountedOf
  <1>3. Whole(rows, R)
    BY <1>1 DEF Readable
  <1>4. top = Feed!Take(Feed!SortDown(Kept(rows, counted), Feed!Base(Kept(rows, counted))),
                        0, CandidateLimit)
    BY DEF TopOf
  <1>5. S \in SUBSET R
    <2> HIDE DEF rows, counted
    <2>1. QED
      BY <1>2, LeadingOf
  <1> HIDE DEF rows, R, counted, top, S
  <1>6. /\ Whole(top, S) /\ Len(top) <= Len(rows)
        /\ \A n \in 1 .. Len(top) : top[n].base \in Int
        /\ \A n, k \in 1 .. Len(top) : n <= k => top[n].base >= top[k].base
    BY <1>1, <1>2, <1>3, <1>4, LeadingAre DEF S
  <1>7. \A x \in S : Shown(s, x) \in Int /\ x.base \in Int
    <2> SUFFICES ASSUME NEW x \in S PROVE Shown(s, x) \in Int /\ x.base \in Int
      OBVIOUS
    <2>1. PICK n \in 1 .. Len(top) : top[n] = x
      BY <1>6, WholeIs DEF Whole
    <2>2. x.base \in Int
      BY <1>6, <2>1
    <2>3. IsFiniteSet(x.job.role) /\ IsFiniteSet(x.job.skills) /\ Learnable(s) /\ FiniteRoles(s)
      BY <1>1, <1>5 DEF Readable, R, rows
    <2>4. QED
      BY <2>2, <2>3, ShownIs
  <1>8. /\ Whole(Feed!Rank(top, s), S) /\ Len(Feed!Rank(top, s)) = Len(top)
        /\ BestFirst(s, Feed!Rank(top, s))
    <2>1. Whole(top, S) /\ \A n, k \in 1 .. Len(top) : n <= k => top[n].base >= top[k].base
      BY <1>6
    <2> HIDE DEF s
    <2>2. QED
      BY <1>7, <2>1, RankedAre
  <1>9. QED
    BY <1>6, <1>8 DEF top, S, rows, counted

\* As many jobs as the companies list.
OpenSum(open, I) == MapThenSumSet(LAMBDA id : open[id], I)

LEMMA OpenSumIs ==
    ASSUME NEW open, IsFiniteSet(DOMAIN open)
    PROVE  OpenSum(open, DOMAIN open) = Total(open, DOMAIN open)
  <1> DEFINE S == DOMAIN open
             Is(iter) == iter = [t \in SUBSET S |-> IF t = {} THEN 0
                                    ELSE open[First(t)] + iter[t \ {First(t)}]]
             g == CHOOSE iter : Is(iter)
  <1>1. OpenSum(open, S) = g[S]
    BY DEF OpenSum, MapThenSumSet, MapThenFoldSet, First
  <1>2. ASSUME NEW iter PROVE Is(iter) <=> SumsOf(open, S, iter)
    BY DEF SumsOf
  <1> HIDE DEF Is
  <1>3. Is(g)
    BY <1>2, SumStep
  <1> HIDE DEF g
  <1>4. QED
    BY <1>1, <1>2, <1>3, TotalIs

LEMMA OpenAre ==
    ASSUME NEW f \in BrowseInput
    PROVE  Len(Kept(f.rows, OpenOf(f)))
               = OpenSum(Feed!CountOpenByCompany(f.rows, f.companies), f.companies)
  <1> DEFINE rows == f.rows
             S == OpenOf(f)
             I == f.companies
             id == [n \in S |-> rows[n].job.companyId]
             open == Feed!CountOpenByCompany(rows, I)
             c == [k \in I |-> Cardinality({n \in S : id[n] = k})]
  <1>1. Readable(f) /\ IsFiniteSet(I)
    BY InputIsReadable, FeedAssumption
  <1>2. S \in SUBSET DOMAIN rows /\ rows \in Seq(ToSet(rows)) /\ \A n \in S : id[n] \in I
    BY <1>1 DEF Readable, Whole, OpenOf
  <1>3. IsFiniteSet(S)
    <2> DEFINE N == Len(rows)
    <2>1. N \in Nat /\ DOMAIN rows = 1 .. N
      BY <1>1 DEF Readable
    <2> HIDE DEF N
    <2>2. IsFiniteSet(1 .. N)
      BY <2>1, FS_Interval
    <2>3. S \subseteq 1 .. N
      BY <1>2, <2>1
    <2>4. QED
      BY <2>2, <2>3, FS_Subset, Zenon
  <1>4. open = c
    <2>1. open = [k \in I |-> Cardinality({n \in DOMAIN rows : ~rows[n].job.deleted
                                                               /\ rows[n].job.companyId = k})]
      BY FeedCardinality DEF Feed!CountOpenByCompany, Feed!Quantify
    <2>2. ASSUME NEW k \in I
          PROVE  {n \in DOMAIN rows : ~rows[n].job.deleted /\ rows[n].job.companyId = k}
                     = {n \in S : id[n] = k}
      BY DEF OpenOf
    <2>3. QED
      BY <2>1, <2>2, Zenon
  <1>5. DOMAIN c = I
    OBVIOUS
  <1>6. Len(Kept(rows, S)) = Cardinality(S)
    <2> DEFINE T == ToSet(rows)
    <2> HIDE DEF rows, S, T
    <2>1. rows \in Seq(T) /\ S \in SUBSET DOMAIN rows
      BY <1>2 DEF T
    <2>2. QED
      BY <2>1, PickedFacts
  <1> HIDE DEF rows, S, I, id, open
  <1>7. Cardinality(S) = Total(c, I)
    BY <1>1, <1>2, <1>3, Fibres
  <1> HIDE DEF c
  <1>8. OpenSum(c, I) = Total(c, I)
    BY <1>1, <1>5, OpenSumIs
  <1>9. QED
    BY <1>4, <1>6, <1>7, <1>8 DEF rows, S, I, open

\* The part of FeedIsWhole about the jobs page.
BrowseWhole(f, limit) ==
    LET answer == BrowseAnswer(f, limit)
        shown == Items(answer.pages)
    IN  /\ IsByScore(f) => /\ IsInjective(shown) /\ Descends(f.signals, shown)
                           /\ ToSet(shown) = Leading(f.rows, CountedOf(f))
        /\ ~IsByScore(f) => Shows(answer.pages, {f.rows[x] : x \in PassingOf(f)})
        /\ Shows(answer.saved, {f.rows[x] : x \in SavedOf(f)})
        /\ \A n \in DOMAIN answer.atCompanies :
               answer.atCompanies[n].total = OpenSum(answer.open, f.companies)

LEMMA BrowseIs ==
    ASSUME NEW f \in BrowseInput, NEW limit \in 1 .. Len(f.rows)
    PROVE  BrowseWhole(f, limit)
  <1> DEFINE answer == BrowseAnswer(f, limit)
             L == Len(f.rows)
             D == 1 .. L \div limit + 1
             Jobs(k) == Feed!ListJobs(f.rows, f.signals, f.filter, f.minScore, f.sort, (k - 1) * limit, limit)
             Saved(k) == Feed!ListSaved(f.rows, (k - 1) * limit, limit)
             At(k) == Feed!ListByCompanies(f.rows, f.companies, (k - 1) * limit, limit)
             pages == [k \in D |-> Jobs(k)]
             saved == [k \in D |-> Saved(k)]
             companies == [k \in D |-> At(k)]
             open == Feed!CountOpenByCompany(f.rows, f.companies)
  <1>1. answer = [pages |-> pages, saved |-> saved, atCompanies |-> companies, open |-> open]
    BY DEF BrowseAnswer, Pages
  <1>2. /\ DOMAIN pages = D /\ DOMAIN saved = D /\ DOMAIN companies = D
        /\ \A k \in D : pages[k] = Jobs(k) /\ saved[k] = Saved(k) /\ companies[k] = At(k)
    BY Zenon
  <1>3. L \in Nat /\ limit \in 1 .. L
    BY InputIsReadable DEF Readable
  <1> HIDE DEF answer, pages, saved, companies, open
  <1>4. answer.pages = pages /\ answer.saved = saved /\ answer.atCompanies = companies /\ answer.open = open
    BY <1>1
  <1>5. ASSUME IsByScore(f)
        PROVE  /\ IsInjective(Items(pages)) /\ Descends(f.signals, Items(pages))
               /\ ToSet(Items(pages)) = Leading(f.rows, CountedOf(f))
    <2> DEFINE list == Feed!Rank(TopOf(f), f.signals)
               S == Leading(f.rows, CountedOf(f))
    <2>1. Whole(list, S) /\ Len(list) <= L /\ BestFirst(f.signals, list)
      BY TopsAre
    <2>2. \A k : Jobs(k).items = Feed!Take(list, (k - 1) * limit, limit)
      BY <1>5, ListsAre
    <2> HIDE DEF list, S, Jobs
    <2>3. \A k \in D : pages[k].items = Feed!Take(list, (k - 1) * limit, limit)
      BY <1>2, <2>2, Zenon
    <2>4. list \in Seq(S)
      BY <2>1 DEF Whole
    <2> HIDE DEF L
    <2>5. Items(pages) = list
      BY <1>2, <1>3, <2>1, <2>3, <2>4, PagesAre DEF D
    <2>6. Descends(f.signals, list)
      BY <2>1, WholeSize, BestDescends
    <2>7. QED
      BY <2>1, <2>5, <2>6 DEF Whole, S
  <1>6. ASSUME ~IsByScore(f)
        PROVE  Shows(pages, {f.rows[x] : x \in PassingOf(f)})
    <2> DEFINE list == Kept(f.rows, PassingOf(f))
               S == {f.rows[x] : x \in PassingOf(f)}
    <2>1. Whole(list, S) /\ Len(list) <= L
      <3>1. PassingOf(f) \in SUBSET DOMAIN f.rows
        BY DEF PassingOf
      <3>2. QED
        BY <3>1, PickedOf, Zenon
    <2>2. \A k : Jobs(k) = [items |-> Feed!Take(list, (k - 1) * limit, limit), total |-> Len(list)]
      BY <1>6, ListsAre, PageOf, Zenon
    <2> HIDE DEF list, S, Jobs
    <2>3. \A k \in D : pages[k] = [items |-> Feed!Take(list, (k - 1) * limit, limit), total |-> Len(list)]
      BY <1>2, <2>2, Zenon
    <2> HIDE DEF L
    <2>4. Paged(pages, list, L, limit)
      BY <1>2, <2>3, PagedIs, Zenon DEF D
    <2>5. Shows(pages, S)
      BY <1>3, <2>1, <2>4, PagesShow
    <2>6. QED
      BY <2>5 DEF S
  <1>7. Shows(saved, {f.rows[x] : x \in SavedOf(f)})
    <2> DEFINE list == SavedList(f)
               S == {f.rows[x] : x \in SavedOf(f)}
    <2>1. Whole(list, S) /\ Len(list) <= L
      BY SavedAre
    <2>2. \A k : Saved(k) = [items |-> Feed!Take(list, (k - 1) * limit, limit), total |-> Len(list)]
      BY ListsAre, PageOf, Zenon
    <2> HIDE DEF list, S, Saved
    <2>3. \A k \in D : saved[k] = [items |-> Feed!Take(list, (k - 1) * limit, limit), total |-> Len(list)]
      BY <1>2, <2>2
    <2> HIDE DEF L
    <2>4. Paged(saved, list, L, limit)
      BY <1>2, <2>3, PagedIs, Zenon DEF D
    <2>5. Shows(saved, S)
      BY <1>3, <2>1, <2>4, PagesShow
    <2>6. QED
      BY <2>5 DEF S
  <1>8. \A n \in DOMAIN companies : companies[n].total = OpenSum(open, f.companies)
    <2> DEFINE list == Kept(f.rows, OpenOf(f))
    <2>1. Len(list) = OpenSum(open, f.companies)
      BY OpenAre DEF open
    <2>2. \A k : At(k) = [items |-> Feed!Take(list, (k - 1) * limit, limit), total |-> Len(list)]
      BY ListsAre, PageOf, Zenon
    <2> HIDE DEF list, At
    <2>3. \A k \in D : companies[k] = [items |-> Feed!Take(list, (k - 1) * limit, limit), total |-> Len(list)]
      BY <1>2, <2>2
    <2> HIDE DEF L
    <2>4. Paged(companies, list, L, limit)
      BY <1>2, <2>3, PagedIs, Zenon DEF D
    <2> HIDE DEF D
    <2>5. \A k \in D : companies[k].total = Len(list)
      BY <2>4 DEF Paged, D
    <2>6. QED
      BY <1>2, <2>1, <2>5
  <1>9. QED
    <2> HIDE DEF L, D, Jobs, Saved, At
    <2>1. BrowseWhole(f, limit)
              <=> /\ IsByScore(f) => /\ IsInjective(Items(answer.pages))
                                     /\ Descends(f.signals, Items(answer.pages))
                                     /\ ToSet(Items(answer.pages)) = Leading(f.rows, CountedOf(f))
                  /\ ~IsByScore(f) => Shows(answer.pages, {f.rows[x] : x \in PassingOf(f)})
                  /\ Shows(answer.saved, {f.rows[x] : x \in SavedOf(f)})
                  /\ \A n \in DOMAIN answer.atCompanies :
                         answer.atCompanies[n].total = OpenSum(answer.open, f.companies)
      BY DEF BrowseWhole, answer
    <2>2. QED
      BY <1>4, <1>5, <1>6, <1>7, <1>8, <2>1

-------------------------------------------------------------------------------
(* The lists and the digest are whole *)

\* The answer is about the input, in pages of some size.
Listed ==
    /\ part = "feed" => /\ input \in FeedInput
                        /\ output # Unknown => \E limit \in 1 .. Len(input.rows) :
                                                   output = FeedAnswer(input, limit)
    /\ part = "browse" => /\ input \in BrowseInput
                          /\ output # Unknown => \E limit \in 1 .. Len(input.rows) :
                                                     output = BrowseAnswer(input, limit)

LEMMA ListedKeeps ==
    ASSUME Listed, [ServicesNext]_servicesVars
    PROVE  Listed'
  <1>1. ASSUME part' = part, input' = input, output' = output
        PROVE  Listed'
    BY <1>1 DEF Listed
  <1>2. CASE \/ UNCHANGED servicesVars \/ DetectDuplicate \/ Throttle \/ CountRequests
    BY <1>1, <1>2 DEF servicesVars, callVars, DetectDuplicate, Throttle, CountRequests
  <1>3. CASE \/ ScoreJob \/ FetchSource \/ FilterJob \/ CompareSkills \/ BuildReport
             \/ NormalizeTexts \/ AskModel
    <2>1. part' = part /\ part \notin {"feed", "browse"}
      BY <1>3 DEF ScoreJob, FetchSource, FilterJob, CompareSkills, BuildReport, NormalizeTexts,
                  AskModel, Answers
    <2>2. QED
      BY <2>1 DEF Listed
  <1>4. CASE RankFeed
    <2>1. /\ part = "feed" /\ part' = part /\ input' = input
          /\ \E limit \in 1 .. Len(input.rows) : output' = FeedAnswer(input, limit)
      BY <1>4, Zenon DEF RankFeed, Answers, FeedAnswer
    <2>2. QED
      BY <2>1 DEF Listed
  <1>5. CASE BrowseJobs
    <2>1. /\ part = "browse" /\ part' = part /\ input' = input
          /\ \E limit \in 1 .. Len(input.rows) : output' = BrowseAnswer(input, limit)
      BY <1>5, Zenon DEF BrowseJobs, Answers, BrowseAnswer
    <2>2. QED
      BY <2>1 DEF Listed
  <1>6. QED
    BY <1>2, <1>3, <1>4, <1>5 DEF ServicesNext

\* The foremost are the leading.
LEMMA ForemostOfFeed ==
    ASSUME NEW f
    PROVE  {m \in Foremost(f.rows, LAMBDA m : m.base >= f.minScore /\ m.feedback # "NOT_RELEVANT"
                                              /\ ~m.applied) : ~Feed!Excluded(m, f.signals)}
               = EligibleOf(f)
  BY DEF Foremost, Quantify, Leading, Earlier, EligibleOf, CandidatesOf

LEMMA ForemostOfBrowse ==
    ASSUME NEW f
    PROVE  Foremost(f.rows, LAMBDA m : m.base # Unknown /\ m.base >= LeastOf(f)
                                       /\ Feed!Where(m, AskedOf(f)))
               = Leading(f.rows, CountedOf(f))
  BY DEF Foremost, Quantify, Leading, Earlier, CountedOf

\* Whatever the page size, however many rows, filters and signals there are: the
\* recommendations show each candidate that is not applied to, dismissed or hidden
\* once, the best first, the digest the first of them once each, the better band
\* first; the jobs page shows the foremost, or all, that pass the filter, the saved
\* jobs are all there, and the companies have as many jobs as they list
\* (ranking_service.py:318-374, daily_digest_service.py:104-253, jobs.py:54-101,
\* job_repository.py:23-197).
THEOREM FeedIsWholeAlways == ServicesSpec => []FeedIsWhole
  <1>1. ServicesInit => Listed
    BY DEF ServicesInit, InputOf, Listed
  <1>2. Listed /\ [ServicesNext]_servicesVars => Listed'
    BY ListedKeeps
  <1>3. ASSUME Listed, Answered("feed")
        PROVE  LET eligible == {m \in Foremost(input.rows, LAMBDA m :
                                      m.base >= input.minScore /\ m.feedback # "NOT_RELEVANT"
                                      /\ ~m.applied) : ~Feed!Excluded(m, input.signals)}
                   feed == Items(output.pages)
                   first == [n \in 1 .. Min({output.mentions, Len(feed)}) |-> feed[n].job]
                   mail == IF output.digest = Unknown THEN << >> ELSE FlattenSeq(output.digest)
                   Spot(item) == Min({n \in DOMAIN first : first[n] = item.job})
               IN  /\ Shows(output.pages, eligible) /\ InOrder(feed)
                   /\ Len(mail) = Len(first) /\ {item.job : item \in ToSet(mail)} = ToSet(first)
                   /\ \A n \in 2 .. Len(mail) :
                          \/ mail[n - 1].score > mail[n].score /\ mail[n - 1].band # mail[n].band
                          \/ mail[n - 1].band = mail[n].band /\ Spot(mail[n - 1]) <= Spot(mail[n])
    <2> DEFINE f == input
    <2>1. PICK limit \in 1 .. Len(f.rows) : f \in FeedInput /\ output = FeedAnswer(f, limit)
      BY <1>3 DEF Listed, Answered
    <2> DEFINE pages == output.pages
               feed == Items(pages)
               first == [n \in 1 .. Min({output.mentions, Len(feed)}) |-> feed[n].job]
               mail == IF output.digest = Unknown THEN << >> ELSE FlattenSeq(output.digest)
    <2>2. output.mentions = limit
      BY <2>1, Zenon DEF FeedAnswer
    <2>3. /\ Shows(pages, EligibleOf(f)) /\ Descends(f.signals, feed) /\ MailWhole(mail, first)
      <3>1. FeedWhole(f, limit)
        BY <2>1, FeedIs
      <3>2. pages = FeedAnswer(f, limit).pages /\ mail = MailOf(f, limit)
        BY <2>1 DEF MailOf
      <3> HIDE DEF f, pages, mail
      <3>3. QED
        BY <2>2, <3>1, <3>2 DEF FeedWhole
    <2>4. InOrder(feed)
      <3> HIDE DEF feed
      <3>1. QED
        BY <2>3 DEF InOrder, Descends, Shown
    <2>5. /\ Len(mail) = Len(first) /\ {item.job : item \in ToSet(mail)} = ToSet(first)
          /\ \A n \in 2 .. Len(mail) :
                 \/ mail[n - 1].score > mail[n].score /\ mail[n - 1].band # mail[n].band
                 \/ /\ mail[n - 1].band = mail[n].band
                    /\ PlaceOn(first, mail[n - 1]) <= PlaceOn(first, mail[n])
      BY <2>3, Zenon DEF MailWhole, MailInOrder
    <2>6. Shows(pages, {m \in Foremost(f.rows, LAMBDA m :
                                   m.base >= f.minScore /\ m.feedback # "NOT_RELEVANT"
                                   /\ ~m.applied) : ~Feed!Excluded(m, f.signals)})
      BY <2>3, ForemostOfFeed, Zenon
    <2> HIDE DEF mail, first, feed, pages
    <2>7. QED
      BY <2>4, <2>5, <2>6, Zenon DEF PlaceOn, mail, first, feed, pages
  <1>4. ASSUME Listed, Answered("browse")
        PROVE  LET least == IF input.minScore = Unknown THEN 0 ELSE input.minScore
                   ByScore == input.sort = "score" \/ input.minScore # Unknown
                   Passes(m) == Feed!Where(m, [input.filter EXCEPT !.skills = Feed!Take(@, 0, Feed!MaxTerms)])
                   foremost == Foremost(input.rows, LAMBDA m :
                                   m.base # Unknown /\ m.base >= least /\ Passes(m))
               IN  /\ IF ByScore THEN /\ IsInjective(Items(output.pages)) /\ InOrder(Items(output.pages))
                                      /\ ToSet(Items(output.pages)) = foremost
                      ELSE Shows(output.pages, {m \in ToSet(input.rows) : Passes(m)})
                   /\ Shows(output.saved, {m \in ToSet(input.rows) : m.job.saved # Unknown
                                                                     /\ ~m.job.deleted})
                   /\ \A n \in DOMAIN output.atCompanies :
                          output.atCompanies[n].total
                              = MapThenSumSet(LAMBDA id : output.open[id], input.companies)
    <2> DEFINE f == input
               shown == Items(output.pages)
    <2>1. PICK limit \in 1 .. Len(f.rows) : f \in BrowseInput /\ output = BrowseAnswer(f, limit)
      BY <1>4 DEF Listed, Answered
    <2>2. /\ IsByScore(f) => /\ IsInjective(shown) /\ Descends(f.signals, shown)
                             /\ ToSet(shown) = Leading(f.rows, CountedOf(f))
          /\ ~IsByScore(f) => Shows(output.pages, {f.rows[x] : x \in PassingOf(f)})
          /\ Shows(output.saved, {f.rows[x] : x \in SavedOf(f)})
          /\ \A n \in DOMAIN output.atCompanies :
                 output.atCompanies[n].total = OpenSum(output.open, f.companies)
      <3>1. BrowseWhole(f, limit)
        BY <2>1, BrowseIs
      <3>2. QED
        BY <2>1, <3>1, Zenon DEF BrowseWhole
    <2>3. Descends(f.signals, shown) => InOrder(shown)
      <3> HIDE DEF shown
      <3>1. QED
        BY DEF InOrder, Descends, Shown
    <2>4. ASSUME IsByScore(f)
          PROVE  /\ IsInjective(shown) /\ InOrder(shown)
                 /\ ToSet(shown) = Foremost(f.rows, LAMBDA m : m.base # Unknown /\ m.base >= LeastOf(f)
                                                            /\ Feed!Where(m, AskedOf(f)))
      BY <2>2, <2>3, <2>4, ForemostOfBrowse, Zenon
    <2>5. /\ {f.rows[x] : x \in PassingOf(f)} = {m \in ToSet(f.rows) : Feed!Where(m, AskedOf(f))}
          /\ {f.rows[x] : x \in SavedOf(f)}
                 = {m \in ToSet(f.rows) : m.job.saved # Unknown /\ ~m.job.deleted}
      BY DEF PassingOf, SavedOf, ToSet
    <2>6. ASSUME ~IsByScore(f)
          PROVE  Shows(output.pages, {m \in ToSet(f.rows) : Feed!Where(m, AskedOf(f))})
      BY <2>2, <2>5, <2>6, Zenon
    <2>7. Shows(output.saved, {m \in ToSet(f.rows) : m.job.saved # Unknown /\ ~m.job.deleted})
      BY <2>2, <2>5, Zenon
    <2> HIDE DEF shown
    <2>8. QED
      BY <2>2, <2>4, <2>6, <2>7, Zenon DEF IsByScore, AskedOf, LeastOf, OpenSum, shown
  <1>5. Listed => FeedIsWhole
    BY <1>3, <1>4, Zenon DEF FeedIsWhole
  <1>6. QED
    BY <1>1, <1>2, <1>5, PTL DEF ServicesSpec
===============================================================================
