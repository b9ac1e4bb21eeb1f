---------------------------- MODULE MCDeduplication ----------------------------
(*****************************************************************************)
(* Two runs and six postings of one company that collide in every way the   *)
(* pipeline distinguishes.                                                   *)
(*****************************************************************************)
EXTENDS Deduplication

Posting(s, x, h, u, m) ==
    [source |-> s, externalId |-> x, contentHash |-> h, canonicalUrl |-> u,
     company |-> "acme", metadata |-> m]

first     == Posting("careers", "1", "engineer", "/a", "seed")
reposted  == Posting("careers", "1", "engineer2", "/b", NoValue) \* edited: same id
elsewhere == Posting("remoteok", "9", "engineer", "/c", NoValue) \* same content
idless    == Posting("remoteok", NoValue, "other", "/a", NoValue) \* same URL, no id
similar   == Posting("careers", "2", "near", NoValue, "series_a") \* only alike
orphan    == Posting("retired", "3", "lost", "/d", NoValue) \* source has no row

MCOffer == {first, reposted, elsewhere, idless, similar, orphan}
MCBatches == {<<first, reposted>>, <<first, elsewhere>>, <<elsewhere, idless>>,
              <<idless, first>>, <<similar, first>>, <<reposted, similar>>,
              <<orphan, idless>>, <<idless, idless>>}

\* "near" is 70% like any other posting, "engineer2" 90% like "engineer".
Likeness(c, e) ==
    IF c = e THEN 100
    ELSE IF {c, e} = {"engineer", "engineer2"} THEN 90
    ELSE IF "near" \in {c, e} THEN 70
    ELSE 10

Likenesses ==
    [c \in ContentHash |-> [e \in ContentHash |->
        [title |-> Likeness(c, e), description |-> Likeness(c, e),
         location |-> Likeness(c, e), postedDate |-> Likeness(c, e)]]]

MCSimilarity(c, e) == Likenesses[c.contentHash][e.contentHash]

MCWeight == [title |-> 45, description |-> 30, location |-> 15, postedDate |-> 10]
===============================================================================
