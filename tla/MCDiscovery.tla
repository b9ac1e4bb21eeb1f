------------------------------ MODULE MCDiscovery ------------------------------
(*****************************************************************************)
(* Two searches over two sources whose postings share an id, a content hash  *)
(* or a URL.  One of the postings has a source without a JobSource row.      *)
(*****************************************************************************)
EXTENDS Discovery

Posting(s, x, h, u) ==
    [source |-> s, externalId |-> x, contentHash |-> h, canonicalUrl |-> u,
     company |-> "acme", metadata |-> NoValue]

first     == Posting("careers", "1", "engineer", "/a")
elsewhere == Posting("remoteok", "9", "engineer", "/c")
orphan    == Posting("retired", "3", "lost", "/a")

MCOffer == {first, elsewhere, orphan}
MCRegistered == <<"careers", "remoteok", "retired">>
MCRequest == {NoValue, <<"remoteok", "careers">>, <<"careers", "linkedin">>}
MCEnabled == {{"careers", "remoteok"}, {"careers", "retired"}, {}}
MCFetch == [s \in {"careers", "remoteok", "retired"} |->
              CASE s = "careers"  -> {<<first>>}
                [] s = "remoteok" -> {<<elsewhere>>}
                [] s = "retired"  -> {<<orphan>>}]

MCSimilarity(c, e) == [s \in {"title", "description", "location", "postedDate"} |-> 0]
MCWeight == [title |-> 45, description |-> 30, location |-> 15, postedDate |-> 10]
===============================================================================
