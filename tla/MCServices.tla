------------------------------- MODULE MCServices -------------------------------
(*****************************************************************************)
(* Inputs on either side of every threshold of the algorithms.               *)
(*****************************************************************************)
EXTENDS Services

-------------------------------------------------------------------------------
(* Duplicate detection: a posting is a point per signal and likeness is        *)
(* closeness; the distances give the similarities 100, 90, 60, 50 and 40.      *)

MCPosting ==
    [title : {0, 50, 60}, description : {Unknown, 0, 40},
     location : {Unknown, 0}, postedDate : {0}]

Closeness(a, b) ==
    IF a = Unknown \/ b = Unknown THEN Unknown
    ELSE IF a > b THEN 100 - (a - b) ELSE 100 - (b - a)

MCSimilarity(c, e) == [s \in Signal |-> Closeness(c[s], e[s])]
MCWeight == [title |-> 45, description |-> 30, location |-> 15, postedDate |-> 10]

-------------------------------------------------------------------------------
(* Texts *)

MCWithin(a, b) ==
    a = b \/ <<a, b>> \in {<<"acme", "acme labs">>, <<"engineer", "backend engineer">>,
                           <<"q sql", "resume">>, <<"pune", "pune india">>}

MCLikeness(a, b) ==
    IF a = b THEN 100 ELSE IF {a, b} = {"engineer", "backend engineer"} THEN 60 ELSE 20

MCSkillKey(skill) == CASE skill = "golang" -> "go" [] skill = "postgresql" -> "postgres"
                  [] skill = "--" -> "" [] OTHER -> skill
MCSkill == {"go", "golang", "postgres", "postgresql", "rust", "--"}
MCCatalog == <<"go", "postgresql", "rust">>

MCTokens(text) ==
    CASE text = "resume" -> <<"built", "services", "golang", "acme", "postgres">>
      [] text = "q seven of ten" -> <<"built", "services", "golang", "acme", "postgres", "postgres",
                                      "acme", "rust", "rust", "rust">>
      [] text = "q invented" -> <<"led", "teams">>
      [] text = "acme engineer" -> <<"acme", "engineer">>
      [] text = "acme" -> <<"acme">>
      [] OTHER -> << >>

-------------------------------------------------------------------------------
(* The feed *)

Backend == [role |-> {"backend", "engineer"}, company |-> {"acme"}, location |-> {},
            mode |-> {}, skills |-> {"go", "sql"}]
Senior  == [role |-> {"senior", "backend", "engineer"}, company |-> {"acme"},
            location |-> {"pune", "india"}, mode |-> {"remote"}, skills |-> {"go"}]
Data    == [role |-> {"data"}, company |-> {"bolt"}, location |-> {"pune"},
            mode |-> {"remote"}, skills |-> {"sql"}]
Bare    == [role |-> {}, company |-> {}, location |-> {}, mode |-> {}, skills |-> {}]

\* What the lists and the digest show of a job.
Shown(id, posting) ==
    [id |-> id, deleted |-> FALSE, low |-> Unknown, high |-> 50, dated |-> TRUE, text |-> {"go", "rust"},
     listings |-> <<[primary |-> FALSE, source |-> "careers", url |-> "u1"],
                    [primary |-> TRUE, source |-> "remoteok", url |-> Unknown]>>,
     url |-> "u0", saved |-> Unknown] @@ posting

Here   == [source |-> "careers", companyId |-> "id1", remote |-> FALSE, years |-> 3, high |-> Unknown]
Remote == [source |-> "remoteok", companyId |-> "id2", remote |-> TRUE, years |-> Unknown]

MatchOf(id, job, base, age, watch, standing, feedback, applied) ==
    [job |-> Shown(id, Remote) @@ job, base |-> base * 60, age |-> age, watch |-> watch,
     standing |-> standing, feedback |-> feedback, applied |-> applied]

MatchPool == {MatchOf(1, Backend, 60, 1, Unknown, 50, "NONE", FALSE),
              MatchOf(2, Senior, 60, Unknown, 90, 100, "NEGATIVE", FALSE),
              MatchOf(3, Data, 95, 10, Unknown, 50, "POSITIVE", FALSE),
              MatchOf(4, Data, 62, Unknown, Unknown, 0, "NOT_RELEVANT", FALSE),
              MatchOf(5, Senior, 61, 3, 75, 50, "INTERESTED", TRUE),
              MatchOf(6, Bare, 30, 5, 0, 50, "NONE", FALSE)}

SignalPool == {[kind |-> "LIKE", weight |-> 10, job |-> Backend],
               [kind |-> "LIKE", weight |-> 7, job |-> Senior],
               [kind |-> "APPLY", weight |-> 30, job |-> Senior],
               [kind |-> "APPLY", weight |-> 30, job |-> Data],
               [kind |-> "DISLIKE", weight |-> -10, job |-> Backend],
               [kind |-> "NOT_RELEVANT", weight |-> -20, job |-> Senior],
               [kind |-> "HIDE_COMPANY", weight |-> 0, job |-> Data],
               [kind |-> "HIDE_ROLE", weight |-> 0, job |-> Backend]}

InOrderOfId(rows) == \A n \in 2 .. Len(rows) : rows[n - 1].job.id < rows[n].job.id

Rows == {rows \in [1 .. 3 -> MatchPool] : InOrderOfId(rows)}

\* More roles than are kept: a like of the first takes it out of those kept, and a
\* similar one stands in for it.
ManyRoles == <<[kind |-> "DISLIKE", weight |-> -10, job |-> Backend],
               [kind |-> "NOT_RELEVANT", weight |-> -20, job |-> Senior],
               [kind |-> "DISLIKE", weight |-> -10, job |-> Senior],
               [kind |-> "LIKE", weight |-> 10, job |-> Data]>>

MCFeedInput ==
    [rows : Rows, signals : {ManyRoles} \union UNION {[1 .. n -> SignalPool] : n \in 0 .. 2},
     minScore : {40 * 60}]

\* Jobs that pass some filters, and one that is deleted.
Listed(id, job, base, posting) ==
    [MatchOf(id, job, 0, 5, Unknown, 50, "NONE", FALSE) EXCEPT
        !.base = IF base = Unknown THEN Unknown ELSE base * 60, !.job = Shown(id, posting) @@ job]

Listings == {Listed(1, Backend, 70, Here), Listed(2, Senior, 86, Remote), Listed(3, Data, Unknown, Remote),
             Listed(4, Data, 72, [deleted |-> TRUE, saved |-> 1] @@ Remote),
             Listed(5, Senior, 71, [text |-> {"go"}, dated |-> FALSE, saved |-> 2] @@ Here),
             Listed(6, Bare, 71, [saved |-> 3] @@ Remote)}

Asks(source, place, remote, company, pay, years, days, skills) ==
    [source |-> source, place |-> place, remote |-> remote, company |-> company, pay |-> pay,
     years |-> years, days |-> days, skills |-> skills]

MCBrowseInput ==
    [rows : {rows \in [1 .. 4 -> Listings] : InOrderOfId(rows) \/ InOrderOfId(Reverse(rows))},
     signals : {<< >>, <<[kind |-> "LIKE", weight |-> 30, job |-> Senior],
                         [kind |-> "HIDE_ROLE", weight |-> 0, job |-> Data]>>},
     filter : {Asks(Unknown, Unknown, Unknown, Unknown, Unknown, Unknown, Unknown, << >>),
               Asks("careers", {"pune"}, FALSE, {"acme"}, Unknown, 3, Unknown, << >>),
               Asks(Unknown, Unknown, TRUE, Unknown, 40, Unknown, 7, <<"go", "rust">>),
               Asks(Unknown, Unknown, Unknown, Unknown, Unknown, Unknown, Unknown,
                    [n \in 1 .. 11 |-> IF n = 11 THEN "rust" ELSE "go"])},
     minScore : {Unknown, 71 * 60}, sort : {"recent", "score"}, companies : {{"id1", "id2"}}]

-------------------------------------------------------------------------------
(* The rule scores *)

Profiles ==
    {[roles |-> r, skills |-> s, years |-> pay[3], mode |-> m, places |-> {"pune"},
      salary |-> pay[1], floor |-> pay[2], currency |-> "USD", industries |-> {"fintech"},
      avoided |-> {"bolt"}, favoured |-> {"acme"}] :
        r \in {{}, {"engineer"}}, s \in {{}, {"go"}, {"go", "sql", "a", "b", "c", "d", "e", "f"}},
        m \in {"ANY", "ONSITE"},
        pay \in {<<Unknown, Unknown, 3>>, <<80, 50, 3>>, <<80, Unknown, Unknown>>}}

Analysis(required, preferred) ==
    [title |-> "backend engineer", required |-> required, preferred |-> preferred,
     mode |-> "REMOTE", industry |-> "fintech", years |-> [min |-> 5, max |-> Unknown],
     pay |-> 40, currency |-> "USD"]

ScoredJobs ==
    {[title |-> t, company |-> "acme", companyId |-> "id1", place |-> where[1],
      remote |-> where[2], hybrid |-> FALSE, years |-> [min |-> Unknown, max |-> 2],
      pay |-> pay, currency |-> Unknown, named |-> {"go"}, described |-> d, analysis |-> a] :
        t \in {"backend engineer", "clerk"}, where \in {<<"pune india", FALSE>>, <<Unknown, TRUE>>},
        pay \in {Unknown, 45, 90}, d \in {Unknown, {}, {"go", "sql", "a"}},
        a \in {Unknown, Analysis({}, {}), Analysis({"go"}, {"go", "sql"}), Analysis({}, {"sql"})}}

Entry(id, priority, preferred, excluded) ==
    [id |-> id, name |-> "acme", priority |-> priority, preferred |-> preferred,
     excluded |-> excluded]

MCScoreInput ==
    [profile : Profiles, job : ScoredJobs,
     watchlist : {<< >>, <<Entry("id2", "LOW", {}, {}), Entry("id1", "MEDIUM", {"engineer"}, {})>>,
                  <<Entry("id2", "LOW", {"clerk"}, {"engineer"})>>}]

-------------------------------------------------------------------------------
(* Sources *)

Found(words, place, age, mode) ==
    [words |-> words, tags |-> {"go"}, company |-> "acme", mode |-> mode,
     years |-> [min |-> Unknown, max |-> Unknown], pay |-> Unknown, currency |-> Unknown,
     place |-> place, age |-> age, hasId |-> words # Unknown]

Ok(body) == [status |-> "ok", body |-> body]
Fails(status) == [status |-> status, body |-> Unknown]

T1 == {Ok(<<Found({"go"}, Unknown, 9, "none"), Found(Unknown, "pune india", 1, "none")>>),
       Fails("timeout"), Fails("forbidden"), Ok(Unknown)}
T2 == {Ok(<<Found({"go"}, "pune india", Unknown, "hybrid"), Found({"java"}, "pune india", 1, "remote")>>),
       Fails("busy")}

Query(words, remote, companies, days, limit) ==
    [words |-> words, roles |-> {}, remote |-> remote, companies |-> companies,
     years |-> [min |-> Unknown, max |-> Unknown], pay |-> Unknown, currency |-> Unknown,
     days |-> days, places |-> {}, limit |-> limit]

Watched(company, token) ==
    [company |-> company,
     url |-> [host |-> "jobs.lever.co", token |-> token, embed |-> FALSE, for |-> Unknown]]

MCFetchInput ==
    [configured : {<<[company |-> "acme", provider |-> "greenhouse", token |-> "t1"]>>,
                   <<[company |-> "acme", provider |-> "lever", token |-> "t2"],
                     [company |-> "acme", provider |-> "other", token |-> "t1"]>>},
     watched : {<< >>, <<Watched("acme labs", "t2")>>},
     answers : [1 .. 2 -> [t1 : T1, t2 : T2]],
     query : {Query(w, r, c, d, l) : w \in {{}, {"go"}}, r \in {Unknown, "yes", "no"},
                  c \in {{}, {"acme"}}, d \in {Unknown, 7}, l \in {Unknown, 1}}]

MCFilterInput ==
    [job : [words : {{"go"}}, tags : {{}}, company : {"acme labs"}, provider : {"lever"},
            mode : {"none", "hybrid", "remote"}, years : [min : {Unknown, 2, 4}, max : {Unknown}],
            pay : {Unknown, 40, 90}, currency : {Unknown, "USD", "INR"}, place : {Unknown, "pune india", "delhi"},
            age : {Unknown, 1, 9}],
     query : [words : {{"go"}}, roles : {{}}, remote : {Unknown, "yes"}, companies : {{"acme"}},
              years : [min : {Unknown}, max : {Unknown, 3}], pay : {Unknown, 60},
              currency : {Unknown, "USD"}, days : {Unknown, 7}, places : {{}, {"pune"}},
              limit : {Unknown}]]

-------------------------------------------------------------------------------
(* Skill gaps *)

Extraction(skills, projects) ==
    [skills |-> skills, technologies |-> << >>, projects |-> projects]

Wants(required, preferred) ==
    [required |-> required, preferred |-> preferred, stack |-> << >>]

Analyses == {Unknown, Wants(<< >>, << >>), Wants(<<"golang", "rust">>, <<"go", "postgres", "--">>)}

MCGapInput ==
    [version : {Unknown} \union
         [extraction : {Unknown, Extraction(<<"golang">>, <<<<"rust">>, << >>>>),
                        Extraction(<< >>, << >>)},
          text : {{}, {"postgresql"}}],
     profile : {<< >>, <<"rust">>},
     job : [analysis : Analyses, current : BOOLEAN, text : {{"go", "rust"}, {}}],
     found : Analyses,
     ai : [experience : {<<"acme engineer", Unknown>>},
           suggestions : {<<[says |-> "say it", quote |-> q]>> :
                              q \in {Unknown, "q sql", "q seven of ten", "q invented"}},
           areas : {<<"tests">>}],
     roles : {{}, {Unknown}, {"acme"}},
     facts : {"resume"}]

-------------------------------------------------------------------------------
(* Reports: days of two hours, the user a day and a half around UTC *)

MCFamily == <<"data", "backend">>
MCSources == {"remoteok", "careers"}

Tracked(created, deleted) ==
    [created |-> created, deleted |-> deleted, dated |-> TRUE, applied |-> {created},
     interviews |-> {created + 1}, offer |-> TRUE,
     status |-> IF created = 5 THEN "REJECTED" ELSE "OFFER"]

ReportJobs ==
    {[created |-> t, deleted |-> d, analysed |-> a, score |-> s, title |-> kind[1],
      company |-> kind[2], companyId |-> kind[3], sources |-> kind[4], tracked |-> k] :
        t \in 0 .. 7, d \in {FALSE}, a \in BOOLEAN, s \in {Unknown, 40, 80},
        kind \in {<<{"data", "backend"}, 1, "id1", MCSources>>, <<{}, 2, Unknown, {"careers"}>>},
        k \in {Unknown, Tracked(5, FALSE), Tracked(5, TRUE)}}
    \union {[created |-> 6, deleted |-> TRUE, analysed |-> TRUE, score |-> 80, title |-> {"data"},
             company |-> 3, companyId |-> Unknown, sources |-> {"careers"},
             tracked |-> Tracked(6, FALSE)]}

\* One company twice, resolved and not, and as engaged in both: the limit cuts
\* between the two.
EvenCompanies ==
    {[created |-> 6, deleted |-> FALSE, analysed |-> TRUE, score |-> 80, title |-> {"data"},
      company |-> 1, companyId |-> id, sources |-> {"careers"},
      tracked |-> [Tracked(6, FALSE) EXCEPT !.status = "ASSESSMENT"]] : id \in {Unknown, "id1"}}

MCReportInput ==
    [jobs : {{j} : j \in ReportJobs} \union
            {{j, k} : j \in {r \in ReportJobs : r.analysed /\ r.score # 40},
                      k \in {r \in ReportJobs : ~r.analysed /\ r.tracked = Unknown /\ r.score # 40}},
     now : {7}, range : {2, 3}, ahead : {-1, 0, 1}]
    \union [jobs : {EvenCompanies}, now : {7}, range : {2}, ahead : {0}]

-------------------------------------------------------------------------------
(* Texts and their keys *)

MCCasefold(token) ==
    CASE token = "Acme" -> "acme" [] token = "Pvt" -> "pvt" [] token = "Ltd." -> "ltd."
      [] token = "Node.js" -> "node.js" [] token = "C++" -> "c++" [] token = "Golang" -> "golang"
      [] token = "HTTPS" -> "https" [] token = "JOBS.IO" -> "jobs.io" [] token = "Ref" -> "ref"
      [] OTHER -> token

MCSplit(token) ==
    CASE token = "ltd." -> <<"ltd">> [] token = "node.js" -> <<"node", "js">>
      [] token = "c++" -> <<"c">> [] token = "&" -> << >> [] OTHER -> <<token>>

MCSplitSkill(token) == IF token = "c++" THEN <<token>> ELSE MCSplit(token)

MCAlias ==
    [t \in {<<"node", "js">>, <<"node.js">>, <<"golang">>, <<"js">>} |->
        CASE t = <<"golang">> -> <<"go">> [] t = <<"js">> -> <<"javascript">> [] OTHER -> <<"node">>]

MCUpper(text) ==
    CASE text = "https" -> "HTTPS" [] text = "jobs.io" -> "JOBS.IO"
      [] text = "Must apply" -> "MUST_APPLY" [] OTHER -> text

MCText(description) == description
MCSuffix == {"ltd", "pvt"}
MCTracking == {"utm_source", "ref"}
MCTypes == <<"FULL_TIME", "INTERNSHIP", "CONTRACT">>
MCVerdicts == {"MUST_APPLY", "CONSIDER", "IGNORE"}

UpTo(n, tokens) == UNION {[1 .. k -> tokens] : k \in 0 .. n}

Urls ==
    [scheme : {"https", "javascript", ""}, host : {"", "jobs.io"},
     path : {<<"a">>, <<"", "a", "", "">>, << >>},
     query : {<< >>, <<<<"Ref", "x">>, <<"id", "1">>>>}, fragment : {"", "top"}]

MCKeysInput ==
    [title : UpTo(2, {"Acme", "Node.js", "&"}), company : UpTo(3, {"Acme", "Pvt", "Ltd.", "&"}),
     skill : {<<"Node.js">>}, place : {Unknown}, url : {[scheme |-> "https", host |-> "jobs.io",
     path |-> << >>, query |-> << >>, fragment |-> ""]}, says : {Unknown}]
    \union
    [title : {<<"Acme">>}, company : {<<"Acme">>},
     skill : UpTo(2, {"Node.js", "C++", "Golang", "js", "&"}), place : {Unknown, << >>, <<"Acme">>},
     url : Urls, says : {Unknown, {}, {"CONTRACT", "FULL_TIME"}}]

-------------------------------------------------------------------------------
(* The model *)

Says(status, after, body) == [status |-> status, after |-> after, body |-> body]

Responses ==
    {Says(s, Unknown, Unknown) : s \in {"timeout", "network", "failing", "rejected", "ok"}}
    \union {Says("busy", a, Unknown) : a \in {Unknown, 1, 9}}
    \union {Says("ok", Unknown, [valid |-> v, verdict |-> w]) :
                v \in BOOLEAN, w \in {Unknown, "Must apply", "perhaps"}}

MCAskInput ==
    [responses : [1 .. 3 -> Responses], maxRetries : {0, 2}, overall : {55}, band : {"CONSIDER"},
     cached : {Unknown}]
===============================================================================
