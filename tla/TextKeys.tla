-------------------------------- MODULE TextKeys --------------------------------
(*****************************************************************************)
(* The keys of utils/normalization.py, under which a title, a skill, a       *)
(* company, a URL or a posting is compared with another.  A text is a        *)
(* sequence of tokens, what stands between spaces; a URL is [scheme, host,   *)
(* path, query, fragment], path the sequence of its segments, query one of   *)
(* <<key, value>>, with the scheme or the host Blank where there is none.    *)
(*****************************************************************************)
EXTENDS Picked, Integers, Sequences, SequencesExt, FiniteSetsExt

CONSTANTS
    Unknown,
    Casefold(_),      \* of a token, a scheme or a host
    Split(_),         \* the words of a casefolded token between its punctuation
    SplitSkill(_),    \* the same, + and # being no punctuation
    Alias,            \* _SKILL_ALIASES, a function on texts
    CompanySuffix,    \* the words of _COMPANY_SUFFIX_RE
    Tracking,         \* the keys of _TRACKING_PARAM_RE
    Text(_),          \* strip_html: the text of a description
    EmploymentTypes   \* the employment types in the order they are tried

-------------------------------------------------------------------------------
(* Titles, skills, places and companies *)

Folded(text) == [n \in DOMAIN text |-> Casefold(text[n])]

Words(text, SplitToken(_)) == FlattenSeq([n \in DOMAIN text |-> SplitToken(Folded(text)[n])])

NormalizeTitle(title) == Words(title, Split)

Unaliased(text) == IF text \in DOMAIN Alias THEN Alias[text] ELSE text

\* An alias is looked up with the punctuation and without.
NormalizeSkill(name) ==
    IF Folded(name) \in DOMAIN Alias THEN Alias[Folded(name)]
    ELSE Unaliased(Words(name, SplitSkill))

NormalizeLocation(place) ==
    IF place = Unknown \/ place = << >> THEN Unknown ELSE Folded(place)

\* Mutant of NormalizeCompany: one suffix is taken off.
NormalizeCompanyOnce(name) ==
    LET words == Words(name, Split)
    IN  IF Len(words) > 1 /\ Last(words) \in CompanySuffix THEN Front(words) ELSE words

\* Suffixes are taken off the end until none is left, but never the whole name.
NormalizeCompany(name) ==
    LET words == Words(name, Split)
        bare == {n \in DOMAIN words : words[n] \notin CompanySuffix}
    IN  SubSeq(words, 1, Min({Len(words), Max(bare \union {1})}))

\* The row stores the normalized title and location.
ComputeContentHash(normalizedTitle, company, normalizedLocation, description) ==
    <<normalizedTitle, NormalizeCompany(company),
      IF normalizedLocation = Unknown THEN << >> ELSE normalizedLocation,
      IF description = Unknown THEN << >> ELSE Folded(Text(description))>>

-------------------------------------------------------------------------------
(* URLs *)

\* What stands where a URL has no scheme, no host, or two slashes with nothing between.
Blank == ""

IsWebScheme(scheme) == Casefold(scheme) \in {"http", "https"}

IsWebUrl(url) == url # Unknown /\ IsWebScheme(url.scheme) /\ url.host # Blank

\* The path without the empty segments at its end.
WithoutSlash(path) ==
    SubSeq(path, 1, Max({n \in 1 .. Len(path) : path[n] # Blank} \union {0}))

CanonicalizeUrl(url) ==
    IF url = Unknown \/ (url.scheme # Blank /\ ~IsWebScheme(url.scheme)) THEN Unknown
    ELSE IF url.scheme = Blank \/ url.host = Blank THEN url
    ELSE [scheme |-> Casefold(url.scheme), host |-> Casefold(url.host),
          path |-> WithoutSlash(url.path),
          query |-> KeptIf(url.query, LAMBDA param : Casefold(param[1]) \notin Tracking),
          fragment |-> Blank]

-------------------------------------------------------------------------------
(* Employment types: the first whose pattern occurs in the text, said to be    *)
(* the set of the types whose pattern does                                      *)

MapEmploymentType(says) ==
    LET hits == KeptIf(EmploymentTypes, LAMBDA type : type \in says)
    IN  IF says = Unknown \/ hits = << >> THEN Unknown ELSE hits[1]
===============================================================================
