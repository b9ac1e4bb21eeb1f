------------------------------- MODULE SkillGap -------------------------------
(*****************************************************************************)
(* The comparison of a candidate's skills with a job's, which is computed    *)
(* twice: by resume_gap_service.py for the gap page and by                   *)
(* candidate_context.py for the assistant's prompt; and what is kept of the  *)
(* model's own remarks.                                                      *)
(*                                                                           *)
(* A skill is a spelling, SkillKey(skill) what normalize_skill makes of it, "" of *)
(* one without letters.  A resume version is Unknown or [extraction, text],  *)
(* a job [analysis, current, text], an analysis or extraction Unknown or a   *)
(* record of sequences of skills; a profile is the sequence of its skills; a  *)
(* text is the set of catalog names that occur in it as words.               *)
(*****************************************************************************)
EXTENDS Picked, Integers, Sequences, SequencesExt, FiniteSetsExt

CONSTANTS
    Unknown,
    SkillKey(_),   \* normalize_skill
    Catalog,       \* the skill names of the database, in order: a sequence
    Within(_, _),  \* the text of the one occurs in that of the other
    Tokens(_)      \* the words of three letters and more, a sequence

-------------------------------------------------------------------------------
(* compute_skill_gap *)

\* The first spelling of each key.
Distinct(skills) ==
    Kept(skills, {i \in DOMAIN skills :
                      /\ SkillKey(skills[i]) # ""
                      /\ \A j \in 1 .. i - 1 : SkillKey(skills[j]) # SkillKey(skills[i])})

Gap(resume, wanted) ==
    LET have == {SkillKey(resume[i]) : i \in DOMAIN resume}
        asked == Distinct(wanted)
        met == {i \in DOMAIN asked : SkillKey(asked[i]) \in have}
    IN  [matched |-> Kept(asked, met), missing |-> Kept(asked, DOMAIN asked \ met)]

DetectSkills(text) == Kept(Catalog, {i \in DOMAIN Catalog : Catalog[i] \in text})

-------------------------------------------------------------------------------
(* The two callers *)

NoExtraction == [skills |-> << >>, technologies |-> << >>, projects |-> << >>]

\* The stored extraction, an empty one if it is missing or does not validate.
ExtractionOf(version) ==
    IF version = Unknown THEN NoExtraction
    ELSE IF version.extraction = Unknown THEN NoExtraction ELSE version.extraction

Listed(version, profile) ==
    LET e == ExtractionOf(version) IN e.skills \o e.technologies \o FlattenSeq(e.projects) \o profile

\* Without an analysis, or with one that names no skill, the posting's own text.
WantedBy(analysis, job) ==
    LET named == IF analysis = Unknown THEN << >>
                 ELSE analysis.required \o analysis.preferred \o analysis.stack
    IN  IF named = << >> THEN DetectSkills(job.text) ELSE named

\* The gap page analyses the job first; found is Unknown when the model fails.
PageGap(version, profile, job, found) ==
    Gap(Listed(version, profile) \o DetectSkills(version.text),
        WantedBy(IF job.current THEN job.analysis ELSE found, job))

\* Mutant of AssistantGap: the skills the resume's text mentions are left out.
AssistantGapOfLists(version, profile, job) ==
    Gap(Listed(version, profile), WantedBy(job.analysis, job))

\* The assistant takes the analysis that is stored, of whatever age.
AssistantGap(version, profile, job) ==
    Gap(Listed(version, profile)
            \o (IF version = Unknown THEN << >> ELSE DetectSkills(version.text)),
        WantedBy(job.analysis, job))

-------------------------------------------------------------------------------
(* ground: an experience is [label], a suggestion [says, quote], an area       *)
(* [area]; facts is the text of the resume and the profile                      *)

Share(words, known) == Cardinality({i \in DOMAIN words : words[i] \in known})

IsGrounded(quote, facts) ==
    /\ quote # Unknown
    /\ \/ Within(quote, facts)
       \/ /\ Tokens(quote) # << >>
          /\ 10 * Share(Tokens(quote), ToSet(Tokens(facts))) >= 7 * Len(Tokens(quote))

\* Of the words of the shorter label, seven in ten are in the other.
Overlap(a, b) ==
    LET x == ToSet(Tokens(a))
        y == ToSet(Tokens(b))
    IN  /\ x # {} /\ y # {}
        /\ 10 * Cardinality(x \intersect y) >= 7 * Min({Cardinality(x), Cardinality(y)})

KnownRole(label, roles) ==
    \E role \in roles \ {Unknown} : Within(label, role) \/ Within(role, label) \/ Overlap(label, role)

KeptExperience(label, roles, facts) ==
    /\ label # Unknown
    /\ KnownRole(label, roles) \/ (roles = {} /\ IsGrounded(label, facts))

KeptSuggestion(s, facts) == s.says # Unknown /\ IsGrounded(s.quote, facts)

Ground(ai, roles, facts) ==
    LET experience == {i \in DOMAIN ai.experience : KeptExperience(ai.experience[i], roles, facts)}
        suggestions == {i \in DOMAIN ai.suggestions : KeptSuggestion(ai.suggestions[i], facts)}
        areas == {i \in DOMAIN ai.areas : ai.areas[i] # Unknown}
        kept == [experience  |-> Kept(ai.experience, experience),
                 suggestions |-> Kept(ai.suggestions, suggestions),
                 areas       |-> Kept(ai.areas, areas)]
    IN  [kept |-> kept,
         dropped |-> Len(ai.experience) + Len(ai.suggestions) + Len(ai.areas)
                         - Len(kept.experience) - Len(kept.suggestions) - Len(kept.areas)]
===============================================================================
