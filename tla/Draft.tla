--------------------------------- MODULE Draft ---------------------------------
(***************************************************************************)
(* profile/generation/assemble.ts: what becomes of the answers to the      *)
(* section prompts.  An entry as the model wrote it is as much as the      *)
(* passes over it tell apart; a list of them is followed by position, so   *)
(* that what is in the draft can be held against what was answered.        *)
(* Wording, and which field of an entry a check fails on, are left out,    *)
(* and so are the stages of a work, cut to the first six.  The fields of   *)
(* the object sections are kept, since the PATCH a draft is sent back in   *)
(* writes them one by one.                                                 *)
(***************************************************************************)
EXTENDS Sections, Sequences, FiniteSets

CONSTANTS
  Names,
  Cap       \* section-specs.ts: the most entries of each list section

ListSections ==
  {"capabilities", "timeline", "works", "offerings", "metrics", "testimonials", "team",
   "content"}
ObjectSections == {"identity", "social"}
GENERATED_SECTIONS == ListSections \cup ObjectSections

ASSUME CapAssumption == Cap \in [ListSections -> Nat \ {0}]

Images == {"primaryImage", "coverImage"}

\* The fields of an object section; the whitelist of its DTO drops any other.
Own ==
  [identity |-> FieldsOf(UpdateIdentityDto) \ Images, social |-> FieldsOf(SocialDto)]

\* Not sent, null, empty ("" or [], Filled) or something.
Value == {Undefined, Null, Filled, Given}

\* shape: not an object, refused by the DTO, or passed.  link: whether its URLs are
\* in the description.  said: whether its date, number or quote is.  image: what its
\* image fields hold.  fields: what those of an object section hold.
RawEntry ==
  [shape : {"junk", "invalid", "valid"}, link : {"none", "real", "invented"},
   said : BOOLEAN, name : Names, image : Value,
   fields : [UNION {Own[s] : s \in ObjectSections} -> Value]]

\* What a call came back with: no JSON object, one without a list of entries, or
\* entries.  A call that failed came back with nothing.
Answer == [form : {"nothing", "shapeless", "entries"}, entries : Seq(RawEntry)]

Nothing == [form |-> "nothing", entries |-> <<>>]

GroundCode ==
  [timeline |-> "UNDATED_WORK", works |-> "UNDATED_WORK", metrics |-> "UNGROUNDED_METRIC",
   testimonials |-> "UNGROUNDED_QUOTE"]

IMAGE_FIELDS == {"identity", "works", "timeline", "testimonials", "team", "content"}

-----------------------------------------------------------------------------
(* The passes over one entry: validate, strip the images, and ground.       *)

Grounded(section, e) == section \in DOMAIN GroundCode => e.said

\* A plausible slip: a URL that is not in the description passes.
MutantUsable(section, e) == e.shape = "valid" /\ Grounded(section, e)

Usable(section, e) == e.shape = "valid" /\ e.link # "invented" /\ Grounded(section, e)

\* Deleted, not nulled: what the owner uploaded stays.
stripImages(section, e) ==
  IF section \in IMAGE_FIELDS THEN [e EXCEPT !.image = Undefined] ELSE e

\* What is said of an entry that is not usable.  Nothing is said of junk.
Complaint(section, e) ==
  CASE e.shape = "invalid" -> "INVALID_ENTRY"
    [] e.shape = "valid" /\ e.link = "invented" -> "UNGROUNDED_URL"
    [] OTHER -> GroundCode[section]

\* What the PATCH of an object section clears of the owner's: it writes what was sent
\* and leaves alone what was not (setIfSent).  What the schema requires it refuses to.
Clears(section, e) ==
  {f \in Own[section] \ Layers[section].schema.required : e.fields[f] \in {Null, Filled}}

-----------------------------------------------------------------------------
(* A list: dedupe by name, then cap.  Positions in what was answered.       *)

Repeats(section, entries, i) ==
  \E j \in 1 .. i - 1 : Usable(section, entries[j]) /\ entries[j].name = entries[i].name

Kept(section, entries) ==
  {i \in DOMAIN entries : Usable(section, entries[i]) /\ ~Repeats(section, entries, i)}

First(n, positions) == {i \in positions : Cardinality({j \in positions : j < i}) < n}

\* A plausible slip: the cap comes before the names are looked at.
MutantMany(section, entries) ==
  First(Cap[section], {i \in DOMAIN entries : Usable(section, entries[i])})
    \cap Kept(section, entries)

many(section, entries) == First(Cap[section], Kept(section, entries))

\* An object section: the first entry, or nothing.
one(section, entries) ==
  {i \in DOMAIN entries : i = 1 /\ Usable(section, entries[1])}

Survivors(section, answer) ==
  IF answer.form # "entries" THEN {}
  ELSE IF section \in ListSections THEN many(section, answer.entries)
  ELSE one(section, answer.entries)

\* A social section with nothing in it is left out, although it was generated.  An
\* identity is never empty: its fields are there and undefined.
hasSocialContent(e) == \E f \in Own.social : e.fields[f] = Given

InDraft(section, answer) ==
  {i \in Survivors(section, answer) :
     section = "social" => hasSocialContent(answer.entries[i])}

\* A plausible slip: one answer that cannot be read fails all of them.
MutantStatusOf(results, section) ==
  IF \E s \in DOMAIN results : results[s].form # "entries" THEN "failed"
  ELSE IF section \in DOMAIN results /\ Survivors(section, results[section]) # {}
       THEN "generated" ELSE "empty"

StatusOf(results, section) ==
  IF section \notin DOMAIN results THEN "empty"
  ELSE IF results[section].form # "entries" THEN "failed"
  ELSE IF Survivors(section, results[section]) # {} THEN "generated" ELSE "empty"

Warning(section, code, at) == [section |-> section, code |-> code, at |-> at]

\* Of one section: `at` is the entry a warning is about, 0 for the section.
WarningsOf(section, answer) ==
  CASE answer.form = "nothing" -> {Warning(section, "SECTION_FAILED", 0)}
    [] answer.form = "shapeless" -> {Warning(section, "PARSE_FAILED", 0)}
    [] OTHER ->
         LET entries == answer.entries
             read == IF section \in ListSections THEN DOMAIN entries ELSE DOMAIN entries \cap {1}
         IN  {Warning(section, Complaint(section, entries[i]), i) :
                i \in {n \in read : entries[n].shape # "junk" /\ ~Usable(section, entries[n])}}
             \cup {Warning(section, "DUPLICATE", i) :
                    i \in {n \in read : /\ section \in ListSections
                                        /\ Usable(section, entries[n])
                                        /\ Repeats(section, entries, n)}}
             \cup {Warning(section, "CAPPED", 0) :
                    i \in {n \in Kept(section, entries) : section \in ListSections}
                             \ Survivors(section, answer)}

\* Sections without an entry in them are left out: an empty list would delete
\* what the owner has.  What is null in an entry, or an empty list in it, stays.
assembleDraft(results) ==
  [draft |->
     [s \in {t \in DOMAIN results : InDraft(t, results[t]) # {}} |->
        [i \in InDraft(s, results[s]) |-> stripImages(s, results[s].entries[i])]],
   sections |-> [s \in GENERATED_SECTIONS |-> StatusOf(results, s)],
   warnings |-> UNION {WarningsOf(s, results[s]) : s \in DOMAIN results}]

=============================================================================
