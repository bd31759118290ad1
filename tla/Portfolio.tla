------------------------------- MODULE Portfolio -------------------------------
(***************************************************************************)
(* The content of one profile over time.  The owner's clients read it and  *)
(* send sections back (profile.service.ts, the mappers, the repository and *)
(* the schema), the one-shot script scripts/backfill-entry-keys.ts keys    *)
(* entries that were stored before entries had keys, a visit's voice agent *)
(* learns the slides when it joins and goes on to name them, and a draft   *)
(* is previewed as the deck it would become (generation/assemble.ts).      *)
(*                                                                         *)
(* A behaviour edits one section, any: the code treats each by itself.     *)
(***************************************************************************)
EXTENDS Slides, Integers

CONSTANTS
  Clients,
  MaxEntries,   \* of a list, and of the lists nested in an entry
  MaxMinted     \* bound on the keys a behaviour may draw

ASSUME PortfolioAssumption == MaxEntries \in Nat \ {0} /\ MaxMinted \in Nat

ListSections == KEYED_ARRAY_SECTIONS
ObjectSections == {"identity", "social"}

VARIABLES
  stored,     \* the document: every section, as MongoDB holds it
  minted,     \* the keys drawn so far are 1 .. minted
  subject,    \* the section this behaviour edits
  views,      \* [Clients -> what the client was last served of it]
  backfill,   \* what the script is about to write: at most one write
  heard,      \* what the agent of the running visit takes each path to mean
  refused     \* sections an accepted body failed the schema's validators in

vars == <<stored, minted, subject, views, backfill, heard, refused>>

-----------------------------------------------------------------------------
(* A section through the layers.                                            *)

\* Entries of a list, with what is nested in a work.
OnWork(work, F(_, _)) ==
  [key |-> work.key,
   of |-> work.of,
   fields |-> F("works", work.fields),
   stages |->
     [j \in DOMAIN work.stages |->
        [key |-> work.stages[j].key, of |-> work.stages[j].of,
         fields |-> F("stages", work.stages[j].fields)]],
   screenshots |->
     [s \in DOMAIN work.screenshots |->
        [key |-> work.screenshots[s].key, of |-> work.screenshots[s].of,
         fields |-> F("screenshots", work.screenshots[s].fields),
         hotspots |->
           [h \in DOMAIN work.screenshots[s].hotspots |->
              [key |-> work.screenshots[s].hotspots[h].key,
               of |-> work.screenshots[s].hotspots[h].of,
               fields |-> F("hotspots", work.screenshots[s].hotspots[h].fields)]]]]]

OnEntries(section, entries, F(_, _)) ==
  [i \in DOMAIN entries |->
     IF section = "works" THEN OnWork(entries[i], F)
     ELSE [key |-> entries[i].key, of |-> entries[i].of,
           fields |-> F(section, entries[i].fields)]]

OnSection(section, content, F(_, _)) ==
  IF section \in ListSections THEN OnEntries(section, content, F) ELSE F(section, content)

\* Every [layer, fields] of a section's content.
FieldsIn(section, content) ==
  IF section \in ObjectSections THEN {[layer |-> section, fields |-> content]}
  ELSE {[layer |-> section, fields |-> content[i].fields] : i \in DOMAIN content}
    \cup
      IF section # "works" THEN {}
      ELSE UNION {{[layer |-> "stages", fields |-> content[i].stages[j].fields] :
                     j \in DOMAIN content[i].stages}
                  \cup UNION {{[layer |-> "screenshots", fields |-> s.fields]}
                                \cup {[layer |-> "hotspots", fields |-> s.hotspots[h].fields] :
                                        h \in DOMAIN s.hotspots} :
                                s \in {content[i].screenshots[n] :
                                         n \in DOMAIN content[i].screenshots}} :
                    i \in DOMAIN content}

MappedFields(layer, fields) == Mapped(Layers[layer].mapper, fields)
HydratedFields(layer, fields) == Hydrated(Layers[layer].schema, fields)

\* toRecord: what Mongoose makes of the document.
Record(doc) == [s \in DOMAIN doc |-> OnSection(s, doc[s], HydratedFields)]

BodyAccepted(section, body) ==
  \A x \in FieldsIn(section, body) : Accepted(Layers[x.layer].dto, x.fields)

SectionStorable(section, content) ==
  \A x \in FieldsIn(section, content) : Storable(Layers[x.layer].schema, x.fields)

\* The single place keys are assigned.
withEntryKeys(section, entries, drawn) ==
  LET keyed == withUniqueKeys(entries, drawn)
  IN  IF section = "works"
      THEN [i \in DOMAIN keyed |-> withWorkChildKeys(keyed[i], drawn)] ELSE keyed

\* A list is replaced; an object is written field by field, those that were sent.
toProfileUpdateFields(section, body) ==
  IF section \in ListSections THEN OnEntries(section, body, MappedFields)
  ELSE [f \in DOMAIN stored[section] |->
          IF f \in DOMAIN body /\ body[f] # Undefined
          THEN Mapped(Layers[section].mapper, body)[f] ELSE stored[section][f]]

\* What the $set of one section makes of it.
Updated(section, body) ==
  LET fields == toProfileUpdateFields(section, body)
  IN  IF section \in ListSections THEN withEntryKeys(section, fields, minted) ELSE fields

-----------------------------------------------------------------------------
(* What clients send.                                                       *)

\* An entry whose keys the client did not keep.
Unkeyed(section, e) ==
  IF section # "works" THEN Keyed(e, NoKey)
  ELSE [Keyed(e, NoKey) EXCEPT
          !.stages = [j \in DOMAIN e.stages |-> Keyed(e.stages[j], NoKey)],
          !.screenshots =
            [s \in DOMAIN e.screenshots |->
               [Keyed(e.screenshots[s], NoKey) EXCEPT
                  !.hotspots = [h \in DOMAIN e.screenshots[s].hotspots |->
                                  Keyed(e.screenshots[s].hotspots[h], NoKey)]]]]

\* Something new, the n-th of its kind in what is written after `drawn` keys.
Fresh(layer, rest, drawn, n) ==
  [key |-> NoKey, of |-> <<layer, drawn, n>>, fields |-> Shape(layer, rest)]

FreshShot(rest, hotspots, drawn) ==
  [key |-> NoKey, of |-> <<"screenshots", drawn, 1>>, fields |-> Shape("screenshots", rest),
   hotspots |-> [h \in 1 .. hotspots |-> Fresh("hotspots", rest, drawn, h)]]

FreshWork(rest, stages, shots, drawn) ==
  [key |-> NoKey, of |-> <<"works", drawn, stages>>, fields |-> Shape("works", rest),
   stages |-> [j \in 1 .. stages |-> Fresh("stages", rest, drawn, j)],
   screenshots |-> [s \in 1 .. shots |-> FreshShot(rest, 1, drawn)]]

Rest == {Undefined, Null}

\* A work that is told in stages, and one that is shown.
NewEntries(section) ==
  IF section = "works"
  THEN {FreshWork(rest, MaxEntries, 0, minted) : rest \in Rest}
         \cup {FreshWork(Given, 0, 1, minted)}
  ELSE {Fresh(section, rest, minted, 1) : rest \in Rest}
         \cup IF section # "media" THEN {}
              ELSE {[Fresh(section, Given, minted, 1) EXCEPT !.fields["type"] = "video"]}

Lists(entries) == UNION {[1 .. n -> entries] : n \in 0 .. MaxEntries}

\* New entries of one body are told apart by their places.
Labelled(entries) ==
  [i \in DOMAIN entries |->
     IF Len(entries[i].of) = 3 THEN [entries[i] EXCEPT !.of = Append(@, i)] ELSE entries[i]]

\* Entries that were served before, as they are, without their keys, twice or not
\* at all, in any order, and new ones.
ListBodies(section, view) ==
  LET kept == {view[i] : i \in DOMAIN view}
  IN  {Labelled(body) :
         body \in Lists(kept \cup {Unkeyed(section, e) : e \in kept} \cup NewEntries(section))}

\* The fields of an identity and of a social section, together or one by one.  The
\* type of an identity is given as itself.
ObjectBodies(section) ==
  LET one == {[Shape(section, Undefined) EXCEPT ![f] = v] :
                f \in FieldsOf(Layers[section].dto) \ {"entityType"}, v \in {Given, Null}}
      allButOne == {[Shape(section, Given) EXCEPT ![f] = Null] : f \in FieldsOf(Layers[section].dto)}
  IN  IF section = "social" THEN Shapes(section) \cup one \cup allButOne
      ELSE one \cup {[Shape(section, Undefined) EXCEPT !["entityType"] = t] :
                       t \in EntityType \cup {Null}}
             \cup {[Shape(section, rest) EXCEPT !["entityType"] = "company"] : rest \in Rest}

Bodies(section, view) ==
  IF section \in ListSections THEN ListBodies(section, view) ELSE ObjectBodies(section)

-----------------------------------------------------------------------------

\* One entry in each section, as it was stored before most fields had been thought
\* of: before entries had keys, before screenshots had, or through today's code.
Ages == {"unkeyed", "unpointed", "created"}

Legacy(section) ==
  IF section = "works"
  THEN Labelled(<<[FreshWork(Undefined, 1, 1, 0) EXCEPT
                     !.screenshots = <<FreshShot(Undefined, 0, 0)>>]>>)
  ELSE Labelled(<<Fresh(section, Undefined, 0, 1)>>)

FirstEntries(section, age) ==
  CASE age = "unkeyed" -> Legacy(section)
    [] age = "unpointed" ->
         LET keyed == withUniqueKeys(Legacy(section), 0)
         IN  IF section # "works" THEN keyed
             ELSE [i \in DOMAIN keyed |->
                     [keyed[i] EXCEPT !.stages = withUniqueKeys(keyed[i].stages, 0)]]
    [] age = "created" ->
         withEntryKeys(section, OnEntries(section, Legacy(section), MappedFields), 0)

FirstIdentity(rest) ==
  [Shape("identity", rest) EXCEPT !["entityType"] = "individual", !["name"] = Given]

Document(age) ==
  [s \in ListSections \cup ObjectSections |->
     CASE s = "identity" -> FirstIdentity(IF age = "created" THEN Null ELSE Undefined)
       [] s = "social" -> IF age = "created" THEN Mapped(SocialUpdate, Shape(s, Undefined))
                          ELSE Shape(s, Undefined)
       [] OTHER -> FirstEntries(s, age)]

Init ==
  /\ minted = MaxEntries
  /\ stored \in {Document(age) : age \in Ages}
  /\ subject \in ListSections \cup ObjectSections
  /\ views = [c \in Clients |-> Record(stored)[subject]]
  /\ backfill = {}
  /\ heard = {}
  /\ refused = {}

\* GET /profiles/me.
Load(c) ==
  /\ views' = [views EXCEPT ![c] = Record(stored)[subject]]
  /\ UNCHANGED <<stored, minted, subject, backfill, heard, refused>>

\* PATCH /profiles/me, of which the response may be lost.  A value the schema
\* refuses fails the whole write.
Patch(c) ==
  \E body \in Bodies(subject, views[c]) :
    /\ minted < MaxMinted
    /\ BodyAccepted(subject, body)
    /\ LET content == Updated(subject, body)
       IN  IF SectionStorable(subject, content)
           THEN /\ stored' = [stored EXCEPT ![subject] = content]
                /\ minted' = minted + MaxEntries
                /\ \E answer \in {Record(stored')[subject], views[c]} :
                     views' = [views EXCEPT ![c] = answer]
                /\ UNCHANGED refused
           ELSE /\ refused' = refused \cup {subject}
                /\ UNCHANGED <<stored, minted, views>>
    /\ UNCHANGED <<subject, backfill, heard>>

\* The worker asks for the context of a visit that begins.
AgentJoins ==
  /\ heard' = Meanings(projectSlides(Record(stored)))
  /\ UNCHANGED <<stored, minted, subject, views, backfill, refused>>

-----------------------------------------------------------------------------
(* The backfill reads a document with its cursor and writes it later.  It   *)
(* sees the document as it is stored, and keys entries and stages.          *)

stagesOf(section, entry) == IF section = "works" THEN entry.stages ELSE <<>>

\* A plausible slip: all entries are keyed anew.
MutantBackfilledSection(section, entries) ==
  [i \in DOMAIN entries |-> Keyed(entries[i], minted + i)]

BackfilledSection(section, entries) ==
  LET keyed == withUniqueKeys(entries, minted)
  IN  IF section # "works" THEN keyed
      ELSE [i \in DOMAIN keyed |->
              [keyed[i] EXCEPT !.stages = withUniqueKeys(keyed[i].stages, minted)]]

keysDiffer(section, before, after) ==
  \E i \in DOMAIN after :
    \/ before[i].key # after[i].key
    \/ \E j \in DOMAIN stagesOf(section, after[i]) :
         stagesOf(section, before[i])[j].key # stagesOf(section, after[i])[j].key

\* The sections whose keys change, whole.
keyedSectionsOf(doc) ==
  LET changed == {s \in ListSections :
                    keysDiffer(s, doc[s], BackfilledSection(s, doc[s]))}
  IN  [s \in changed |-> BackfilledSection(s, doc[s])]

BackfillReads ==
  /\ backfill = {}
  /\ minted < MaxMinted
  /\ LET changes == keyedSectionsOf(stored)
     IN  /\ DOMAIN changes # {}
         /\ backfill' = {[changes |-> changes, read |-> minted + MaxEntries]}
  /\ minted' = minted + MaxEntries
  /\ UNCHANGED <<stored, subject, views, heard, refused>>

BackfillWrites ==
  \E b \in backfill :
    /\ stored' = [s \in DOMAIN stored |->
                    IF s \in DOMAIN b.changes THEN b.changes[s] ELSE stored[s]]
    /\ backfill' = {}
    /\ UNCHANGED <<minted, subject, views, heard, refused>>

\* The script ends before it writes, and can be run again.
BackfillDies ==
  /\ backfill # {}
  /\ backfill' = {}
  /\ UNCHANGED <<stored, minted, subject, views, heard, refused>>

Next ==
  \/ \E c \in Clients : Load(c) \/ Patch(c)
  \/ AgentJoins
  \/ BackfillReads
  \/ BackfillWrites
  \/ BackfillDies

Spec == Init /\ [][Next]_vars

-----------------------------------------------------------------------------
(* assemble.ts: the record the owner would have if a draft were accepted.   *)

Generated == (ListSections \ {"media"}) \cup ObjectSections

IMAGE_FIELDS ==
  {"primaryImage", "coverImage", "organizationLogoUrl", "avatarUrl", "thumbnailUrl"}

\* Deleted, not nulled.
stripImages(fields) == [f \in DOMAIN fields |-> IF f \in IMAGE_FIELDS THEN Undefined ELSE fields[f]]

hasSocialContent(social) == \E f \in DOMAIN social : social[f] = Given

\* What can be drafted of a section: no keys, no images, never an empty list.
Drafts(section) ==
  IF section \in ListSections
  THEN {<<[e EXCEPT !.fields = stripImages(@)]>> :
          e \in IF section = "works" THEN {FreshWork(rest, 1, 0, minted) : rest \in Rest}
                ELSE NewEntries(section)}
  ELSE {stripImages(b) : b \in {x \in ObjectBodies(section) :
                                  section = "social" => hasSocialContent(x)}}

\* Counted per response; no key of a document is negative.
PreviewKey(n) == 0 - n

\* A work, and then its stages.
PreviewKeys(section, entries) ==
  IF section = "works"
  THEN [i \in DOMAIN entries |->
          LET before == Cardinality(BlocksThrough(entries, i - 1))
          IN  [Keyed(entries[i], PreviewKey(before + 1)) EXCEPT
                 !.stages = [j \in DOMAIN entries[i].stages |->
                               Keyed(entries[i].stages[j], PreviewKey(before + 1 + j))]]]
  ELSE [i \in DOMAIN entries |-> Keyed(entries[i], PreviewKey(i))]

\* A plausible slip: the draft's fields are spread over the record, sent or not.
MutantApplyDraft(record, section, draft) ==
  [record EXCEPT ![section] =
     IF section \in ListSections
     THEN PreviewKeys(section, OnEntries(section, draft, MappedFields))
     ELSE [f \in DOMAIN record[section] |-> draft[f]]]

\* Lists through the mappers of the update; what an object section leaves out, and
\* links that are null, stay as they are.
applyDraft(record, section, draft) ==
  [record EXCEPT ![section] =
     IF section \in ListSections
     THEN PreviewKeys(section, OnEntries(section, draft, MappedFields))
     ELSE [f \in DOMAIN record[section] |->
             IF draft[f] = Undefined \/ (f = "links" /\ draft[f] = Null)
             THEN record[section][f] ELSE draft[f]]]

\* What a slide shows, without the keys.
Look(s) ==
  [name |-> s.id.name, at |-> s.at, position |-> s.position, total |-> s.total,
   items |-> [i \in DOMAIN s.items |-> s.items[i].fields],
   screenshots |-> [i \in DOMAIN s.screenshots |-> s.screenshots[i].shot.fields]]

Looks(slides) == {Look(s) : s \in slides}

-----------------------------------------------------------------------------
(* Types: every section that is read has all the fields of its type, whatever  *)
(* the body left out and however long ago it was stored.                      *)

TypeOK ==
  /\ minted \in Nat
  /\ subject \in ListSections \cup ObjectSections
  /\ refused \subseteq ListSections \cup ObjectSections
  /\ \A s \in DOMAIN stored : \A x \in FieldsIn(s, Record(stored)[s]) :
       Conforms(Layers[x.layer].nullable, x.fields)

-----------------------------------------------------------------------------
(* Safety.                                                                  *)

Catalog == projectSlides(Record(stored))

\* No two slides answer to one id, and no two things on a slide to one focus key,
\* whatever keys a client sends back, keeps, drops or sends twice (withUniqueKeys,
\* withWorkChildKeys).  A document from before there were keys has none yet.
NamesAreUnique(slides) ==
  /\ \A s, t \in slides : IsKeyed(Path(s.id, <<>>)) /\ s.id = t.id => s = t
  /\ \A s \in slides : \A f, g \in s.focus :
       IsKeyed(Path(s.id, f.key)) /\ f.key = g.key => f = g

SlideNamesAreUnique == NamesAreUnique(Catalog)

\* A path the agent learned when it joined never comes to mean another entry, while
\* the owner and the backfill go on writing: at worst nothing answers to it.
AgentPointsAtWhatItMeans ==
  \A h \in heard, m \in Meanings(Catalog) :
    h.path = m.path /\ IsKeyed(h.path) => h.of = m.of

\* The slides carry every field slide.ts promises, for legacy documents too: a
\* client draws them without looking.
ServedFieldsConform ==
  \A s \in Catalog :
    /\ \A i \in DOMAIN s.items :
         Conforms(PayloadOf[s.id.name].nullable, s.items[i].fields)
    /\ \A i \in DOMAIN s.screenshots :
         /\ Conforms(ScreenshotPayload.nullable, s.screenshots[i].shot.fields)
         /\ \A h \in DOMAIN s.screenshots[i].hotspots :
              Conforms(HotspotPayload.nullable, s.screenshots[i].hotspots[h].fields)

\* The deck keeps to its size, and a work is told with its whole arc, or not at
\* all, and no work before it is skipped: "a lifecycle that simply stopped" is
\* never shown (workSlides).
WorksAreWhole ==
  LET works == {s \in Catalog : s.id.name = "work"}
      stages == {s \in Catalog : s.id.name = "stage"}
  IN  /\ Cardinality(Catalog) <= MAX_SLIDES
      /\ \A w \in works :
           {s.at[3] : s \in {t \in stages : t.at[2] = w.at[2]}} = 1 .. w.total
      /\ \A s \in stages : \E w \in works : w.at[2] = s.at[2] /\ w.total = s.total
      /\ {w.at[2] : w \in works} = 1 .. Cardinality(works)

\* What the DTOs of a list accept, the schema stores: the DTOs, the mappers and the
\* schema agree on what must be there.
AcceptedListsAreStored == refused \cap ListSections = {}

\* The deck of a preview is the deck of the profile once the draft was sent as a
\* PATCH, slide by slide, but for the keys.
PreviewsTheDeck(draft) ==
  Looks(projectSlides(applyDraft(Record(stored), subject, draft)))
    = Looks(projectSlides(Record([stored EXCEPT ![subject] = Updated(subject, draft)])))

Writable(draft) == SectionStorable(subject, Updated(subject, draft))

\* "The preview in the response is the deck they are about to get and not an
\* approximation of it" (applyDraft): so it is, of drafts that do not say null of the
\* links, which the preview leaves and the PATCH clears.
PreviewIsTheDeckUnlessCleared ==
  subject \in Generated =>
    \A d \in Drafts(subject) :
      Writable(d) /\ (subject = "social" => d["links"] # Null) => PreviewsTheDeck(d)

\* When nothing was written since the backfill read the document, it leaves every
\* key that names one entry where it is, changes nothing else, and has nothing to
\* do when it is run again.
WithoutKeys(section, entries) == [i \in DOMAIN entries |-> Unkeyed(section, entries[i])]

BackfillKeepsAndIsIdempotent ==
  [][\A b \in backfill :
       (minted = b.read /\ backfill' = {} /\ stored' # stored) =>
         /\ DOMAIN keyedSectionsOf(stored') = {}
         /\ \A s \in ListSections :
              /\ WithoutKeys(s, stored'[s]) = WithoutKeys(s, stored[s])
              /\ \A i \in DOMAIN stored[s] :
                   /\ isReusable(stored[s], i) => stored'[s][i].key = stored[s][i].key
                   /\ \A j \in DOMAIN stagesOf(s, stored[s][i]) :
                        isReusable(stagesOf(s, stored[s][i]), j) =>
                          stagesOf(s, stored'[s][i])[j].key = stagesOf(s, stored[s][i])[j].key]_vars

=============================================================================
