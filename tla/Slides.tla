-------------------------------- MODULE Slides --------------------------------
(***************************************************************************)
(* profile/domain/slide.projector.ts: the slides that are derived from a   *)
(* profile, what each of them serves, and what on it the voice agent can   *)
(* point at.  The catalog is a set of slides with their places: the next   *)
(* slide is the one at the next place, lexicographically.                  *)
(*                                                                         *)
(* An entry is [key, of, fields], a work has stages and screenshots as     *)
(* well, and a screenshot hotspots.  `of` has no counterpart in the code:  *)
(* it is what the owner means by the entry, and stays with it when it is   *)
(* edited, moved or copied.  Titles and talk tracks, which are worded from *)
(* the same fields, are left out.                                          *)
(***************************************************************************)
EXTENDS EntryKey, Sections, FiniteSets

CONSTANTS MAX_SLIDES, MAX_FIXED_SLIDES

ASSUME SlidesAssumption ==
  /\ MAX_FIXED_SLIDES = 10
  /\ MAX_SLIDES \in Nat
  /\ MAX_SLIDES >= MAX_FIXED_SLIDES

-----------------------------------------------------------------------------
(* slide.ts: the fields of each payload, and those that may be null.        *)

Payload(plain, nullable) == [shown |-> plain \cup nullable, nullable |-> nullable]

IdentityPayload == Payload({"entityType", "name"},
  {"tagline", "bio", "about", "primaryImage", "coverImage", "location", "foundedOrBorn",
   "industry", "availability"})
WorkPayload == Payload(
  {"type", "name", "description", "technologies", "tags", "status", "highlights", "featured",
   "codeSnippets"}, {"tagline", "url", "repoUrl", "coverImage", "date"})
ScreenshotPayload == Payload({"url"}, {"caption"})
HotspotPayload == Payload({"label", "x", "y", "w", "h"}, {})
WorkStagePayload == Payload({"label", "status", "highlights"}, {"date", "endDate"})
CapabilitiesPayload == Payload({"name"},
  {"description", "icon", "category", "proficiency", "yearsOfExperience"})
TimelinePayload == Payload({"category", "date", "label", "highlight"},
  {"endDate", "organization", "organizationLogoUrl", "description", "url"})
ContactPayload == Payload({"links"}, {"calendarUrl"})
OfferingsPayload == Payload({"name", "description", "features", "highlighted", "tags"},
  {"icon", "price", "cta"})
MetricsPayload == Payload({"value", "label"}, {"description", "icon", "category"})
TestimonialsPayload == Payload({"text", "author", "relationship", "featured"},
  {"role", "organization", "avatarUrl"})
TeamPayload == Payload({"name", "role", "links"}, {"bio", "avatarUrl"})
ContentPayload == Payload({"type", "title", "url", "tags", "featured"},
  {"description", "thumbnailUrl", "date"})
MediaPayload == Payload({"url"}, {"caption", "category"})

PayloadOf ==
  [identity |-> IdentityPayload, work |-> WorkPayload, stage |-> WorkStagePayload,
   capabilities |-> CapabilitiesPayload, timeline |-> TimelinePayload,
   contact |-> ContactPayload, offerings |-> OfferingsPayload, metrics |-> MetricsPayload,
   testimonials |-> TestimonialsPayload, team |-> TeamPayload, content |-> ContentPayload,
   media |-> MediaPayload]

Item(entry, payload) ==
  [key |-> entry.key, of |-> entry.of, fields |-> Restriction(entry.fields, payload.shown)]

Items(entries, payload) == [i \in DOMAIN entries |-> Item(entries[i], payload)]

-----------------------------------------------------------------------------
(* The order the story is told in.                                          *)

COMPANY_ORDER ==
  <<"offerings", "works", "media", "metrics", "testimonials", "team", "capabilities",
    "timeline", "content", "contact">>

SECTION_ORDER ==
  [individual |->
     <<"works", "capabilities", "timeline", "testimonials", "content", "media", "metrics",
       "offerings", "team", "contact">>,
   company |-> COMPANY_ORDER,
   organization |-> COMPANY_ORDER,
   product |->
     <<"capabilities", "works", "media", "metrics", "offerings", "testimonials", "timeline",
       "team", "content", "contact">>]

EntityType == DOMAIN SECTION_ORDER

sectionOrder(entityType) == SECTION_ORDER[entityType]

Place(record, section) ==
  CHOOSE i \in 1 .. 10 : sectionOrder(record.identity["entityType"])[i] = section

-----------------------------------------------------------------------------
(* Slides.                                                                  *)

\* The id spells out the keys that lead to the entry.
SlideId(name, keys) == [name |-> name, keys |-> keys]

Slide(at, id, items, focus) ==
  [at |-> at, id |-> id, items |-> items, screenshots |-> <<>>, position |-> 0, total |-> 0,
   focus |-> focus]

identitySlide(record) ==
  Slide(<<0, 0, 0>>, SlideId("identity", <<>>),
        <<Item([key |-> NoKey, of |-> 0, fields |-> record.identity], IdentityPayload)>>, {})

Focus(at, key, of) == [at |-> at, key |-> key, of |-> of]

\* Every screenshot with a key, and then the regions drawn on it.
screenshotFocus(screenshots) ==
  UNION {LET shot == screenshots[i]
         IN  {Focus(<<i, 0>>, <<shot.key>>, shot.of)}
               \cup {Focus(<<i, h>>, <<shot.key, shot.hotspots[h].key>>, shot.hotspots[h].of) :
                       h \in DOMAIN shot.hotspots}
         : i \in {n \in DOMAIN screenshots : screenshots[n].key # NoKey}}

workSlide(record, i) ==
  LET work == record.works[i]
  IN  [Slide(<<Place(record, "works"), i, 0>>, SlideId("work", <<work.key>>),
             <<Item(work, WorkPayload)>>, screenshotFocus(work.screenshots))
         EXCEPT !.screenshots =
                  [s \in DOMAIN work.screenshots |->
                     [shot |-> Item(work.screenshots[s], ScreenshotPayload),
                      hotspots |-> Items(work.screenshots[s].hotspots, HotspotPayload)]],
                !.total = Len(work.stages)]

stageSlide(record, i, j) ==
  LET work == record.works[i]
      stage == work.stages[j]
  IN  [Slide(<<Place(record, "works"), i, j>>, SlideId("stage", <<work.key, stage.key>>),
             <<Item(stage, WorkStagePayload)>>, {})
         EXCEPT !.position = j, !.total = Len(work.stages)]

\* <<i, 0>> is the i-th work and <<i, j>> its j-th stage.
BlocksThrough(works, n) ==
  UNION {{<<i, j>> : j \in 0 .. Len(works[i].stages)} : i \in 1 .. n}

\* A plausible slip: a work is counted as the one slide that bears its name.
MutantTaken(works) == {n \in DOMAIN works : n <= MAX_SLIDES - MAX_FIXED_SLIDES}

\* Whole works, in their order, up to the first that no longer fits.
Taken(works) ==
  {n \in DOMAIN works :
     Cardinality(BlocksThrough(works, n)) <= MAX_SLIDES - MAX_FIXED_SLIDES}

\* A plausible slip: the stages of a work that fits no longer are told all the same.
MutantWorkSlides(record) ==
  {workSlide(record, i) : i \in Taken(record.works)}
    \cup UNION {{stageSlide(record, i, j) : j \in DOMAIN record.works[i].stages} :
                  i \in DOMAIN record.works}

workSlides(record) ==
  {workSlide(record, i) : i \in Taken(record.works)}
    \cup UNION {{stageSlide(record, i, j) : j \in DOMAIN record.works[i].stages} :
                  i \in Taken(record.works)}

\* The other sections: one slide, or none for a section with nothing in it.
SectionSlide(record, section, entries, payload, focus) ==
  IF Len(entries) = 0 THEN {}
  ELSE {Slide(<<Place(record, section), 0, 0>>, SlideId(section, <<>>), Items(entries, payload), focus)}

EntryFocus(entries) ==
  {Focus(<<i, 0>>, <<entries[i].key>>, entries[i].of) : i \in DOMAIN entries}

capabilitiesSlide(record) ==
  SectionSlide(record, "capabilities", record.capabilities, CapabilitiesPayload,
               EntryFocus(record.capabilities))
timelineSlide(record) ==
  SectionSlide(record, "timeline", record.timeline, TimelinePayload,
               EntryFocus(record.timeline))
offeringsSlide(record) ==
  SectionSlide(record, "offerings", record.offerings, OfferingsPayload, {})
metricsSlide(record) ==
  SectionSlide(record, "metrics", record.metrics, MetricsPayload, {})
testimonialsSlide(record) ==
  SectionSlide(record, "testimonials", record.testimonials, TestimonialsPayload, {})
teamSlide(record) ==
  SectionSlide(record, "team", record.team, TeamPayload, {})
contentSlide(record) ==
  SectionSlide(record, "content", record.content, ContentPayload, {})

\* The entries at some places of a list, in their order.
Selected(entries, places) ==
  [k \in 1 .. Cardinality(places) |->
     entries[CHOOSE i \in places : Cardinality({j \in places : j < i}) = k - 1]]

\* Images only.
mediaSlide(record) ==
  SectionSlide(record, "media",
               Selected(record.media,
                        {i \in DOMAIN record.media : record.media[i].fields["type"] = Given}),
               MediaPayload, {})

\* Links or a calendar; e-mail and phone do not count.
contactSlide(record) ==
  SectionSlide(record, "contact",
               IF record.social["links"] = Given \/ record.social["calendarUrl"] = Given
               THEN <<[key |-> NoKey, of |-> 0, fields |-> record.social]>> ELSE <<>>,
               ContactPayload, {})

projectSlides(record) ==
  {identitySlide(record)}
    \cup workSlides(record)
    \cup capabilitiesSlide(record) \cup timelineSlide(record) \cup offeringsSlide(record)
    \cup metricsSlide(record) \cup testimonialsSlide(record) \cup teamSlide(record)
    \cup contentSlide(record) \cup mediaSlide(record) \cup contactSlide(record)

-----------------------------------------------------------------------------
(* What the agent can name, and what each name means.                       *)

Path(id, keys) == [slide |-> id, focus |-> keys]

\* A slide or a thing on a slide, and the entry it stands for.
Meanings(slides) ==
  {[path |-> Path(s.id, <<>>), of |-> s.items[1].of] :
     s \in {t \in slides : t.id.name \in {"work", "stage"}}}
    \cup UNION {{[path |-> Path(s.id, f.key), of |-> f.of] : f \in s.focus} : s \in slides}

\* Paths that spell out keys only.
IsKeyed(path) ==
  /\ \A k \in DOMAIN path.slide.keys : path.slide.keys[k] # NoKey
  /\ \A k \in DOMAIN path.focus : path.focus[k] # NoKey

=============================================================================
