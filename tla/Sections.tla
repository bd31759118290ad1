------------------------------- MODULE Sections -------------------------------
(***************************************************************************)
(* The sections of a profile, field by field, through the layers an entry  *)
(* passes: the DTO that accepts it, the mapper that fills it up, the       *)
(* schema that stores it and reads it back, and the type that             *)
(* profile.interface.ts promises of it.  A field is as much as the layers  *)
(* look at: not sent, null, something, or what the code fills in.  Keys,   *)
(* and what is nested under a work, are in Slides.                         *)
(***************************************************************************)
EXTENDS Naturals

Undefined == "undefined"
Null == "null"
Given == "given"
Filled == "filled"     \* the default: [], false, '' or a member of an enum

Absent == {Undefined, Null}

Restriction(entry, fields) == [f \in fields |-> entry[f]]

-----------------------------------------------------------------------------
(* The DTOs: fields that must be sent, and fields that may be left out or   *)
(* null (IsOptional lets both pass).                                        *)

Dto(must, may) == [must |-> must, may |-> may]

WorkEntryDto == Dto({"type", "name", "description", "date"},
  {"tagline", "url", "repoUrl", "coverImage", "technologies", "tags", "status",
   "highlights", "featured", "codeSnippets"})
StageEntryDto == Dto({"label", "summary"},
  {"status", "detail", "date", "endDate", "highlights"})
ScreenshotDto == Dto({"url"}, {"caption"})
HotspotDto == Dto({"label", "note", "x", "y", "w", "h"}, {})
\* A plausible slip: an entry may go without its date, which the schema requires.
MutantTimelineEntryDto == Dto({"category", "label"},
  {"date", "endDate", "organization", "organizationLogoUrl", "description", "highlight", "url"})
TimelineEntryDto == Dto({"category", "date", "label"},
  {"endDate", "organization", "organizationLogoUrl", "description", "highlight", "url"})
CapabilityEntryDto == Dto({"name"},
  {"description", "icon", "category", "proficiency", "yearsOfExperience"})
OfferingEntryDto == Dto({"name", "description"},
  {"icon", "price", "features", "highlighted", "tags", "cta"})
MetricEntryDto == Dto({"value", "label"}, {"description", "icon", "category"})
TestimonialEntryDto == Dto({"text", "author", "relationship"},
  {"role", "organization", "avatarUrl", "featured"})
TeamMemberEntryDto == Dto({"name", "role"}, {"bio", "avatarUrl", "links"})
MediaEntryDto == Dto({"url", "type"}, {"caption", "category"})
ContentEntryDto == Dto({"type", "title", "url"},
  {"description", "thumbnailUrl", "date", "tags", "featured"})
SocialDto == Dto({}, {"links", "email", "phone", "calendarUrl"})
UpdateIdentityDto == Dto({},
  {"entityType", "name", "tagline", "bio", "about", "primaryImage", "coverImage",
   "location", "foundedOrBorn", "industry", "availability"})

FieldsOf(dto) == dto.must \cup dto.may

Accepted(dto, sent) == \A f \in dto.must : sent[f] \notin Absent

-----------------------------------------------------------------------------
(* profile-section.mapper.ts: `??` turns what is absent into null or into a *)
(* default, and copies the rest.                                            *)

Mapper(nulls, fills) == [nulls |-> nulls, fills |-> fills]

toWorks == Mapper({"tagline", "url", "repoUrl", "coverImage"},
  {"description", "technologies", "tags", "status", "highlights", "featured", "codeSnippets"})
toStages == Mapper({"detail", "date", "endDate"}, {"status", "highlights"})
toScreenshots == Mapper({"caption"}, {})
toHotspots == Mapper({}, {})
toTimeline == Mapper(
  {"endDate", "organization", "organizationLogoUrl", "description", "url"}, {"highlight"})
toCapabilities == Mapper(
  {"description", "icon", "category", "proficiency", "yearsOfExperience"}, {})
\* A plausible slip: a field is copied as it came.
MutantToOfferings == Mapper({"icon", "price"}, {"highlighted", "tags"})
toOfferings == Mapper({"icon", "price", "cta"}, {"features", "highlighted", "tags"})
toMetrics == Mapper({"description", "icon", "category"}, {})
toTestimonials == Mapper({"role", "organization", "avatarUrl"}, {"featured"})
toTeam == Mapper({"bio", "avatarUrl"}, {"links"})
toMedia == Mapper({"caption", "category"}, {})
toContent == Mapper({"description", "thumbnailUrl", "date"}, {"tags", "featured"})

\* profile-update.mapper.ts writes object sections field by field: null clears a
\* field, and an empty list of links takes the place of a null one.
SocialUpdate == Mapper({"email", "phone", "calendarUrl"}, {"links"})
IdentityUpdate == Mapper(UpdateIdentityDto.may, {})

Mapped(mapper, sent) ==
  [f \in DOMAIN sent |->
     IF sent[f] \notin Absent THEN sent[f]
     ELSE IF f \in mapper.fills THEN Filled
     ELSE IF f \in mapper.nulls THEN Null
     ELSE sent[f]]

-----------------------------------------------------------------------------
(* profile.schema.ts: what is required, and what a missing field is read    *)
(* back as.                                                                 *)

Schema(required, nulls, fills) == [required |-> required, nulls |-> nulls, fills |-> fills]

WorkSchema == Schema({"type", "name", "date"},
  {"tagline", "url", "repoUrl", "coverImage"},
  {"type", "description", "technologies", "tags", "status", "highlights", "featured",
   "codeSnippets"})
StageSchema == Schema({"label", "summary"}, {"detail", "date", "endDate"},
  {"status", "highlights"})
ScreenshotSchema == Schema({"url"}, {"caption"}, {})
HotspotSchema == Schema({"label", "note", "x", "y", "w", "h"}, {}, {})
TimelineSchema == Schema({"category", "date", "label"},
  {"endDate", "organization", "organizationLogoUrl", "description", "url"}, {"highlight"})
CapabilitySchema == Schema({"name"},
  {"description", "icon", "category", "proficiency", "yearsOfExperience"}, {})
OfferingSchema == Schema({"name", "description"}, {"icon", "price", "cta"},
  {"features", "highlighted", "tags"})
MetricSchema == Schema({"value", "label"}, {"description", "icon", "category"}, {})
TestimonialSchema == Schema({"text", "author", "relationship"},
  {"role", "organization", "avatarUrl"}, {"featured"})
\* A plausible slip: a list added later has no default.
MutantTeamMemberSchema == Schema({"name", "role"}, {"bio", "avatarUrl"}, {})
TeamMemberSchema == Schema({"name", "role"}, {"bio", "avatarUrl"}, {"links"})
MediaSchema == Schema({"url", "type"}, {"caption", "category"}, {})
ContentSchema == Schema({"type", "title", "url"}, {"description", "thumbnailUrl", "date"},
  {"tags", "featured"})
SocialSchema == Schema({}, {"email", "phone", "calendarUrl"}, {"links"})
IdentitySchema == Schema({"entityType", "name"},
  UpdateIdentityDto.may \ {"entityType", "name"}, {"entityType"})

\* runValidators: required refuses null.
Storable(schema, entry) == \A f \in schema.required : entry[f] \notin Absent

\* What Mongoose hydrates a stored entry to.
Hydrated(schema, entry) ==
  [f \in DOMAIN entry |->
     IF entry[f] # Undefined THEN entry[f]
     ELSE IF f \in schema.fills THEN Filled
     ELSE IF f \in schema.nulls THEN Null
     ELSE Undefined]

-----------------------------------------------------------------------------
(* profile.interface.ts: the fields that may be null.  None is undefined.   *)

WorkNullable == {"tagline", "url", "repoUrl", "coverImage"}
StageNullable == {"detail", "date", "endDate"}
ScreenshotNullable == {"caption"}
HotspotNullable == {}
TimelineNullable == {"endDate", "organization", "organizationLogoUrl", "description", "url"}
CapabilityNullable == {"description", "icon", "category", "proficiency", "yearsOfExperience"}
OfferingNullable == {"icon", "price", "cta"}
MetricNullable == {"description", "icon", "category"}
TestimonialNullable == {"role", "organization", "avatarUrl"}
TeamMemberNullable == {"bio", "avatarUrl"}
MediaNullable == {"caption", "category"}
ContentNullable == {"description", "thumbnailUrl", "date"}
SocialNullable == {"email", "phone", "calendarUrl"}
IdentityNullable == UpdateIdentityDto.may \ {"entityType", "name"}

Conforms(nullable, entry) ==
  \A f \in DOMAIN entry : entry[f] # Undefined /\ (entry[f] = Null => f \in nullable)

-----------------------------------------------------------------------------
(* The layers of each section side by side.                                 *)

Layer(dto, mapper, schema, nullable) ==
  [dto |-> dto, mapper |-> mapper, schema |-> schema, nullable |-> nullable]

Layers ==
  [works |-> Layer(WorkEntryDto, toWorks, WorkSchema, WorkNullable),
   stages |-> Layer(StageEntryDto, toStages, StageSchema, StageNullable),
   screenshots |-> Layer(ScreenshotDto, toScreenshots, ScreenshotSchema, ScreenshotNullable),
   hotspots |-> Layer(HotspotDto, toHotspots, HotspotSchema, HotspotNullable),
   timeline |-> Layer(TimelineEntryDto, toTimeline, TimelineSchema, TimelineNullable),
   capabilities |->
     Layer(CapabilityEntryDto, toCapabilities, CapabilitySchema, CapabilityNullable),
   offerings |-> Layer(OfferingEntryDto, toOfferings, OfferingSchema, OfferingNullable),
   metrics |-> Layer(MetricEntryDto, toMetrics, MetricSchema, MetricNullable),
   testimonials |->
     Layer(TestimonialEntryDto, toTestimonials, TestimonialSchema, TestimonialNullable),
   team |-> Layer(TeamMemberEntryDto, toTeam, TeamMemberSchema, TeamMemberNullable),
   media |-> Layer(MediaEntryDto, toMedia, MediaSchema, MediaNullable),
   content |-> Layer(ContentEntryDto, toContent, ContentSchema, ContentNullable),
   social |-> Layer(SocialDto, SocialUpdate, SocialSchema, SocialNullable),
   identity |-> Layer(UpdateIdentityDto, IdentityUpdate, IdentitySchema, IdentityNullable)]

KEYED_ARRAY_SECTIONS ==
  {"works", "timeline", "capabilities", "offerings", "metrics", "testimonials", "team",
   "media", "content"}

\* A body of which every optional field is sent, left out or null; the media
\* field type is "given" for an image and "video" otherwise.
Shape(section, rest) ==
  [f \in FieldsOf(Layers[section].dto) |->
     IF f \in Layers[section].dto.must THEN Given ELSE rest]

Shapes(section) == {Shape(section, rest) : rest \in {Given, Undefined, Null}}

=============================================================================
